----------------------------- MODULE MCPrograms -----------------------------
(* Five programs that share nothing, in one run: the virtual machine of    *)
(* hitbkl2012_klks, god.py, the Befunge interpreter, the serial dialog of  *)
(* ctf_bin5 and the lookup table of bin200.  `program' is the one that     *)
(* runs; the variables of the others stay as they start.                   *)
EXTENDS VmProcessor, TLC

CONSTANTS
  Runs, Teams, Ports, DaemonInfo, Checksums, FlagRows, Jobs, Touched, MaxCrashes, MaxChanges,
  Sources, Ord, Numbers, Letters, MaxStack, MaxValue,
  Texts,
  Buffers, WordBytes, ByteBits, Flags, Stuck

VARIABLES
  program,
  run, dl_tmp, opened, remote, disk, crashes, changes,
  opcode_matrix, app_stack, cur_pos, cur_dir, VMStringStart, befunge,
  edition, process, text, bValidSerial, debugger, message, judged, slow,
  phase, buffer, cFlag, lookup_table, pos, rbyte, tested, unstuck_ctr, unstuck, key

godVars == <<run, dl_tmp, opened, remote, disk, crashes, changes>>
befungeVars == <<opcode_matrix, app_stack, cur_pos, cur_dir, VMStringStart, befunge>>
serialVars == <<edition, process, text, bValidSerial, debugger, message, judged, slow>>
lookupVars == <<phase, buffer, cFlag, lookup_table, pos, rbyte, tested, unstuck_ctr, unstuck, key>>

God == INSTANCE GodPy
Bef == INSTANCE Befunge WITH status <- befunge
Ser == INSTANCE SerialCheck
Bit == INSTANCE BitLookup

-----------------------------------------------------------------------------
\* Every instruction and every way it can be refused; the registers 11 to 13 are
\* those of vm_strlen.
MCBlocks == {
  <<OP_PUSH, OP_CONST, 0, 0, 0, 1, OP_PUSH, OP_REG, 12, OP_VM_EXIT>>,
  <<OP_PUSH, OP_REG, 13, OP_VM_EXIT>>,
  <<OP_POP, 13, OP_VM_EXIT>>,
  <<OP_POP, 0, OP_POP, 12, OP_VM_EXIT>>,
  <<OP_MOV, 13, OP_OFFSET, 0, 0, 0, 1, 1, OP_INC, 12, OP_VM_EXIT>>,
  <<OP_MOVZX, 13, 11, 2, OP_DEC, 12, OP_VM_EXIT>>,
  <<OP_AND, 13, OP_CONST, 0, 1, 1, 0, OP_XOR, 0, OP_REG, 13, OP_SHL, 0, OP_CONST, 0, 0, 1, 1, OP_VM_EXIT>>,
  <<OP_SHR, 13, OP_CONST, 0, 0, 0, 1, OP_ADD, 12, OP_REG, 13, OP_VM_EXIT>>,
  <<OP_SUB, 12, OP_CONST, 0, 0, 0, 1, OP_CMP, 13, OP_REG, 13, OP_VM_EXIT>>,
  <<OP_OR, 0, OP_REG, 13, OP_VM_EXIT>>, <<OP_PUSH, OP_OFFSET, 0, 0, 0, 0, 0, OP_VM_EXIT>>,
  <<OP_POP, 16, OP_VM_EXIT>>, <<OP_MOVZX, 0, 11, 5, OP_VM_EXIT>> }

\* The strings at 13, 14 and 15, the last of which ends with the memory.
MCMemories == {m \in [13 .. 15 -> 0 .. 1] : m[15] = 0}

\* One run fetches a flag; the other checks one daemon or all, or asks for what is not
\* there, while it does or after it has been killed.
Job(op, ip, port) == [op |-> op, ip |-> ip, port |-> port]
MCJobs ==
  "r1" :> {Job("getflag", 1, 1)} @@
  "r2" :> {Job("checkflag", 1, 1), Job("checkflag", 0, 1), Job("checkhash", 1, 1),
           Job("checkhash", 1, 2), Job("checkflag", 2, 2), Job("setflag", 0, 1),
           Job("getflag", 3, 1)}
MCPorts == <<1, 2>>
MCFlagRows == {<<1, 1>>, <<2, 1>>, <<1, 2>>}
MCTouched == {<<1, 1, "flag">>, <<1, 1, "bin">>}

\* Three lines, of which the second is of any kind and shorter than the third, or not;
\* two lines for every calculation; and a trampoline in the first line.
Seconds ==
  {<<>>} \cup {<<c>> : c \in {"1", "0", "v", "^", "_", "|", "#", "quote"}}
    \cup {<<c, d>> : c, d \in {"v", "#", "1", " "}}
MCSources ==
  {<<first, second, third>> :
     first \in {<<"v">>, <<"<">>, <<"?", "v">>, <<"1", "?">>, <<" ", "#", "^">>},
     second \in Seconds,
     third \in {<<>>, <<"1", "v">>, <<"@", "^", "<">>, <<"|", "_">>}}
  \cup
  {<<<<a, b, c, "@">>, <<"-", "p">>>> :
     a \in {"1", "&", "~"}, b \in {"!", ":", "0", "quote"},
     c \in {"+", "-", "*", "/", "%", "backquote", "backslash", "$", ".", ",", "g"}}
  \cup {<<<<"v", "#">>, <<">", "^">>>>}
MCOrd ==
  "0" :> 48 @@ "1" :> 49 @@
  [c \in {"!", ":", "quote", "+", "-", "*", "/", "%", "backquote", "backslash", "$", ".", ",",
          "g", "p", "v", "^", "<", ">", "_", "|", "#", "?", " ", "@", "&", "~"} |-> 64]
MCNumbers == {-2, 0}

\* The words that belong to a fifth and a seventh one, these with one word gone, and a
\* serial with a wrong CRC.
Words == INSTANCE SerialCheck WITH Texts <- {}
Whole == {Words!GenerateSerial(w5, w7) : w5 \in {4919, 57005}, w7 \in {30853, 34693, 31}}
Right == {Words!GenerateSerial(4919, 30853), Words!GenerateSerial(57005, 34693)}
Broken == {[w EXCEPT ![i] = 0] : w \in Right, i \in 0 .. 9}
MCTexts ==
  [form : {"full"}, w : Whole \cup Broken] \cup [form : {"badcrc"}, w : Right]

\* Words whose bytes are all alike, partly alike, and mixed.
MCBuffers == {<<<<<<0, 0>>, <<0, 1>>>>, <<<<1, 0>>, <<1, 1>>>>>>}
MCFlags == {<<a, b>> : a, b \in {0, 1}}

-----------------------------------------------------------------------------
MCInit ==
  /\ program \in {"vm", "god.py", "befunge", "serial", "lookup"}
  /\ Init /\ God!Init /\ Bef!BefungeInit /\ Ser!SerialInit /\ Bit!LookupInit
  /\ program # "vm" => memory = [a \in 13 .. 15 |-> 0]
  /\ program # "befunge" => opcode_matrix = <<<<"v">>, <<>>, <<>>>>
  /\ program # "serial" => edition = "hitb2009"
  /\ program # "lookup" => cFlag = <<0, 0>>

MCNext ==
  \/ program = "vm" /\ Next
       /\ UNCHANGED <<program, godVars, befungeVars, serialVars, lookupVars>>
  \/ program = "god.py" /\ God!Next
       /\ UNCHANGED <<program, vars, befungeVars, serialVars, lookupVars>>
  \/ program = "befunge" /\ Bef!BefungeNext
       /\ UNCHANGED <<program, vars, godVars, serialVars, lookupVars>>
  \/ program = "serial" /\ Ser!SerialNext
       /\ UNCHANGED <<program, vars, godVars, befungeVars, lookupVars>>
  \/ program = "lookup" /\ Bit!LookupNext
       /\ UNCHANGED <<program, vars, godVars, befungeVars, serialVars>>

MCSpec == MCInit /\ [][MCNext]_<<program, vars, godVars, befungeVars, serialVars, lookupVars>>

\* VerdictSound of GodPy: status 0 means that a flag was seen to be right.
VerdictSound == God!VerdictSound
\* VerdictExact of GodPy: alone, a check of one daemon tells exactly what there is.
VerdictExact == God!VerdictExact
\* MovesOnTorus of Befunge: a move is one on the torus, or leaves it over the edge.
MovesOnTorus == Bef!MovesOnTorus
\* OnlyTheSerial of SerialCheck: the checks accept what GenerateSerial makes.
OnlyTheSerial == Ser!OnlyTheSerial
\* KeyIsFlag of BitLookup: the table decodes to the flag.
KeyIsFlag == Bit!KeyIsFlag
=============================================================================
