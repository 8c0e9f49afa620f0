---------------------------- MODULE ProgramsProofs --------------------------
(* The virtual machine's stack and vm_strlen, for every code that the host *)
(* runs on the machine and every memory that it reads; the verdicts of     *)
(* god.py, for every database, however many runs there are at once and     *)
(* whatever the earlier ones have left; the table of bin200; the one       *)
(* serial that each edition of ctf_bin5 accepts; the moves of Befunge.     *)
EXTENDS MCPrograms, ListProofs, SequenceTheorems, TLAPS

-----------------------------------------------------------------------------
(* The virtual machine.                                                    *)
\* vm_esp stays in the stack, and nothing but a register or a word of the stack that
\* exists is written (lines 391-455).
StackBounded ==
  /\ vm_esp \in 0 .. StackWords
  /\ vm_stack = [i \in 0 .. StackWords |-> vm_stack[i]]
  /\ vm_reg = [r \in Registers |-> vm_reg[r]]

items == [i \in 1 .. vm_esp |-> vm_stack[i]]

\* The instructions that leave the stack alone.
NoStack == UNCHANGED <<vm_esp, vm_stack>>

\* What a step of VM_PARSER can be for the stack.
LEMMA ParserSteps ==
  ASSUME VM_PARSER
  PROVE  \/ status = "parser" /\ VM_PUSH_Process
         \/ status = "parser" /\ VM_POP_Process
         \/ /\ status = "parser" /\ NoStack
            /\ \/ /\ status' \in {"parser", "host"}
                  /\ vm_reg' = vm_reg \/ \E r, v : vm_reg' = [vm_reg EXCEPT ![r] = v]
               \/ status' \in {"exited", "fault"} /\ vm_reg' = vm_reg
  <1>1. status = "parser"
    BY DEF VM_PARSER
  <1>2. CASE VM_DEC_Process
    BY <1>1, <1>2 DEF VM_DEC_Process, NoStack
  <1>3. CASE VM_INC_Process
    BY <1>1, <1>3 DEF VM_INC_Process, NoStack
  <1>4. CASE VM_MOVZX_Process
    BY <1>1, <1>4 DEF VM_MOVZX_Process, NoStack
  <1>5. CASE VM_MOVZX_Fault
    BY <1>1, <1>5 DEF VM_MOVZX_Fault, NoStack
  <1>6. CASE VM_Generic_Process
    BY <1>1, <1>6 DEF VM_Generic_Process, NoStack
  <1>7. CASE VM_EXIT
    BY <1>1, <1>7 DEF VM_EXIT, NoStack
  <1>8. CASE VM_CRITICAL_ERROR
    BY <1>1, <1>8 DEF VM_CRITICAL_ERROR, NoStack
  <1> QED
    BY <1>1, <1>2, <1>3, <1>4, <1>5, <1>6, <1>7, <1>8 DEF VM_PARSER

\* The host touches the machine's stack by no other way than its code.
LEMMA HostSteps ==
  ASSUME RunBlock \/ VmStrlen \/ StrlenLoop \/ StrlenEnd \/ StrlenReturn
  PROVE  /\ status = "host" /\ status' \in {"host", "parser"} /\ NoStack
         /\ vm_reg' = vm_reg \/ \E s : vm_reg' = [vm_reg EXCEPT ![OP_REG12] = s]
  BY DEF RunBlock, VmStrlen, StrlenLoop, StrlenEnd, StrlenReturn, VM_ENTER, NoStack

LEMMA StackBoundedInit ==
  Init => StackBounded
  BY VmAssumption DEF VmAssumption, Init, StackBounded

\* A function with one value replaced is a function on the same set.
LEMMA ExceptIsFunction ==
  ASSUME NEW S, NEW f, f = [x \in S |-> f[x]], NEW a, NEW v, NEW g, g = [f EXCEPT ![a] = v]
  PROVE  g = [x \in S |-> g[x]]
  OBVIOUS

LEMMA StackBoundedStep ==
  ASSUME StackBounded, [Next]_vars
  PROVE  StackBounded'
  <1> USE VmAssumption DEF VmAssumption
  <1>1. CASE VM_PARSER
    <2>1. CASE VM_PUSH_Process
      <3>1. vm_esp' \in 0 .. StackWords
        BY <2>1 DEF StackBounded, VM_PUSH_Process, CanPush
      <3>2. vm_reg' = vm_reg /\ vm_stack' = [vm_stack EXCEPT ![vm_esp + 1] = Value(2)]
        BY <2>1 DEF VM_PUSH_Process
      <3> QED
        BY <3>1, <3>2, ExceptIsFunction DEF StackBounded
    <2>2. CASE VM_POP_Process
      <3>1. vm_esp' \in 0 .. StackWords
        BY <2>2 DEF StackBounded, VM_POP_Process, CanPop
      <3>2. vm_stack' = vm_stack /\ vm_reg' = [vm_reg EXCEPT ![vm_ip[2]] = vm_stack[vm_esp]]
        BY <2>2 DEF VM_POP_Process
      <3> QED
        BY <3>1, <3>2, ExceptIsFunction DEF StackBounded
    <2>3. CASE NoStack /\ (vm_reg' = vm_reg \/ \E r, v : vm_reg' = [vm_reg EXCEPT ![r] = v])
      BY <2>3, ExceptIsFunction DEF StackBounded, NoStack
    <2> QED
      BY <1>1, <2>1, <2>2, <2>3, ParserSteps
  <1>2. CASE RunBlock \/ VmStrlen \/ StrlenLoop \/ StrlenEnd \/ StrlenReturn
    BY <1>2, HostSteps DEF StackBounded, NoStack
  <1>3. CASE UNCHANGED vars
    BY <1>3 DEF StackBounded, vars
  <1> QED
    BY <1>1, <1>2, <1>3 DEF Next

THEOREM StackBoundedThm == Spec => []StackBounded
  BY StackBoundedInit, StackBoundedStep, PTL DEF Spec

-----------------------------------------------------------------------------
(* The refinement.                                                         *)

LEMMA RefineInit == Init => Stack!StackInit
  <1> SUFFICES ASSUME Init PROVE Stack!StackInit
    OBVIOUS
  <1>1. [i \in 1 .. vm_esp |-> vm_stack[i]] = <<>>
    BY DEF Init
  <1> QED
    BY <1>1 DEF Init, Stack!StackInit

LEMMA RefinePush ==
  ASSUME StackBounded, status = "parser", VM_PUSH_Process
  PROVE  Stack!PushWord
  <1> USE VmAssumption DEF VmAssumption
  <1>1. vm_esp \in Nat /\ vm_esp + 1 <= StackWords
    BY DEF StackBounded, VM_PUSH_Process, CanPush
  <1>2. items \in Seq({vm_stack[i] : i \in 1 .. vm_esp}) /\ Len(items) = vm_esp
    BY <1>1 DEF items
  <1>3. vm_esp' = vm_esp + 1 /\ Len(items') = Len(items) + 1
    BY <1>1, <1>2 DEF items, VM_PUSH_Process
  <1>4. \A i \in 1 .. vm_esp : vm_stack'[i] = vm_stack[i]
    BY <1>1 DEF StackBounded, VM_PUSH_Process
  <1>5. SubSeq(items', 1, Len(items)) = items
    <2>1. SubSeq(items', 1, vm_esp) = [i \in 1 .. vm_esp |-> vm_stack'[i]]
      BY <1>1, <1>3 DEF items
    <2> QED
      BY <1>2, <1>4, <2>1 DEF items
  <1>6. UNCHANGED <<status, vm_reg>>
    BY DEF VM_PUSH_Process
  <1>7. Len(items) < StackWords
    BY <1>1, <1>2
  <1> QED
    BY <1>3, <1>5, <1>6, <1>7 DEF Stack!PushWord, items

LEMMA RefinePop ==
  ASSUME StackBounded, status = "parser", VM_POP_Process
  PROVE  Stack!PopWord
  <1>1. vm_esp \in Nat /\ vm_esp >= 1 /\ vm_esp' = vm_esp - 1 /\ vm_stack' = vm_stack
    BY VmAssumption DEF VmAssumption, StackBounded, VM_POP_Process, CanPop
  <1>2. Len(items) = vm_esp /\ items # <<>> /\ items[Len(items)] = vm_stack[vm_esp]
    BY <1>1 DEF items
  <1>3. \E r \in Registers : vm_reg' = [vm_reg EXCEPT ![r] = items[Len(items)]]
    BY <1>2 DEF VM_POP_Process, CanPop
  <1>4. items' = SubSeq(items, 1, Len(items) - 1)
    BY <1>1, <1>2 DEF items
  <1>5. UNCHANGED status
    BY DEF VM_POP_Process
  <1> QED
    BY <1>2, <1>3, <1>4, <1>5 DEF Stack!PopWord, items

LEMMA RefineStep ==
  ASSUME StackBounded, [Next]_vars
  PROVE  [Stack!StackNext]_(Stack!stackVars)
  <1>1. CASE VM_PARSER
    <2>1. CASE status = "parser" /\ VM_PUSH_Process
      BY <2>1, RefinePush DEF Stack!StackNext
    <2>2. CASE status = "parser" /\ VM_POP_Process
      BY <2>2, RefinePop DEF Stack!StackNext
    <2>3. CASE status = "parser" /\ NoStack /\ status' \in {"parser", "host"}
      BY <2>3 DEF NoStack, Stack!StackNext, Stack!OtherWork
    <2>4. CASE /\ status = "parser" /\ NoStack
               /\ status' \in {"exited", "fault"} /\ vm_reg' = vm_reg
      BY <2>4 DEF NoStack, Stack!StackNext, Stack!Stop
    <2> QED
      BY <1>1, <2>1, <2>2, <2>3, <2>4, ParserSteps
  <1>2. CASE RunBlock \/ VmStrlen \/ StrlenLoop \/ StrlenEnd \/ StrlenReturn
    BY <1>2, HostSteps DEF NoStack, Stack!StackNext, Stack!OtherWork
  <1>3. CASE UNCHANGED vars
    BY <1>3 DEF vars, Stack!stackVars
  <1> QED
    BY <1>1, <1>2, <1>3 DEF Next

\* PUSH and POP keep a stack of StackWords words, for every size of the stack and every
\* code that runs on the machine (lines 391-455).
THEOREM ImplementsStackThm == Spec => ImplementsStack
  BY RefineInit, RefineStep, StackBoundedThm, PTL DEF Spec, ImplementsStack, Stack!StackSpec

-----------------------------------------------------------------------------
(* vm_strlen.                                                              *)

\* The code between its labels, and what is left of it after each instruction.
Begin == <<OP_MOV, OP_REG13, OP_REG, OP_REG12, OP_VM_EXIT>>
Load  == <<OP_MOVZX, OP_REG14, OP_REG13, 1, OP_INC, OP_REG13,
           OP_CMP, OP_REG14, OP_CONST, 0, 0, 0, 0, OP_VM_EXIT>>
Inc   == <<OP_INC, OP_REG13, OP_CMP, OP_REG14, OP_CONST, 0, 0, 0, 0, OP_VM_EXIT>>
Cmp   == <<OP_CMP, OP_REG14, OP_CONST, 0, 0, 0, 0, OP_VM_EXIT>>
Sub   == <<OP_SUB, OP_REG13, OP_REG, OP_REG12, OP_DEC, OP_REG13, OP_VM_EXIT>>
Dec   == <<OP_DEC, OP_REG13, OP_VM_EXIT>>
Exit  == <<OP_VM_EXIT>>

\* What is behind the first n units of a piece of code.
LEMMA Dropped ==
  ASSUME NEW s \in Seq(Nat), NEW t \in Seq(Nat), NEW n \in 1 .. Len(s), Len(s) = Len(t) + n,
         \A i \in 1 .. Len(t) : s[i + n] = t[i]
  PROVE  SubSeq(s, n + 1, Len(s)) = t
  <1> DEFINE u == SubSeq(s, n + 1, Len(s))
  <1>0. Len(s) \in Nat /\ Len(t) \in Nat /\ n \in Nat /\ n + 1 \in 1 .. Len(s) + 1
    BY LenProperties
  <1>1. u \in Seq(Nat) /\ Len(u) = Len(t) /\ \A i \in 1 .. Len(u) : u[i] = s[n + i]
    <2> DEFINE m == n + 1
               l == Len(s)
    <2>1. m \in 1 .. l + 1 /\ l \in m - 1 .. l
      BY <1>0
    <2>2. /\ SubSeq(s, m, l) \in Seq(Nat)
          /\ Len(SubSeq(s, m, l)) = (IF m <= l THEN l - m + 1 ELSE 0)
          /\ \A i \in 1 .. l - m + 1 : SubSeq(s, m, l)[i] = s[m + i - 1]
      <3> HIDE DEF m, l
      <3>1. m \in 1 .. Len(s) + 1 /\ l \in m - 1 .. Len(s)
        BY <2>1 DEF l
      <3> QED BY <3>1, SubSeqProperties, SMTT(30)
    <2>3. Len(u) = Len(t)
      BY <1>0, <2>2
    <2>4. ASSUME NEW i \in 1 .. Len(u) PROVE u[i] = s[n + i]
      <3>1. i \in 1 .. l - m + 1 /\ m + i - 1 = n + i
        BY <1>0, <2>3
      <3>2. u = SubSeq(s, m, l)
        OBVIOUS
      <3> HIDE DEF u, m, l
      <3> QED BY <2>2, <3>1, <3>2
    <2> QED BY <2>2, <2>3, <2>4
  <1> HIDE DEF u
  <1>2. ASSUME NEW i \in 1 .. Len(u) PROVE u[i] = t[i]
    <2>1. i \in 1 .. Len(t) /\ n + i = i + n
      BY <1>1
    <2>2. s[i + n] = t[i]
      BY <2>1
    <2> QED BY <1>1, <2>1, <2>2
  <1>3. u = t
    BY <1>1, <1>2, SeqEqual
  <1> QED
    BY <1>3 DEF u

LEMMA TakenCode ==
  /\ vm_ip = Begin /\ Taken(4) => vm_ip' = Exit
  /\ vm_ip = Load /\ Taken(4) => vm_ip' = Inc
  /\ vm_ip = Inc /\ Taken(2) => vm_ip' = Cmp
  /\ vm_ip = Cmp /\ Taken(7) => vm_ip' = Exit
  /\ vm_ip = Sub /\ Taken(4) => vm_ip' = Dec
  /\ vm_ip = Dec /\ Taken(2) => vm_ip' = Exit
  <1> USE DEF OP_MOV, OP_MOVZX, OP_SUB, OP_INC, OP_DEC, OP_CMP, OP_VM_EXIT,
              OP_CONST, OP_REG, OP_REG12, OP_REG13, OP_REG14
  <1>1. SubSeq(Begin, 4 + 1, Len(Begin)) = Exit
    <2>1. Begin \in Seq(Nat) /\ Exit \in Seq(Nat) /\ Len(Begin) = 5 /\ Len(Exit) = 1
      BY DEF Begin, Exit
    <2>2. \A i \in 1 .. 1 : Begin[i + 4] = Exit[i]
      BY DEF Begin, Exit
    <2> QED
      BY <2>1, <2>2, Dropped
  <1>2. SubSeq(Load, 4 + 1, Len(Load)) = Inc
    <2>1. Load \in Seq(Nat) /\ Inc \in Seq(Nat) /\ Len(Load) = 14 /\ Len(Inc) = 10
      BY DEF Load, Inc
    <2>2. \A i \in 1 .. 10 : Load[i + 4] = Inc[i]
      BY DEF Load, Inc
    <2> QED
      BY <2>1, <2>2, Dropped
  <1>3. SubSeq(Inc, 2 + 1, Len(Inc)) = Cmp
    <2>1. Inc \in Seq(Nat) /\ Cmp \in Seq(Nat) /\ Len(Inc) = 10 /\ Len(Cmp) = 8
      BY DEF Inc, Cmp
    <2>2. \A i \in 1 .. 8 : Inc[i + 2] = Cmp[i]
      BY DEF Inc, Cmp
    <2> QED
      BY <2>1, <2>2, Dropped
  <1>4. SubSeq(Cmp, 7 + 1, Len(Cmp)) = Exit
    <2>1. Cmp \in Seq(Nat) /\ Exit \in Seq(Nat) /\ Len(Cmp) = 8 /\ Len(Exit) = 1
      BY DEF Cmp, Exit
    <2>2. \A i \in 1 .. 1 : Cmp[i + 7] = Exit[i]
      BY DEF Cmp, Exit
    <2> QED
      BY <2>1, <2>2, Dropped
  <1>5. SubSeq(Sub, 4 + 1, Len(Sub)) = Dec
    <2>1. Sub \in Seq(Nat) /\ Dec \in Seq(Nat) /\ Len(Sub) = 7 /\ Len(Dec) = 3
      BY DEF Sub, Dec
    <2>2. \A i \in 1 .. 3 : Sub[i + 4] = Dec[i]
      BY DEF Sub, Dec
    <2> QED
      BY <2>1, <2>2, Dropped
  <1>6. SubSeq(Dec, 2 + 1, Len(Dec)) = Exit
    <2>1. Dec \in Seq(Nat) /\ Exit \in Seq(Nat) /\ Len(Dec) = 3 /\ Len(Exit) = 1
      BY DEF Dec, Exit
    <2>2. \A i \in 1 .. 1 : Dec[i + 2] = Exit[i]
      BY DEF Dec, Exit
    <2> QED
      BY <2>1, <2>2, Dropped
  <1> HIDE DEF Begin, Load, Inc, Cmp, Sub, Dec, Exit
  <1> QED
    BY <1>1, <1>2, <1>3, <1>4, <1>5, <1>6, Zenon DEF Taken

\* What the words and the bytes are.
LEMMA WordsAreNat ==
  /\ Word \in Nat \ {0, 1}
  /\ \A x \in Int : x >= 0 /\ x < Word => x % Word = x
  /\ \A x \in Int : x < 0 /\ x >= -Word => x % Word = x + Word
  /\ Word % Word = 0
  /\ \A x \in 0 .. Byte - 1 : x \in 0 .. Word - 1
<1>1. Word \in Nat \ {0, 1} /\ Byte <= Word
  BY VmAssumption DEF VmAssumption, Word
<1> DEFINE w == Word
<1>2. w \in Nat \ {0, 1}
  BY <1>1
<1> HIDE DEF w
<1>3. \A x \in Int : x >= 0 /\ x < w => x % w = x
  BY <1>2
<1>4. \A x \in Int : x < 0 /\ x >= -w => x % w = x + w
  BY <1>2
<1>5. w % w = 0
  BY <1>2
<1>6. \A x \in 0 .. Byte - 1 : x \in 0 .. Word - 1
  BY <1>1, VmAssumption DEF VmAssumption
<1> QED BY <1>1, <1>3, <1>4, <1>5, <1>6 DEF w

\* MOVZX of one byte.
LEMMA LoadedOne ==
  ASSUME NEW a, memory[a] \in 0 .. Byte - 1, a \in Int
  PROVE  Loaded(0, a, 1) = memory[a]
<1> DEFINE f == CHOOSE f : f = [i \in 0 .. 1 |->
                 IF i = 0 THEN 0 ELSE (f[i - 1] * Byte + memory[a + i - 1]) % Word]
           g == [i \in 0 .. 1 |-> IF i = 0 THEN 0 ELSE (0 * Byte + memory[a + i - 1]) % Word]
<1>1. g = [i \in 0 .. 1 |-> IF i = 0 THEN 0 ELSE (g[i - 1] * Byte + memory[a + i - 1]) % Word]
  OBVIOUS
<1>2. f = [i \in 0 .. 1 |-> IF i = 0 THEN 0 ELSE (f[i - 1] * Byte + memory[a + i - 1]) % Word]
  <2> HIDE DEF g
  <2> QED BY <1>1
<1>3. Loaded(0, a, 1) = f[1]
  BY DEF Loaded
<1> HIDE DEF f
<1>4. f[0] = 0 /\ f[1] = (f[0] * Byte + memory[a]) % Word
  BY <1>2
<1>5. f[0] * Byte + memory[a] = memory[a]
  BY <1>4, VmAssumption DEF VmAssumption
<1> QED BY <1>3, <1>4, <1>5, WordsAreNat

\* What the one instruction at vm_ip can be.
Stopped == status \in {"exited", "fault"}
LEMMA Decode ==
  ASSUME VM_PARSER
  PROVE  /\ status = "parser" /\ UNCHANGED hostVars
         /\ Opcode \in {OP_MOV, OP_SUB, OP_CMP} => VM_Generic_Process \/ Stopped'
         /\ Opcode = OP_MOVZX => VM_MOVZX_Process \/ Stopped'
         /\ Opcode = OP_INC => VM_INC_Process \/ Stopped'
         /\ Opcode = OP_DEC => VM_DEC_Process \/ Stopped'
         /\ Opcode = OP_VM_EXIT => VM_EXIT \/ Stopped'
  <1> USE DEF OP_MOV, OP_MOVZX, OP_SHR, OP_SHL, OP_ADD, OP_SUB, OP_XOR, OP_AND, OP_OR,
              OP_VM_EXIT, OP_PUSH, OP_POP, OP_INC, OP_DEC, OP_CMP, Generic, Stopped
  <1>1. status = "parser" /\ UNCHANGED hostVars
    BY DEF VM_PARSER
  <1>2. CASE VM_PUSH_Process
    BY <1>1, <1>2 DEF VM_PUSH_Process
  <1>3. CASE VM_POP_Process
    BY <1>1, <1>3 DEF VM_POP_Process
  <1>4. CASE VM_DEC_Process
    BY <1>1, <1>4 DEF VM_DEC_Process
  <1>5. CASE VM_INC_Process
    BY <1>1, <1>5 DEF VM_INC_Process
  <1>6. CASE VM_MOVZX_Process
    BY <1>1, <1>6 DEF VM_MOVZX_Process
  <1>7. CASE VM_MOVZX_Fault
    BY <1>1, <1>7 DEF VM_MOVZX_Fault
  <1>8. CASE VM_Generic_Process
    BY <1>1, <1>8 DEF VM_Generic_Process
  <1>9. CASE VM_EXIT
    BY <1>1, <1>9 DEF VM_EXIT
  <1>10. CASE VM_CRITICAL_ERROR
    BY <1>1, <1>10 DEF VM_CRITICAL_ERROR
  <1> QED
    BY <1>1, <1>2, <1>3, <1>4, <1>5, <1>6, <1>7, <1>8, <1>9, <1>10 DEF VM_PARSER

-----------------------------------------------------------------------------
(* Where vm_strlen is, and what it has found there.  OP_REG13 is the next  *)
(* address to read, modulo Word; the bytes before it are mapped and no NUL.*)

Address == vm_reg[OP_REG13]
LastRead == (Address - 1) % Word

Before(x) == \A a \in in_str .. x - 1 : a \in DOMAIN memory /\ memory[a] # 0
Reading(x) == in_str <= x /\ x \in DOMAIN memory /\ Before(x)

\* An address that wrapped to 0 is never mapped: the next MOVZX faults.
Scanning == Address \in 0 .. Word - 1 /\ (Address = 0 \/ (in_str <= Address /\ Before(Address)))
HasByte == Reading(Address) /\ vm_reg[OP_REG14] = memory[Address]
HasMoved == Address \in 0 .. Word - 1 /\ Reading(LastRead)
HasCompared == HasMoved /\ (vm_cmpbit <=> memory[LastRead] = 0)

InBlock(label, code) == status = "parser" /\ host = label /\ vm_ip = code
Behind(label) == status = "host" /\ host = label

AtBegin == InBlock("begin", Begin) \/ (InBlock("begin", Exit) /\ Scanning) \/ (Behind("begin") /\ Scanning)
AtLoop ==
  \/ InBlock("strlen_loop", Load) /\ Scanning
  \/ InBlock("strlen_loop", Inc) /\ HasByte
  \/ InBlock("strlen_loop", Cmp) /\ HasMoved /\ vm_reg[OP_REG14] = memory[LastRead]
  \/ InBlock("strlen_loop", Exit) /\ HasCompared
  \/ Behind("strlen_loop") /\ HasCompared
AtEnd ==
  \/ InBlock("end", Sub) /\ HasMoved /\ memory[LastRead] = 0
  \/ InBlock("end", Dec) /\ Address - 1 = Length(in_str) /\ Length(in_str) \in 0 .. Word - 1
  \/ InBlock("end", Exit) /\ Address = Length(in_str)
  \/ Behind("end") /\ Address = Length(in_str)

StrlenInv ==
  /\ memory \in Memories /\ in_str \in 0 .. Word - 1
  /\ Stopped \/ host = "idle" \/ (vm_reg[OP_REG12] = in_str /\ (AtBegin \/ AtLoop \/ AtEnd))

\* What TLC checks of the code is that vm_strlen ends with the first NUL's index.
LEMMA LengthIs ==
  ASSUME memory \in Memories, in_str \in 0 .. Word - 1,
         NEW x, Reading(x), memory[x] = 0
  PROVE  /\ in_str \in 1 .. Word - 1 /\ x \in in_str .. Word - 1
         /\ Length(in_str) = x - in_str
  <1> DEFINE w == Word
  <1>1. w \in Nat \ {0, 1}
    BY WordsAreNat
  <1>2. DOMAIN memory \subseteq 1 .. w - 1 /\ in_str \in 0 .. w - 1
    BY VmAssumption DEF VmAssumption
  <1> HIDE DEF w
  <1>3. x \in DOMAIN memory /\ x \in 1 .. w - 1 /\ in_str <= x /\ Before(x)
    BY <1>1, <1>2 DEF Reading
  <1>4. in_str \in 1 .. w - 1
    <2>1. CASE in_str = x
      BY <2>1, <1>3
    <2>2. CASE in_str # x
      <3>1. in_str \in in_str .. x - 1
        BY <1>1, <1>2, <1>3, <2>2
      <3>2. in_str \in DOMAIN memory
        BY <1>3, <3>1 DEF Before
      <3> QED
        BY <1>2, <3>2
    <2> QED
      BY <2>1, <2>2
  <1> DEFINE P(n) == memory[in_str + n] = 0 /\ \A i \in 0 .. n - 1 : memory[in_str + i] # 0
             d == x - in_str
  <1>5. d \in 0 .. w /\ in_str + d = x
    BY <1>1, <1>2, <1>3
  <1>6. P(d)
    <2>1. SUFFICES ASSUME NEW i \in 0 .. d - 1 PROVE memory[in_str + i] # 0
      BY <1>5
    <2>2. in_str + i \in in_str .. x - 1
      BY <1>2, <1>3, <1>5
    <2> QED
      BY <1>3, <2>2 DEF Before
  <1>7. ASSUME NEW n \in 0 .. w, P(n) PROVE n = d
    <2>1. CASE n < d
      <3>1. n \in 0 .. d - 1
        BY <1>5, <2>1
      <3> QED
        BY <1>6, <1>7, <3>1
    <2>2. CASE d < n
      <3>1. d \in 0 .. n - 1
        BY <1>5, <2>2
      <3> QED
        BY <1>6, <1>7, <3>1
    <2> QED
      BY <1>5, <2>1, <2>2
  <1>8. Length(in_str) = CHOOSE n \in 0 .. w : P(n)
    BY DEF Length, w
  <1>9. (CHOOSE n \in 0 .. w : P(n)) = d
    <2> HIDE DEF P, d
    <2> QED
      BY <1>5, <1>6, <1>7
  <1>10. x \in in_str .. w - 1
    BY <1>3, <1>4
  <1> QED
    BY <1>4, <1>8, <1>9, <1>10 DEF w, d

\* The end of an instruction is where the next one begins.
LEMMA Units ==
  /\ vm_ip = Begin => Opcode = OP_MOV /\ vm_ip[2] = OP_REG13 /\ vm_ip[3] = OP_REG /\ vm_ip[4] = OP_REG12
  /\ vm_ip = Load => Opcode = OP_MOVZX /\ vm_ip[2] = OP_REG14 /\ vm_ip[3] = OP_REG13 /\ vm_ip[4] = 1
  /\ vm_ip = Inc => Opcode = OP_INC /\ vm_ip[2] = OP_REG13
  /\ vm_ip = Cmp => Opcode = OP_CMP /\ vm_ip[2] = OP_REG14 /\ vm_ip[3] = OP_CONST
                    /\ vm_ip[4] = 0 /\ vm_ip[5] = 0 /\ vm_ip[6] = 0 /\ vm_ip[7] = 0
  /\ vm_ip = Sub => Opcode = OP_SUB /\ vm_ip[2] = OP_REG13 /\ vm_ip[3] = OP_REG /\ vm_ip[4] = OP_REG12
  /\ vm_ip = Dec => Opcode = OP_DEC /\ vm_ip[2] = OP_REG13
  /\ vm_ip = Exit => Opcode = OP_VM_EXIT
  BY DEF Begin, Load, Inc, Cmp, Sub, Dec, Exit, Opcode

\* VM_Generic_Process without its abbreviations.
LEMMA GenericParts ==
  ASSUME VM_Generic_Process, NEW r, vm_ip[2] = r
  PROVE  /\ vm_reg' = [vm_reg EXCEPT ![r] = Result(Opcode, vm_reg[r], Value(3))]
         /\ Opcode = OP_CMP => vm_cmpbit' = (Result(Opcode, vm_reg[r], Value(3)) = Value(3))
         /\ Taken(End(3))
  BY Zenon DEF VM_Generic_Process

LEMMA IncDecParts ==
  ASSUME NEW r, vm_ip[2] = r
  PROVE  /\ VM_INC_Process => vm_reg' = [vm_reg EXCEPT ![r] = (vm_reg[r] + 1) % Word] /\ Taken(2)
         /\ VM_DEC_Process => vm_reg' = [vm_reg EXCEPT ![r] = (vm_reg[r] - 1) % Word] /\ Taken(2)
  BY Zenon DEF VM_INC_Process, VM_DEC_Process

\* The instructions of vm_strlen, at the place where it runs them.
LEMMA Instructions ==
  ASSUME StackBounded
  PROVE  /\ vm_ip = Begin /\ VM_Generic_Process =>
              vm_ip' = Exit /\ vm_reg' = [vm_reg EXCEPT ![OP_REG13] = vm_reg[OP_REG12]]
         /\ vm_ip = Load /\ VM_MOVZX_Process =>
              /\ vm_ip' = Inc /\ vm_reg[OP_REG13] + 0 \in DOMAIN memory
              /\ vm_reg' = [vm_reg EXCEPT ![OP_REG14] = Loaded(0, vm_reg[OP_REG13], 1)]
         /\ vm_ip = Inc /\ VM_INC_Process =>
              vm_ip' = Cmp /\ vm_reg' = [vm_reg EXCEPT ![OP_REG13] = (vm_reg[OP_REG13] + 1) % Word]
         /\ vm_ip = Cmp /\ VM_Generic_Process =>
              /\ vm_ip' = Exit /\ vm_reg' = vm_reg
              /\ vm_cmpbit' = (vm_reg[OP_REG14] = 0)
         /\ vm_ip = Sub /\ VM_Generic_Process =>
              vm_ip' = Dec /\ vm_reg' = [vm_reg EXCEPT ![OP_REG13] = (vm_reg[OP_REG13] - vm_reg[OP_REG12]) % Word]
         /\ vm_ip = Dec /\ VM_DEC_Process =>
              vm_ip' = Exit /\ vm_reg' = [vm_reg EXCEPT ![OP_REG13] = (vm_reg[OP_REG13] - 1) % Word]
  <1> USE DEF OP_MOV, OP_MOVZX, OP_SHR, OP_SHL, OP_ADD, OP_SUB, OP_XOR, OP_AND, OP_OR,
              OP_VM_EXIT, OP_PUSH, OP_POP, OP_INC, OP_DEC, OP_CMP,
              OP_CONST, OP_REG, OP_OFFSET, OP_REG12, OP_REG13, OP_REG14, Registers
  <1>0. vm_reg = [r \in 0 .. 15 |-> vm_reg[r]]
    BY DEF StackBounded
  <1>1. ASSUME vm_ip = Begin, VM_Generic_Process
        PROVE  vm_ip' = Exit /\ vm_reg' = [vm_reg EXCEPT ![OP_REG13] = vm_reg[OP_REG12]]
    <2>1. Opcode = OP_MOV /\ vm_ip[2] = OP_REG13 /\ vm_ip[3] = OP_REG /\ vm_ip[4] = OP_REG12
      BY <1>1, Units
    <2>2. Value(3) = vm_reg[OP_REG12] /\ End(3) = 4
      BY <2>1 DEF Value, End
    <2>3. Result(Opcode, vm_reg[OP_REG13], Value(3)) = Value(3)
      BY <2>1 DEF Result
    <2> QED
      BY <1>1, <2>1, <2>2, <2>3, TakenCode, GenericParts
  <1>2. ASSUME vm_ip = Load, VM_MOVZX_Process
        PROVE  /\ vm_ip' = Inc /\ vm_reg[OP_REG13] + 0 \in DOMAIN memory
               /\ vm_reg' = [vm_reg EXCEPT ![OP_REG14] = Loaded(0, vm_reg[OP_REG13], 1)]
    <2>1. vm_ip[2] = OP_REG14 /\ vm_ip[3] = OP_REG13 /\ vm_ip[4] = 1
      BY <1>2, Units
    <2>2. vm_reg[OP_REG13] + 0 \in DOMAIN memory
      BY <1>2, <2>1 DEF VM_MOVZX_Process, Mapped
    <2> QED
      BY <1>2, <2>1, <2>2, TakenCode DEF VM_MOVZX_Process
  <1>3. ASSUME vm_ip = Inc, VM_INC_Process
        PROVE  vm_ip' = Cmp /\ vm_reg' = [vm_reg EXCEPT ![OP_REG13] = (vm_reg[OP_REG13] + 1) % Word]
    BY <1>3, Units, TakenCode, IncDecParts
  <1>4. ASSUME vm_ip = Cmp, VM_Generic_Process
        PROVE  vm_ip' = Exit /\ vm_reg' = vm_reg /\ vm_cmpbit' = (vm_reg[OP_REG14] = 0)
    <2>1. /\ Opcode = OP_CMP /\ vm_ip[2] = OP_REG14 /\ vm_ip[3] = OP_CONST
          /\ vm_ip[4] = 0 /\ vm_ip[5] = 0 /\ vm_ip[6] = 0 /\ vm_ip[7] = 0
      BY <1>4, Units
    <2>2. BigEndian(4) = 0
      BY <2>1, VmAssumption DEF VmAssumption, BigEndian
    <2>3. Value(3) = 0 /\ End(3) = 7
      BY <2>1, <2>2 DEF Value, End
    <2>4. Result(Opcode, vm_reg[OP_REG14], Value(3)) = vm_reg[OP_REG14]
      BY <2>1 DEF Result
    <2>5. vm_reg' = [vm_reg EXCEPT ![OP_REG14] = vm_reg[OP_REG14]]
      BY <1>4, <2>1, <2>4, GenericParts
    <2>6. vm_cmpbit' = (vm_reg[OP_REG14] = 0)
      BY <1>4, <2>1, <2>3, <2>4, GenericParts
    <2>7. vm_ip' = Exit
      BY <1>4, <2>3, TakenCode, GenericParts
    <2> QED
      BY <1>0, <2>5, <2>6, <2>7
  <1>5. ASSUME vm_ip = Sub, VM_Generic_Process
        PROVE  /\ vm_ip' = Dec
               /\ vm_reg' = [vm_reg EXCEPT ![OP_REG13] = (vm_reg[OP_REG13] - vm_reg[OP_REG12]) % Word]
    <2>1. Opcode = OP_SUB /\ vm_ip[2] = OP_REG13 /\ vm_ip[3] = OP_REG /\ vm_ip[4] = OP_REG12
      BY <1>5, Units
    <2>2. Value(3) = vm_reg[OP_REG12] /\ End(3) = 4
      BY <2>1 DEF Value, End
    <2>3. Result(Opcode, vm_reg[OP_REG13], Value(3)) = (vm_reg[OP_REG13] - vm_reg[OP_REG12]) % Word
      BY <2>1, <2>2 DEF Result
    <2> QED
      BY <1>5, <2>1, <2>2, <2>3, TakenCode, GenericParts
  <1>6. ASSUME vm_ip = Dec, VM_DEC_Process
        PROVE  vm_ip' = Exit /\ vm_reg' = [vm_reg EXCEPT ![OP_REG13] = (vm_reg[OP_REG13] - 1) % Word]
    BY <1>6, Units, TakenCode, IncDecParts
  <1> QED
    BY <1>1, <1>2, <1>3, <1>4, <1>5, <1>6

\* What the host and the parser keep of vm_strlen's variables.
Kept == memory' = memory /\ in_str' = in_str /\ host' = host

\* A step of the code between two labels, at each place it can be.
LEMMA InBegin ==
  ASSUME StackBounded, StrlenInv, ~Stopped, host = "begin", VM_PARSER
  PROVE  StrlenInv'
  <1> USE DEF InBlock, Behind
  <1>1. /\ Kept /\ status = "parser" /\ memory \in Memories /\ in_str \in 0 .. Word - 1
        /\ vm_reg[OP_REG12] = in_str
    BY Decode DEF Kept, hostVars, StrlenInv
  <1>2. vm_reg = [r \in Registers |-> vm_reg[r]]
    BY DEF StackBounded
  <1>3. ASSUME Stopped' PROVE StrlenInv'
    BY <1>1, <1>3 DEF Kept, StrlenInv
  <1>4. CASE vm_ip = Begin
    <2>1. CASE VM_Generic_Process
      <3>1. vm_ip' = Exit /\ vm_reg' = [vm_reg EXCEPT ![OP_REG13] = vm_reg[OP_REG12]]
        BY <1>4, <2>1, Instructions
      <3>2. vm_reg'[OP_REG13] = in_str /\ vm_reg'[OP_REG12] = in_str
        BY <1>1, <1>2, <3>1 DEF OP_REG12, OP_REG13, Registers
      <3>3. Scanning'
        BY <1>1, <3>2, WordsAreNat DEF Kept, Scanning, Address, Before
      <3>4. status' = "parser"
        BY <1>1, <2>1 DEF VM_Generic_Process
      <3> QED
        BY <1>1, <3>1, <3>2, <3>3, <3>4 DEF Kept, StrlenInv, AtBegin
    <2> QED
      BY <1>3, <1>4, <2>1, Decode, Units
  <1>5. CASE vm_ip = Exit /\ Scanning
    <2>1. CASE VM_EXIT
      <3>1. status' = "host" /\ vm_reg' = vm_reg
        BY <2>1 DEF VM_EXIT
      <3>2. Scanning'
        BY <1>1, <1>5, <3>1 DEF Kept, Scanning, Address, Before
      <3> QED
        BY <1>1, <3>1, <3>2 DEF Kept, StrlenInv, AtBegin
    <2> QED
      BY <1>3, <1>5, <2>1, Decode, Units
  <1> QED
    BY <1>1, <1>4, <1>5 DEF StrlenInv, AtBegin, AtLoop, AtEnd

LEMMA InLoop ==
  ASSUME StackBounded, StrlenInv, ~Stopped, host = "strlen_loop", VM_PARSER
  PROVE  StrlenInv'
  <1> USE DEF InBlock, Behind
  <1> DEFINE w == Word
  <1>0. w \in Nat \ {0, 1}
    BY WordsAreNat
  <1>1. /\ Kept /\ status = "parser" /\ memory \in Memories /\ in_str \in 0 .. w - 1
        /\ vm_reg[OP_REG12] = in_str
    BY Decode DEF Kept, hostVars, StrlenInv
  <1>2. vm_reg = [r \in Registers |-> vm_reg[r]]
    BY DEF StackBounded
  <1>3. ASSUME Stopped' PROVE StrlenInv'
    BY <1>1, <1>3 DEF Kept, StrlenInv
  <1>4. \A a \in DOMAIN memory : a \in 1 .. w - 1 /\ memory[a] \in 0 .. Byte - 1
    BY <1>1, VmAssumption DEF VmAssumption
  <1>5. CASE vm_ip = Load /\ Scanning
    <2>1. CASE VM_MOVZX_Process
      <3>1. /\ vm_ip' = Inc /\ vm_reg[OP_REG13] + 0 \in DOMAIN memory
            /\ vm_reg' = [vm_reg EXCEPT ![OP_REG14] = Loaded(0, vm_reg[OP_REG13], 1)]
        BY <1>5, <2>1, Instructions
      <3>2. Address \in 0 .. w - 1
        BY <1>5 DEF Scanning
      <3>3. Address \in DOMAIN memory
        BY <1>0, <3>1, <3>2 DEF Address
      <3>4. Reading(Address)
        BY <1>0, <1>4, <1>5, <3>3 DEF Scanning, Reading
      <3>5. Loaded(0, Address, 1) = memory[Address]
        BY <1>0, <1>4, <3>2, <3>3, LoadedOne
      <3>6. Address' = Address /\ vm_reg'[OP_REG14] = memory[Address] /\ vm_reg'[OP_REG12] = in_str
        BY <1>1, <1>2, <3>1, <3>5 DEF Address, OP_REG12, OP_REG13, OP_REG14, Registers
      <3>7. HasByte'
        BY <1>1, <3>4, <3>6 DEF Kept, HasByte, Reading, Before
      <3>8. status' = "parser"
        BY <1>1, <2>1 DEF VM_MOVZX_Process
      <3> QED
        BY <1>1, <3>1, <3>6, <3>7, <3>8 DEF Kept, StrlenInv, AtLoop
    <2> QED
      BY <1>3, <1>5, <2>1, Decode, Units
  <1>6. CASE vm_ip = Inc /\ HasByte
    <2>1. CASE VM_INC_Process
      <3>1. vm_ip' = Cmp /\ vm_reg' = [vm_reg EXCEPT ![OP_REG13] = (vm_reg[OP_REG13] + 1) % Word]
        BY <1>6, <2>1, Instructions
      <3>2. Address \in 1 .. w - 1 /\ Reading(Address) /\ vm_reg[OP_REG14] = memory[Address]
        BY <1>4, <1>6 DEF HasByte, Reading
      <3>3. /\ Address' = (Address + 1) % w
            /\ vm_reg'[OP_REG14] = memory[Address] /\ vm_reg'[OP_REG12] = in_str
        BY <1>1, <1>2, <3>1, <3>2 DEF Address, OP_REG12, OP_REG13, OP_REG14, Registers
      <3>4. Address' \in 0 .. w - 1 /\ LastRead' = Address
        <4> HIDE DEF w
        <4>1. CASE Address + 1 < w
          <5>1. Address + 1 >= 0 /\ Address + 1 \in Int
            BY <3>2, <1>0
          <5>2. Address' = Address + 1
            BY <3>3, <4>1, <5>1, WordsAreNat DEF w
          <5>3. (Address' - 1) % w = Address
            <6>1. Address' - 1 = Address /\ Address \in Int /\ Address >= 0 /\ Address < w
              BY <5>2, <3>2, <1>0
            <6> QED
              BY <6>1, WordsAreNat DEF w
          <5> QED
            BY <1>0, <3>2, <4>1, <5>2, <5>3 DEF LastRead, w
        <4>2. CASE Address + 1 = w
          <5>1. Address' = 0
            BY <3>3, <4>2, WordsAreNat DEF w
          <5>2. (-1) % w = w - 1
            BY <1>0, WordsAreNat DEF w
          <5>3. LastRead' = (0 - 1) % w
            BY <5>1 DEF LastRead, w
          <5>4. 0 - 1 = -1
            OBVIOUS
          <5>5. w - 1 = Address
            BY <1>0, <3>2, <4>2
          <5> QED
            BY <1>0, <5>1, <5>2, <5>3, <5>4, <5>5
        <4> QED
          BY <1>0, <3>2, <4>1, <4>2
      <3>5. HasMoved' /\ vm_reg'[OP_REG14] = memory'[LastRead']
        BY <1>1, <3>2, <3>3, <3>4 DEF Kept, HasMoved, Reading, Before
      <3>6. status' = "parser"
        BY <1>1, <2>1 DEF VM_INC_Process
      <3> QED
        BY <1>1, <3>1, <3>3, <3>5, <3>6 DEF Kept, StrlenInv, AtLoop
    <2> QED
      BY <1>3, <1>6, <2>1, Decode, Units
  <1>7. CASE vm_ip = Cmp /\ HasMoved /\ vm_reg[OP_REG14] = memory[LastRead]
    <2>1. CASE VM_Generic_Process
      <3>1. vm_ip' = Exit /\ vm_reg' = vm_reg /\ vm_cmpbit' = (vm_reg[OP_REG14] = 0)
        BY <1>7, <2>1, Instructions
      <3>2. Address' = Address /\ LastRead' = LastRead
        BY <3>1 DEF Address, LastRead
      <3>3. HasCompared'
        BY <1>1, <1>7, <3>1, <3>2 DEF Kept, HasCompared, HasMoved, Reading, Before
      <3>4. status' = "parser"
        BY <1>1, <2>1 DEF VM_Generic_Process
      <3> QED
        BY <1>1, <3>1, <3>3, <3>4 DEF Kept, StrlenInv, AtLoop
    <2> QED
      BY <1>3, <1>7, <2>1, Decode, Units
  <1>8. CASE vm_ip = Exit /\ HasCompared
    <2>1. CASE VM_EXIT
      <3>1. status' = "host" /\ vm_reg' = vm_reg /\ vm_cmpbit' = vm_cmpbit
        BY <2>1 DEF VM_EXIT
      <3>2. Address' = Address /\ LastRead' = LastRead
        BY <3>1 DEF Address, LastRead
      <3>3. HasCompared'
        BY <1>1, <1>8, <3>1, <3>2 DEF Kept, HasCompared, HasMoved, Reading, Before
      <3> QED
        BY <1>1, <3>1, <3>3 DEF Kept, StrlenInv, AtLoop
    <2> QED
      BY <1>3, <1>8, <2>1, Decode, Units
  <1> QED
    BY <1>1, <1>5, <1>6, <1>7, <1>8 DEF StrlenInv, AtBegin, AtLoop, AtEnd

LEMMA InEnd ==
  ASSUME StackBounded, StrlenInv, ~Stopped, host = "end", VM_PARSER
  PROVE  StrlenInv'
  <1> USE DEF InBlock, Behind
  <1> DEFINE w == Word
  <1>0. w \in Nat \ {0, 1}
    BY WordsAreNat
  <1>1. /\ Kept /\ status = "parser" /\ memory \in Memories /\ in_str \in 0 .. w - 1
        /\ vm_reg[OP_REG12] = in_str
    BY Decode DEF Kept, hostVars, StrlenInv
  <1>2. vm_reg = [r \in Registers |-> vm_reg[r]]
    BY DEF StackBounded
  <1>3. ASSUME Stopped' PROVE StrlenInv'
    BY <1>1, <1>3 DEF Kept, StrlenInv
  <1>4. Length(in_str)' = Length(in_str)
    BY <1>1 DEF Kept, Length
  <1>5. CASE vm_ip = Sub /\ HasMoved /\ memory[LastRead] = 0
    <2>1. CASE VM_Generic_Process
      <3>1. /\ vm_ip' = Dec
            /\ vm_reg' = [vm_reg EXCEPT ![OP_REG13] = (vm_reg[OP_REG13] - vm_reg[OP_REG12]) % Word]
        BY <1>5, <2>1, Instructions
      <3>2. Address' = (Address - in_str) % w /\ vm_reg'[OP_REG12] = in_str
        BY <1>1, <1>2, <3>1 DEF Address, OP_REG12, OP_REG13, Registers
      <3>3. /\ in_str \in 1 .. w - 1 /\ LastRead \in in_str .. w - 1
            /\ Length(in_str) = LastRead - in_str
        BY <1>1, <1>5, LengthIs DEF HasMoved
      <3>4. Address \in 0 .. w - 1 /\ LastRead = (Address - 1) % w
        BY <1>5 DEF HasMoved, LastRead
      <3>5. Address' - 1 = LastRead - in_str
        <4> HIDE DEF w
        <4>1. CASE Address # 0
          <5>1. Address - 1 \in Int /\ Address - 1 >= 0 /\ Address - 1 < w
            BY <1>0, <3>4, <4>1
          <5>2. LastRead = Address - 1
            BY <3>4, <5>1, WordsAreNat DEF w
          <5>3. Address - in_str \in Int /\ Address - in_str >= 0 /\ Address - in_str < w
            BY <1>0, <3>3, <3>4, <5>2
          <5>4. Address' = Address - in_str
            BY <3>2, <5>3, WordsAreNat DEF w
          <5> QED
            BY <1>0, <3>3, <3>4, <5>2, <5>4
        <4>2. CASE Address = 0
          <5>1. -1 \in Int /\ -1 < 0 /\ -1 >= -w
            BY <1>0
          <5>2. Address - 1 = -1
            BY <4>2
          <5>3. LastRead = -1 + w
            BY <3>4, <5>1, <5>2, WordsAreNat DEF w
          <5>4. /\ Address - in_str \in Int /\ Address - in_str < 0 /\ Address - in_str >= -w
                /\ Address - in_str = -in_str
            BY <1>0, <3>3, <4>2
          <5>5. Address' = (Address - in_str) + w
            BY <3>2, <5>4, WordsAreNat DEF w
          <5> QED
            BY <1>0, <3>3, <5>3, <5>4, <5>5
        <4> QED
          BY <4>1, <4>2
      <3>6. Address' - 1 = Length(in_str) /\ Length(in_str) \in 0 .. w - 1
        BY <1>0, <3>3, <3>5
      <3>7. status' = "parser"
        BY <1>1, <2>1 DEF VM_Generic_Process
      <3> QED
        BY <1>1, <1>4, <3>1, <3>2, <3>6, <3>7 DEF Kept, StrlenInv, AtEnd
    <2> QED
      BY <1>3, <1>5, <2>1, Decode, Units
  <1>6. CASE vm_ip = Dec /\ Address - 1 = Length(in_str) /\ Length(in_str) \in 0 .. w - 1
    <2>1. CASE VM_DEC_Process
      <3>1. vm_ip' = Exit /\ vm_reg' = [vm_reg EXCEPT ![OP_REG13] = (vm_reg[OP_REG13] - 1) % Word]
        BY <1>6, <2>1, Instructions
      <3>2. Address' = (Address - 1) % w /\ vm_reg'[OP_REG12] = in_str
        BY <1>1, <1>2, <3>1 DEF Address, OP_REG12, OP_REG13, Registers
      <3>3. Length(in_str) % w = Length(in_str)
        <4> HIDE DEF w
        <4>1. Length(in_str) \in Int /\ Length(in_str) >= 0 /\ Length(in_str) < w
          BY <1>0, <1>6
        <4> QED
          BY <4>1, WordsAreNat DEF w
      <3>4. Address' = Length(in_str)'
        BY <1>4, <1>6, <3>2, <3>3
      <3>5. status' = "parser"
        BY <1>1, <2>1 DEF VM_DEC_Process
      <3> QED
        BY <1>1, <3>1, <3>2, <3>4, <3>5 DEF Kept, StrlenInv, AtEnd
    <2> QED
      BY <1>3, <1>6, <2>1, Decode, Units
  <1>7. CASE vm_ip = Exit /\ Address = Length(in_str)
    <2>1. CASE VM_EXIT
      <3>1. status' = "host" /\ vm_reg' = vm_reg
        BY <2>1 DEF VM_EXIT
      <3>2. Address' = Length(in_str)'
        BY <1>4, <1>7, <3>1 DEF Address
      <3> QED
        BY <1>1, <3>1, <3>2 DEF Kept, StrlenInv, AtEnd
    <2> QED
      BY <1>3, <1>7, <2>1, Decode, Units
  <1> QED
    BY <1>1, <1>5, <1>6, <1>7 DEF StrlenInv, AtBegin, AtLoop, AtEnd

\* The host's own steps between the blocks.
LEMMA BetweenBlocks ==
  ASSUME StackBounded, StrlenInv,
         RunBlock \/ VmStrlen \/ StrlenLoop \/ StrlenEnd \/ StrlenReturn
  PROVE  StrlenInv'
  <1> USE DEF InBlock, Behind
  <1>1. status = "host" /\ memory' = memory /\ memory \in Memories /\ in_str \in 0 .. Word - 1
    BY DEF RunBlock, VmStrlen, StrlenLoop, StrlenEnd, StrlenReturn, VM_ENTER, StrlenInv
  <1>2. vm_reg = [r \in Registers |-> vm_reg[r]]
    BY DEF StackBounded
  <1>3. CASE RunBlock
    BY <1>1, <1>3 DEF RunBlock, VM_ENTER, StrlenInv
  <1>4. CASE VmStrlen
    <2>1. /\ in_str' \in Strings /\ vm_reg' = [vm_reg EXCEPT ![OP_REG12] = in_str']
          /\ status' = "parser" /\ host' = "begin" /\ vm_ip' = Begin
      BY <1>4 DEF VmStrlen, VM_ENTER, Begin
    <2>2. vm_reg'[OP_REG12] = in_str'
      BY <1>2, <2>1 DEF OP_REG12, Registers
    <2>3. in_str' \in 0 .. Word - 1
      BY <2>1, VmAssumption DEF VmAssumption
    <2> QED
      BY <1>1, <2>1, <2>2, <2>3 DEF StrlenInv, AtBegin
  <1>5. CASE StrlenLoop
    <2>1. /\ in_str' = in_str /\ vm_reg' = vm_reg
          /\ status' = "parser" /\ host' = "strlen_loop" /\ vm_ip' = Load
      BY <1>5 DEF StrlenLoop, VM_ENTER, Load
    <2>2. vm_reg[OP_REG12] = in_str
      BY <1>1, <1>5 DEF StrlenLoop, StrlenInv, Stopped
    <2>3. Scanning
      <3>1. CASE host = "begin"
        BY <1>1, <3>1 DEF StrlenInv, Stopped, AtBegin, AtLoop, AtEnd
      <3>2. CASE host = "strlen_loop" /\ ~vm_cmpbit
        <4> DEFINE w == Word
        <4>1. HasCompared
          BY <1>1, <3>2 DEF StrlenInv, Stopped, AtBegin, AtLoop, AtEnd
        <4>2. Address \in 0 .. w - 1 /\ Reading(LastRead) /\ memory[LastRead] # 0
          BY <3>2, <4>1 DEF HasCompared, HasMoved
        <4>3. CASE Address # 0
          <5> HIDE DEF w
          <5>0. w \in Nat \ {0, 1} /\ in_str \in Int
            BY <1>1, WordsAreNat DEF w
          <5>1. Address - 1 \in Int /\ Address - 1 >= 0 /\ Address - 1 < w
            BY <4>2, <4>3, <5>0
          <5>2. LastRead = Address - 1
            BY <5>1, WordsAreNat DEF w, LastRead
          <5>3. in_str <= Address - 1 /\ Address - 1 \in DOMAIN memory /\ memory[Address - 1] # 0
                /\ \A a \in in_str .. Address - 1 - 1 : a \in DOMAIN memory /\ memory[a] # 0
            BY <4>2, <5>2 DEF Reading, Before
          <5>4. Before(Address)
            <6>1. SUFFICES ASSUME NEW a \in in_str .. Address - 1
                           PROVE  a \in DOMAIN memory /\ memory[a] # 0
              BY DEF Before
            <6>2. a = Address - 1 \/ a \in in_str .. Address - 1 - 1
              BY <4>2, <5>0
            <6> QED
              BY <5>3, <6>2
          <5>5. in_str <= Address
            BY <4>2, <5>0, <5>3
          <5> QED
            BY <4>2, <5>4, <5>5 DEF Scanning, w
        <4> QED
          BY <4>2, <4>3 DEF Scanning
      <3> QED
        BY <1>5, <3>1, <3>2 DEF StrlenLoop
    <2>4. Scanning'
      BY <1>1, <2>1, <2>3 DEF Scanning, Address, Before
    <2> QED
      BY <1>1, <2>1, <2>2, <2>4 DEF StrlenInv, AtLoop
  <1>6. CASE StrlenEnd
    <2>1. /\ in_str' = in_str /\ vm_reg' = vm_reg
          /\ status' = "parser" /\ host' = "end" /\ vm_ip' = Sub
      BY <1>6 DEF StrlenEnd, VM_ENTER, Sub
    <2>2. host = "strlen_loop" /\ vm_cmpbit
      BY <1>6 DEF StrlenEnd
    <2>3. vm_reg[OP_REG12] = in_str /\ HasCompared
      BY <1>1, <2>2 DEF StrlenInv, Stopped, AtBegin, AtLoop, AtEnd
    <2>4. HasMoved' /\ memory'[LastRead'] = 0
      BY <1>1, <2>1, <2>2, <2>3 DEF HasCompared, HasMoved, Reading, Before, LastRead, Address
    <2> QED
      BY <1>1, <2>1, <2>3, <2>4 DEF StrlenInv, AtEnd
  <1>7. CASE StrlenReturn
    BY <1>1, <1>7 DEF StrlenReturn, StrlenInv
  <1> QED
    BY <1>3, <1>4, <1>5, <1>6, <1>7

LEMMA StrlenStep ==
  ASSUME StackBounded, StrlenInv, [Next]_vars
  PROVE  StrlenInv'
  <1>1. CASE VM_PARSER
    <2>1. ~Stopped /\ UNCHANGED hostVars /\ status = "parser"
      BY <1>1, Decode DEF Stopped
    <2>2. CASE host = "idle"
      BY <2>1, <2>2 DEF hostVars, StrlenInv
    <2> QED
      BY <1>1, <2>1, <2>2, InBegin, InLoop, InEnd
         DEF StrlenInv, AtBegin, AtLoop, AtEnd, InBlock, Behind
  <1>2. CASE UNCHANGED vars
    <2>1. Length(in_str)' = Length(in_str)
      BY <1>2 DEF vars, Length
    <2> QED
      BY <1>2, <2>1
         DEF vars, StrlenInv, Stopped, AtBegin, AtLoop, AtEnd, InBlock, Behind, Scanning, HasByte,
             HasMoved, HasCompared, Reading, Before, LastRead, Address
  <1> QED
    BY <1>1, <1>2, BetweenBlocks DEF Next

LEMMA StrlenInit ==
  Init => StrlenInv
  BY WordsAreNat DEF Init, StrlenInv

\* vm_strlen counts the bytes before the first NUL, for every memory, every string and
\* every code that ran before it (lines 607-633).
THEOREM StrlenCorrect == Spec => []StrlenRight
  <1>1. StrlenInv => StrlenRight
    BY DEF StrlenInv, StrlenRight, Stopped, AtBegin, AtLoop, AtEnd, InBlock, Behind, Address
  <1> QED
    BY <1>1, StrlenInit, StrlenStep, StackBoundedThm, PTL DEF Spec

-----------------------------------------------------------------------------
(* The lookup table of bin200.                                             *)
Entries == [pos : DOMAIN buffer, byte : 0 .. WordBytes - 1, bit : 0 .. ByteBits - 1]
EntryBit(e) == Bit!GetBit(buffer[e.pos], e.byte, e.bit)
BitValues == {0, 1} \cup {EntryBit(e) : e \in Entries}

\* An entry shows its bit of the flag, unless a byte was given up, and what is decoded
\* is what the entries show.
TableInv ==
  /\ phase \in {"fill", "loop", "decode", "printed"}
  /\ cFlag \in Seq({0, 1}) /\ lookup_table \in Seq(Entries) /\ key \in Seq(BitValues)
  /\ phase = "loop" =>
       /\ pos \in DOMAIN buffer /\ rbyte \in 0 .. WordBytes - 1 /\ Len(lookup_table) < Len(cFlag)
       /\ ~ unstuck => tested = rbyte
  /\ phase = "printed" => Len(key) = Len(lookup_table)
  /\ phase \in {"decode", "printed"} => Len(lookup_table) = Len(cFlag)
  /\ Len(lookup_table) <= Len(cFlag) /\ Len(key) <= Len(lookup_table)
  /\ ~ unstuck => \A j \in 1 .. Len(lookup_table) : EntryBit(lookup_table[j]) = cFlag[j]
  /\ \A j \in 1 .. Len(key) : key[j] = EntryBit(lookup_table[j])

LEMMA TableInit ==
  ASSUME Flags \subseteq Seq({0, 1}), Bit!LookupInit
  PROVE  TableInv
<1>1. cFlag \in Seq({0, 1}) /\ Len(cFlag) \in Nat
  BY LenProperties DEF Bit!LookupInit
<1> QED BY <1>1 DEF TableInv, Bit!LookupInit

\* The entries and what they show depend on the buffer only, which stays.
LEMMA SameBuffer ==
  ASSUME buffer' = buffer
  PROVE  /\ Entries' = Entries /\ BitValues' = BitValues
         /\ \A e : EntryBit(e)' = EntryBit(e)
  BY DEF Entries, BitValues, EntryBit

LEMMA FillStep == ASSUME TableInv, Bit!FillEntry PROVE TableInv'
<1>1. /\ UNCHANGED <<buffer, cFlag, lookup_table, unstuck, key>> /\ phase = "fill" /\ phase' = "loop"
      /\ pos' \in DOMAIN buffer /\ rbyte' \in 0 .. WordBytes - 1 /\ tested' = rbyte'
      /\ Len(lookup_table) < Len(cFlag)
  BY DEF Bit!FillEntry
<1> QED BY <1>1, SameBuffer DEF TableInv

\* The entry is appended only with a bit of its byte that is the flag's.
LEMMA TryStep == ASSUME TableInv, Bit!TryBit PROVE TableInv'
<1>1. UNCHANGED <<buffer, cFlag, pos, rbyte, key>> /\ phase = "loop"
  BY DEF Bit!TryBit
<1>2. PICK randbit \in 0 .. ByteBits - 1 :
        \/ /\ Bit!GetBit(buffer[pos], tested, randbit) = cFlag[Len(lookup_table) + 1]
           /\ lookup_table' = Append(lookup_table, [pos |-> pos, byte |-> rbyte, bit |-> randbit])
           /\ phase' = "fill" /\ unstuck' = unstuck /\ tested' = tested
        \/ /\ UNCHANGED <<lookup_table, phase>>
           /\ unstuck' = TRUE \/ (tested' = tested /\ unstuck' = unstuck)
  BY DEF Bit!TryBit
<1>3. CASE lookup_table' = lookup_table
  <2>1. phase' = phase /\ (~ unstuck' => ~ unstuck /\ tested' = tested)
    <3>1. Append(lookup_table, [pos |-> pos, byte |-> rbyte, bit |-> randbit]) # lookup_table
      <4>1. [pos |-> pos, byte |-> rbyte, bit |-> randbit] \in Entries
        BY <1>1 DEF TableInv, Entries
      <4> QED BY <4>1, AppendProperties, LenProperties DEF TableInv
    <3> QED BY <1>2, <1>3, <3>1
  <2> QED BY <1>1, <1>3, <2>1, SameBuffer DEF TableInv
<1>4. CASE lookup_table' # lookup_table
  <2> DEFINE e == [pos |-> pos, byte |-> rbyte, bit |-> randbit]
             n == Len(lookup_table)
  <2>1. e \in Entries
    BY <1>1 DEF TableInv, Entries
  <2>2. /\ lookup_table' = Append(lookup_table, e) /\ phase' = "fill" /\ unstuck' = unstuck
        /\ tested' = tested
        /\ Bit!GetBit(buffer[pos], tested, randbit) = cFlag[n + 1]
    BY <1>2, <1>4
  <2>3. ~ unstuck => EntryBit(e) = cFlag[n + 1]
    BY <1>1, <2>2 DEF EntryBit, TableInv
  <2>4. lookup_table \in Seq(Entries) /\ n \in Nat /\ Len(cFlag) \in Nat /\ Len(key) \in Nat
        /\ n < Len(cFlag) /\ Len(key) <= n
    BY <1>1, LenProperties DEF TableInv
  <2> HIDE DEF e
  <2>5. /\ lookup_table' \in Seq(Entries) /\ Len(lookup_table') = n + 1
        /\ \A j \in 1 .. n : lookup_table'[j] = lookup_table[j]
        /\ lookup_table'[n + 1] = e
    BY <2>1, <2>2, <2>4, AppendProperties
  <2> HIDE DEF n
  <2>6. \A j \in 1 .. n + 1 : j \in 1 .. n \/ j = n + 1
    BY <2>4
  <2>7. ~ unstuck => \A j \in 1 .. n + 1 : EntryBit(lookup_table'[j]) = cFlag[j]
    <3>1. ~ unstuck => \A j \in 1 .. n : EntryBit(lookup_table[j]) = cFlag[j]
      BY DEF TableInv, n
    <3> QED BY <2>3, <2>5, <2>6, <3>1
  <2>8. \A j \in 1 .. Len(key) : key[j] = EntryBit(lookup_table'[j])
    <3>1. \A j \in 1 .. Len(key) : j \in 1 .. n
      BY <2>4
    <3> QED BY <2>5, <3>1 DEF TableInv
  <2>9. key \in Seq(BitValues) /\ cFlag \in Seq({0, 1})
    BY DEF TableInv
  <2> QED BY <1>1, <2>2, <2>4, <2>5, <2>7, <2>8, <2>9, SameBuffer DEF TableInv
<1> QED BY <1>3, <1>4

LEMMA DecodeStep == ASSUME TableInv, Bit!DecodeEntry PROVE TableInv'
<1> DEFINE n == Len(key)
           x == EntryBit(lookup_table[n + 1])
<1>1. /\ UNCHANGED <<buffer, cFlag, lookup_table, unstuck>> /\ phase = "decode" /\ n < Len(lookup_table)
      /\ key' = Append(key, x) /\ phase' \in {"decode", "printed"}
      /\ phase' = "printed" <=> Len(key') = Len(lookup_table)
  BY DEF Bit!DecodeEntry, Bit!Selected, EntryBit
<1>2. key \in Seq(BitValues) /\ n \in Nat /\ Len(lookup_table) \in Nat /\ lookup_table \in Seq(Entries)
  BY LenProperties DEF TableInv
<1>3. x \in BitValues
  <2>1. n + 1 \in 1 .. Len(lookup_table)
    BY <1>1, <1>2
  <2>2. lookup_table[n + 1] \in Entries
    BY <1>2, <2>1, ElementOfSeq
  <2> QED BY <2>2 DEF BitValues
<1> HIDE DEF x
<1>4. /\ key' \in Seq(BitValues) /\ Len(key') = n + 1
      /\ \A j \in 1 .. n : key'[j] = key[j]
      /\ key'[n + 1] = x
  BY <1>1, <1>2, <1>3, AppendProperties
<1>5. \A j \in 1 .. n + 1 : key'[j] = EntryBit(lookup_table[j])
  <2>1. \A j \in 1 .. n : key[j] = EntryBit(lookup_table[j])
    BY DEF TableInv
  <2> HIDE DEF n
  <2>2. \A j \in 1 .. n + 1 : j \in 1 .. n \/ j = n + 1
    BY <1>2
  <2> QED BY <1>4, <2>1, <2>2 DEF x
<1> HIDE DEF n
<1> QED BY <1>1, <1>2, <1>4, <1>5, SameBuffer DEF TableInv

LEMMA TableStep == TableInv /\ [Bit!LookupNext]_lookupVars => TableInv'
<1>1. ASSUME TableInv, Bit!PrintTable PROVE TableInv'
  BY <1>1, SameBuffer DEF TableInv, Bit!PrintTable
<1>2. ASSUME TableInv, UNCHANGED lookupVars PROVE TableInv'
  BY <1>2, SameBuffer DEF TableInv, lookupVars
<1> QED BY <1>1, <1>2, FillStep, TryStep, DecodeStep DEF Bit!LookupNext

\* The table decodes to the flag, whatever the buffer, the flag and the random numbers,
\* unless a byte was given up.
THEOREM TableDecodes ==
  ASSUME Flags \subseteq Seq({0, 1})
  PROVE  MCSpec => []KeyIsFlag
<1>1. MCInit => TableInv
  BY TableInit DEF MCInit
<1>2. TableInv /\ [MCNext]_<<program, vars, godVars, befungeVars, serialVars, lookupVars>> => TableInv'
  BY TableStep DEF MCNext
<1>3. TableInv => KeyIsFlag
  <2> SUFFICES ASSUME TableInv, phase = "printed", ~ unstuck PROVE key = cFlag
    BY DEF KeyIsFlag, Bit!KeyIsFlag
  <2>1. key \in Seq(BitValues) /\ cFlag \in Seq(BitValues) /\ Len(key) = Len(cFlag)
    <3>1. cFlag \in Seq(BitValues)
      BY DEF TableInv, BitValues
    <3> QED BY <3>1 DEF TableInv
  <2>2. \A j \in 1 .. Len(key) : key[j] = cFlag[j]
    BY <2>1 DEF TableInv
  <2> QED BY <2>1, <2>2, SeqEqual
<1> QED BY <1>1, <1>2, <1>3, PTL DEF MCSpec

-----------------------------------------------------------------------------
(* god.py: the runs of the control program of 2010, each as its record.    *)
Fields == {"pc", "job", "todo", "team", "k", "file", "held", "user", "hash", "after", "exit", "seen", "disturbed"}
Flag(t, p) == <<"flag", t, p>>
PortSet == {Ports[k] : k \in DOMAIN Ports}
Checks == {"checkflag", "checkhash"}
Going(r) == r.pc \notin God!Ended
Fetching == {"rmlocal", "rmremote", "cp", "copy", "get", "open", "write", "stat", "hash"}
Tidying == {"tidyremote", "tidylocal"}
AtItem == Fetching \cup Tidying \cup {"judge"}
Item(r, kind) == <<r.team, Ports[r.k], kind>>

\* The run has the hash of the item's file.
Hashed(r) == r.pc = "judge" \/ (r.pc \in Tidying /\ r.after = "judge")

Rows(s) == s[2] \in DaemonInfo /\ s \in FlagRows
SelectedBy(job) ==
  {s \in Teams \X PortSet : job.ip \in {0, s[1]} /\ job.port \in {0, s[2]}}

\* The item that a run works on is one that it was asked about and that has its rows.
WalkOf(r) == Going(r) =>
  /\ r.pc \in {"team", "port"} \cup AtItem
  /\ r.todo \subseteq Teams /\ \A t \in r.todo : r.job.ip \in {0, t}
  /\ r.pc # "team" => r.team \in Teams /\ r.job.ip \in {0, r.team} /\ r.k \in Nat \ {0}
  /\ r.pc \in AtItem =>
       /\ r.k \in DOMAIN Ports /\ r.job.port \in {0, Ports[r.k]} /\ Rows(<<r.team, Ports[r.k]>>)
       /\ r.job.op # "setflag" /\ r.file \in God!Kinds
       /\ r.file = "flag" => r.job.op \in {"getflag", "checkflag"}
  /\ r.pc \in {"team", "port"} => r.user = God!Missing

\* It has seen everything that is on the disks.
SeenOf(r, files) == Going(r) => God!Contents(files) \subseteq r.seen

\* A flag with these contents was on a disk.
SeenFlag(seen, contents) ==
  \A t, p : contents = Flag(t, p) => <<<<t, p, "flag">>, contents>> \in seen

\* A flag that the run holds, that is in a copy it will read, or that it has hashed, was seen.
FreshOf(r, copies, copy) == Going(r) =>
  /\ SeenFlag(r.seen, r.held)
  /\ r.pc \in {"cp", "copy", "get"} => SeenFlag(r.seen, copies[r.team])
  /\ r.pc \in {"write", "stat", "hash"} => SeenFlag(r.seen, copy)
  /\ r.pc \in Tidying \cup {"judge"} => SeenFlag(r.seen, r.hash)
  /\ r.pc \in AtItem => SeenFlag(r.seen, r.user)

\* What a run with nothing in its way has copied and hashed is what is on the disks.
CleanOf(r, copies, copy, files) == Going(r) /\ ~ r.disturbed =>
  /\ r.seen = God!Contents(files)
  /\ r.pc = "cp" => copies[r.team] = God!Missing
  /\ r.pc \in {"copy", "open", "write", "stat"} =>
       r.held = files[Item(r, r.file)] /\ r.held # God!Missing
  /\ r.pc = "get" => copies[r.team] = files[Item(r, r.file)]
  /\ r.pc = "stat" => copy = r.held
  /\ r.pc = "hash" => copy = files[Item(r, r.file)] /\ copy # God!Missing
  /\ Hashed(r) => r.hash = files[Item(r, r.file)] /\ r.hash # God!Missing
  /\ (r.pc \in Fetching \/ Hashed(r)) /\ r.job.op = "checkflag" /\ r.file = "bin" =>
       r.user = files[Item(r, "flag")] /\ r.user # God!Missing

\* Status 0 of a run, as VerdictSound says it.
SoundOf(r) == r.exit = God!SUCCESS =>
  /\ r.job.op # "setflag"
  /\ r.job.op = "checkflag" =>
       \E s \in SelectedBy(r.job) : <<<<s[1], s[2], "flag">>, Flag(s[1], s[2])>> \in r.seen
  /\ r.job.op \in Checks /\ ~ r.disturbed =>
       \E s \in SelectedBy(r.job) : <<<<s[1], s[2], "bin">>, <<"bin", s[2]>>>> \in r.seen

\* The verdict on a daemon whose files are these.
FirstKind(op) == IF op = "checkflag" THEN "flag" ELSE "bin"
VerdictOf(op, s, files) ==
  IF ~ Rows(s) \/ files[<<s[1], s[2], FirstKind(op)>>] = God!Missing THEN God!INTERR
  ELSE IF /\ files[<<s[1], s[2], FirstKind(op)>>] = God!Expected(s[1], s[2], FirstKind(op))
          /\ files[<<s[1], s[2], "bin">>] = God!Expected(s[1], s[2], "bin")
       THEN God!SUCCESS ELSE God!FAIL

\* The run may still come to the daemon.
ToCome(r, s) ==
  \/ r.pc = "team" /\ r.todo # {}
  \/ r.pc = "port" /\ \E k \in DOMAIN Ports : k >= r.k /\ Ports[k] = s[2]
  \/ r.pc \in Fetching \/ Hashed(r)

\* Asked about one daemon, with nothing in its way, it has the verdict or has yet to get it.
ExactOf(r, files) == Going(r) /\ ~ r.disturbed /\ r.job.op \in Checks =>
  \A s : SelectedBy(r.job) = {s} =>
    \/ r.exit = VerdictOf(r.job.op, s, files)
    \/ r.exit = God!INTERR /\ ToCome(r, s)

\* VerdictExact of a run.
EndedOf(r) == r.pc = "ended" /\ ~ r.disturbed /\ r.job.op \in Checks =>
  \A s : SelectedBy(r.job) = {s} =>
    LET kind == FirstKind(r.job.op)
        was(k, contents) == <<<<s[1], s[2], k>>, contents>> \in r.seen
    IN /\ r.exit = God!SUCCESS <=> Rows(s) /\ was(kind, God!Expected(s[1], s[2], kind))
                                          /\ was("bin", God!Expected(s[1], s[2], "bin"))
       /\ r.exit = God!INTERR <=> ~ Rows(s) \/ was(kind, God!Missing)

RunOf(r, copies, copy, files) ==
  /\ DOMAIN r = Fields /\ WalkOf(r) /\ SeenOf(r, files) /\ FreshOf(r, copies, copy)
  /\ CleanOf(r, copies, copy, files) /\ SoundOf(r) /\ ExactOf(r, files) /\ EndedOf(r)

\* The files.
FilesInv ==
  /\ DOMAIN remote = Teams /\ DOMAIN disk = God!Items
  /\ \A item \in God!Items :
       disk[item] \in {God!Missing, God!Other, God!Expected(item[1], item[2], item[3])}

\* A run that nothing has disturbed is the only one.
AloneInv == \A i, j \in Runs : Going(run[i]) /\ ~ run[i].disturbed /\ Going(run[j]) => i = j

\* What it has opened here nobody has removed.
LinkInv == \A i \in Runs : run[i].pc = "write" /\ ~ run[i].disturbed => i \in opened

\* The runs that are there have seen the same.
SameInv == \A i, j \in Runs : Going(run[i]) /\ Going(run[j]) => run[i].seen = run[j].seen

GodInv ==
  /\ DOMAIN run = Runs /\ FilesInv /\ AloneInv /\ LinkInv /\ SameInv
  /\ \A i \in Runs : RunOf(run[i], remote, dl_tmp, disk)

-----------------------------------------------------------------------------
\* No two flags are the same, and none is anything else.
LEMMA FlagsDiffer ==
  \A t, p, u, q :
    /\ Flag(t, p) = Flag(u, q) => t = u /\ p = q
    /\ Flag(t, p) # <<"bin", q>> /\ Flag(t, p) # God!Missing /\ Flag(t, p) # God!Other
    /\ <<"bin", q>> # God!Missing /\ <<"bin", q>> # God!Other
  BY DEF Flag, God!Missing, God!Other

\* A flag that is on a disk is the one of its own file.
LEMMA FlagOnDisk ==
  ASSUME FilesInv, NEW item \in God!Items, NEW t, NEW p, disk[item] = Flag(t, p)
  PROVE  item = <<t, p, "flag">>
<1>1. item[3] \in {"flag", "bin"} /\ item = <<item[1], item[2], item[3]>>
  BY DEF God!Items, God!Kinds
<1>2. disk[item] = God!Expected(item[1], item[2], item[3])
  BY FlagsDiffer DEF FilesInv
<1>3. item[3] = "flag" /\ Flag(item[1], item[2]) = Flag(t, p)
  BY <1>1, <1>2, FlagsDiffer DEF God!Expected, Flag
<1> QED BY <1>1, <1>3, FlagsDiffer

\* What may be in dl_tmp without having been seen.
LEMMA NoFlag == \A seen : SeenFlag(seen, God!Missing) /\ SeenFlag(seen, God!Empty)
  BY FlagsDiffer DEF SeenFlag, God!Empty, Flag

LEMMA SeenMore ==
  ASSUME NEW seen, NEW more, NEW contents, SeenFlag(seen, contents)
  PROVE  SeenFlag(seen \cup more, contents)
  BY DEF SeenFlag

\* What is on a disk was seen.
LEMMA DiskSeen ==
  ASSUME FilesInv, NEW r, Going(r), SeenOf(r, disk), NEW item \in God!Items
  PROVE  SeenFlag(r.seen, disk[item])
<1> SUFFICES ASSUME NEW t, NEW p, disk[item] = Flag(t, p)
             PROVE  <<<<t, p, "flag">>, disk[item]>> \in r.seen
  BY DEF SeenFlag
<1>1. item = <<t, p, "flag">>
  BY FlagOnDisk
<1>2. <<item, disk[item]>> \in r.seen
  BY DEF SeenOf, God!Contents
<1> QED BY <1>1, <1>2

\* What one step of a run that holds something may do to the files: each dl_tmp is removed,
\* emptied, or gets what is held.
FilesStep(held) ==
  /\ disk' = disk
  /\ dl_tmp' \in {dl_tmp, God!Missing, God!Empty, held}
  /\ DOMAIN remote' = Teams
  /\ \A t \in Teams : remote'[t] \in {remote[t], God!Missing, held}

LEMMA FilesAfter ==
  ASSUME FilesInv, NEW held, FilesStep(held)
  PROVE  FilesInv'
  BY DEF FilesInv, FilesStep

\* A step of another run leaves this one's flags seen.
LEMMA FreshBeside ==
  ASSUME NEW held, FilesStep(held), NEW r, WalkOf(r), FreshOf(r, remote, dl_tmp),
         Going(r) => SeenFlag(r.seen, held)
  PROVE  FreshOf(r, remote', dl_tmp')
<1> SUFFICES ASSUME Going(r) PROVE FreshOf(r, remote', dl_tmp')
  BY DEF FreshOf
<1>1. ASSUME r.pc \in {"cp", "copy", "get"} PROVE SeenFlag(r.seen, remote'[r.team])
  <2>1. r.team \in Teams
    BY <1>1 DEF WalkOf
  <2> QED BY <1>1, <2>1, NoFlag DEF FilesStep, FreshOf
<1>2. ASSUME r.pc \in {"write", "stat", "hash"} PROVE SeenFlag(r.seen, dl_tmp')
  BY <1>2, NoFlag DEF FilesStep, FreshOf
<1> QED BY <1>1, <1>2 DEF FreshOf

\* Nothing that concerns another run is about its own.
LEMMA OtherRun ==
  ASSUME NEW held, FilesStep(held), NEW r, RunOf(r, remote, dl_tmp, disk),
         Going(r) => SeenFlag(r.seen, held),
         NEW s, s = r \/ s = [r EXCEPT !.disturbed = TRUE],
         \/ UNCHANGED <<dl_tmp, remote>>
         \/ Going(s) => s.disturbed
  PROVE  RunOf(s, remote', dl_tmp', disk')
<1>1. /\ DOMAIN s = Fields /\ s.pc = r.pc /\ s.job = r.job /\ s.todo = r.todo /\ s.team = r.team
      /\ s.k = r.k /\ s.file = r.file /\ s.held = r.held /\ s.user = r.user /\ s.hash = r.hash /\ s.after = r.after
      /\ s.exit = r.exit /\ s.seen = r.seen /\ (s.disturbed \/ s = r) /\ disk' = disk
  BY DEF RunOf, Fields, FilesStep
<1>2. WalkOf(s)
  BY <1>1 DEF RunOf, WalkOf, Going
<1>3. SeenOf(s, disk')
  BY <1>1 DEF RunOf, SeenOf, Going
<1>4. FreshOf(s, remote', dl_tmp')
  <2>1. FreshOf(r, remote', dl_tmp')
    BY FreshBeside DEF RunOf
  <2> QED BY <1>1, <2>1 DEF FreshOf, Going
<1>5. CleanOf(s, remote', dl_tmp', disk')
  BY <1>1 DEF RunOf, CleanOf
<1>6. SoundOf(s)
  BY <1>1 DEF RunOf, SoundOf
<1>7. ExactOf(s, disk')
  BY <1>1 DEF RunOf, ExactOf
<1>8. EndedOf(s)
  BY <1>1 DEF RunOf, EndedOf
<1> QED BY <1>1, <1>2, <1>3, <1>4, <1>5, <1>6, <1>7, <1>8 DEF RunOf

\* A step of one run that leaves the others as they are.
LEMMA RunStep ==
  ASSUME GodInv, NEW i \in Runs, FilesStep(run[i].held), NEW s, run' = [run EXCEPT ![i] = s],
         Going(run[i]) \/ (~ Going(s) /\ UNCHANGED <<dl_tmp, remote, opened>>),
         Going(s) => s.seen = run[i].seen,
         run[i].disturbed /\ Going(s) => s.disturbed,
         s.pc = "write" /\ ~ s.disturbed => i \in opened',
         RunOf(s, remote', dl_tmp', disk')
  PROVE  GodInv'
<1>1. run'[i] = s /\ \A j \in Runs : j # i => run'[j] = run[j]
  BY DEF GodInv
<1>2. FilesInv'
  BY FilesAfter DEF GodInv
<1>3. AloneInv'
  BY <1>1 DEF GodInv, AloneInv
<1>4. ASSUME NEW j \in Runs, j # i PROVE RunOf(run'[j], remote', dl_tmp', disk')
  <2>1. RunOf(run[j], remote, dl_tmp, disk)
    BY DEF GodInv
  <2>2. CASE Going(run[i])
    <3>1. Going(run[j]) => run[j].disturbed
      BY <1>4, <2>2 DEF GodInv, AloneInv
    <3>2. Going(run[j]) => SeenFlag(run[j].seen, run[i].held)
      BY <2>2 DEF GodInv, SameInv, RunOf, FreshOf
    <3> QED BY <1>1, <1>4, <2>1, <3>1, <3>2, OtherRun
  <2>3. CASE UNCHANGED <<dl_tmp, remote>>
    BY <1>1, <1>4, <2>1, <2>3 DEF FilesStep
  <2> QED BY <2>2, <2>3
<1>5. LinkInv'
  <2> SUFFICES ASSUME NEW j \in Runs, j # i, run[j].pc = "write", ~ run[j].disturbed
               PROVE  j \in opened'
    BY <1>1 DEF LinkInv
  <2>1. Going(run[j]) /\ j \in opened
    BY DEF GodInv, LinkInv, Going, God!Ended
  <2>2. ~ Going(run[i])
    BY <2>1 DEF GodInv, AloneInv
  <2> QED BY <2>1, <2>2
<1>6. SameInv'
  BY <1>1 DEF GodInv, SameInv
<1> QED BY <1>1, <1>2, <1>3, <1>4, <1>5, <1>6 DEF GodInv

\* The same of a run that is there before.
LEMMA OwnStep ==
  ASSUME GodInv, NEW i \in Runs, Going(run[i]), FilesStep(run[i].held), NEW s,
         run' = [run EXCEPT ![i] = s], s.seen = run[i].seen,
         run[i].disturbed => s.disturbed,
         s.pc = "write" /\ ~ s.disturbed => i \in opened',
         RunOf(s, remote', dl_tmp', disk')
  PROVE  GodInv'
  BY RunStep

\* A run that gets no status 0 is as sound as before.
LEMMA SoundKept ==
  ASSUME NEW r, NEW s, SoundOf(r), s.exit \in {r.exit, God!FAIL, God!INTERR},
         s.job = r.job, s.seen = r.seen, s.disturbed = r.disturbed \/ s.disturbed = TRUE
  PROVE  SoundOf(s)
<1>1. s.exit = God!SUCCESS => r.exit = God!SUCCESS
  BY DEF God!SUCCESS, God!FAIL, God!INTERR
<1> QED BY <1>1 DEF SoundOf

\* Without the file there is one verdict.
LEMMA UnfetchedVerdict ==
  ASSUME NEW r, r.pc = "get", WalkOf(r), CleanOf(r, remote, dl_tmp, disk), ~ r.disturbed,
         ExactOf(r, disk), remote[r.team] = God!Missing, r.job.op \in Checks,
         NEW s, SelectedBy(r.job) = {s}
  PROVE  VerdictOf(r.job.op, s, disk) = IF r.job.op = "checkflag" /\ r.file = "bin" THEN God!FAIL ELSE r.exit
<1>1. Going(r) /\ r.pc \in AtItem /\ r.pc \in Fetching
  BY DEF Going, God!Ended, AtItem, Fetching
<1>2. s = <<r.team, Ports[r.k]>> /\ Rows(s)
  <2>1. <<r.team, Ports[r.k]>> \in SelectedBy(r.job)
    BY <1>1 DEF WalkOf, SelectedBy, PortSet
  <2> QED BY <1>1, <2>1 DEF WalkOf
<1>3. disk[<<s[1], s[2], r.file>>] = God!Missing
  BY <1>1, <1>2 DEF CleanOf, Item
<1>4. CASE r.job.op = "checkflag" /\ r.file = "bin"
  <2>1. disk[<<s[1], s[2], "flag">>] # God!Missing
    BY <1>1, <1>2, <1>4 DEF CleanOf, Item
  <2>2. God!Expected(s[1], s[2], "bin") # God!Missing
    BY FlagsDiffer DEF God!Expected
  <2> QED BY <1>2, <1>3, <1>4, <2>1, <2>2 DEF VerdictOf, FirstKind
<1>5. CASE ~ (r.job.op = "checkflag" /\ r.file = "bin")
  <2>1. r.file = FirstKind(r.job.op)
    BY <1>1, <1>5 DEF WalkOf, Checks, FirstKind, God!Kinds
  <2>2. VerdictOf(r.job.op, s, disk) = God!INTERR
    BY <1>2, <1>3, <2>1 DEF VerdictOf
  <2> QED BY <1>1, <1>5, <2>2 DEF ExactOf
<1> QED BY <1>4, <1>5

\* The ports are numbered from 1.
LEMMA PortsDomain ==
  ASSUME Ports \in Seq(PortSet)
  PROVE  Len(Ports) \in Nat /\ DOMAIN Ports = 1 .. Len(Ports)
  BY LenProperties

\* A selected daemon has its port in the walk.
LEMMA FirstPort ==
  ASSUME Ports \in Seq(PortSet), NEW job, NEW s \in SelectedBy(job)
  PROVE  \E k \in DOMAIN Ports : k >= 1 /\ Ports[k] = s[2]
  BY PortsDomain DEF SelectedBy, PortSet

\* At the end the verdict is what VerdictExact says.
LEMMA EndedVerdict ==
  ASSUME NEW r, r.pc = "team", r.todo = {}, ExactOf(r, disk), CleanOf(r, remote, dl_tmp, disk),
         ~ r.disturbed, r.job.op \in Checks, NEW s, SelectedBy(r.job) = {s}
  PROVE  LET kind == FirstKind(r.job.op)
             was(k, contents) == <<<<s[1], s[2], k>>, contents>> \in r.seen
         IN /\ r.exit = God!SUCCESS <=> Rows(s) /\ was(kind, God!Expected(s[1], s[2], kind))
                                               /\ was("bin", God!Expected(s[1], s[2], "bin"))
            /\ r.exit = God!INTERR <=> ~ Rows(s) \/ was(kind, God!Missing)
<1>1. Going(r) /\ ~ ToCome(r, s)
  BY DEF Going, God!Ended, ToCome, Hashed, Fetching, Tidying
<1>2. r.exit = VerdictOf(r.job.op, s, disk)
  BY <1>1 DEF ExactOf
<1>3. \A contents : \A kind \in God!Kinds :
        <<<<s[1], s[2], kind>>, contents>> \in r.seen <=> disk[<<s[1], s[2], kind>>] = contents
  <2>1. r.seen = God!Contents(disk)
    BY <1>1 DEF CleanOf
  <2>2. s \in Teams \X PortSet
    BY DEF SelectedBy
  <2>3. \A kind \in God!Kinds : <<s[1], s[2], kind>> \in God!Items
    BY <2>2 DEF God!Items, PortSet
  <2> QED BY <2>1, <2>3 DEF God!Contents
<1>4. FirstKind(r.job.op) \in God!Kinds /\ "bin" \in God!Kinds
  BY DEF FirstKind, God!Kinds
<1>5. \A kind \in God!Kinds : God!Expected(s[1], s[2], kind) # God!Missing
  BY FlagsDiffer DEF God!Expected, Flag
<1> QED
  BY <1>2, <1>3, <1>4, <1>5 DEF VerdictOf, God!SUCCESS, God!FAIL, God!INTERR
\* The daemon that a run judges is one that it was asked about.
LEMMA JudgedSelected ==
  ASSUME NEW r, r.pc = "judge", WalkOf(r)
  PROVE  /\ Going(r) /\ Hashed(r) /\ <<r.team, Ports[r.k]>> \in SelectedBy(r.job)
         /\ Rows(<<r.team, Ports[r.k]>>) /\ r.team \in Teams /\ Ports[r.k] \in PortSet
<1>1. Going(r) /\ Hashed(r) /\ r.pc \in AtItem
  BY DEF Going, God!Ended, Hashed, AtItem, Fetching, Tidying
<1> QED BY <1>1 DEF WalkOf, SelectedBy, PortSet

\* What a run with nothing in its way judges was seen, and is what is on the disk.
LEMMA JudgedSeen ==
  ASSUME NEW r, r.pc = "judge", WalkOf(r), CleanOf(r, remote, dl_tmp, disk), ~ r.disturbed, r.file = "bin",
         r.job.op \in Checks
  PROVE  /\ disk[<<r.team, Ports[r.k], "bin">>] = r.hash /\ r.hash # God!Missing
         /\ <<<<r.team, Ports[r.k], "bin">>, r.hash>> \in r.seen
         /\ r.job.op = "checkflag" => disk[<<r.team, Ports[r.k], "flag">>] = r.user /\ r.user # God!Missing
<1>1. disk[Item(r, "bin")] = r.hash /\ r.hash # God!Missing /\ r.seen = God!Contents(disk)
  BY JudgedSelected DEF CleanOf
<1>2. Item(r, "bin") \in God!Items
  BY JudgedSelected DEF God!Items, God!Kinds, Item, PortSet
<1>3. <<Item(r, "bin"), disk[Item(r, "bin")]>> \in r.seen
  BY <1>1, <1>2 DEF God!Contents
<1>4. r.job.op = "checkflag" => disk[Item(r, "flag")] = r.user /\ r.user # God!Missing
  BY JudgedSelected DEF CleanOf
<1> QED BY <1>1, <1>3, <1>4 DEF Item

\* A check of the program has hashed the program.
LEMMA JudgedFile ==
  ASSUME NEW r, r.pc = "judge", WalkOf(r), r.job.op = "checkhash"
  PROVE  r.file = "bin"
  BY JudgedSelected DEF WalkOf, AtItem, God!Kinds

\* A program that has the right hash was right when it was seen,
LEMMA HashVerdictSound ==
  ASSUME NEW r, r.pc = "judge", WalkOf(r), CleanOf(r, remote, dl_tmp, disk), r.job.op = "checkhash",
         r.hash = <<"bin", Ports[r.k]>>, ~ r.disturbed
  PROVE  \E s \in SelectedBy(r.job) : <<<<s[1], s[2], "bin">>, <<"bin", s[2]>>>> \in r.seen
<1> DEFINE d == <<r.team, Ports[r.k]>>
<1>1. d \in SelectedBy(r.job) /\ <<<<d[1], d[2], "bin">>, <<"bin", d[2]>>>> \in r.seen
  BY JudgedSelected, JudgedSeen, JudgedFile DEF Checks
<1> QED BY <1>1

\* and so was a flag, whatever was in the way of the run.
LEMMA DaemonVerdictSound ==
  ASSUME NEW r, r.pc = "judge", WalkOf(r), CleanOf(r, remote, dl_tmp, disk), FreshOf(r, remote, dl_tmp),
         r.job.op = "checkflag", r.file = "bin",
         r.hash = <<"bin", Ports[r.k]>>, r.user = Flag(r.team, Ports[r.k])
  PROVE  /\ \E s \in SelectedBy(r.job) : <<<<s[1], s[2], "flag">>, Flag(s[1], s[2])>> \in r.seen
         /\ ~ r.disturbed =>
              \E s \in SelectedBy(r.job) : <<<<s[1], s[2], "bin">>, <<"bin", s[2]>>>> \in r.seen
<1> DEFINE d == <<r.team, Ports[r.k]>>
<1>1. d \in SelectedBy(r.job)
  BY JudgedSelected
<1>2. <<<<d[1], d[2], "flag">>, Flag(d[1], d[2])>> \in r.seen
  BY JudgedSelected DEF FreshOf, AtItem, SeenFlag
<1>3. ~ r.disturbed => <<<<d[1], d[2], "bin">>, <<"bin", d[2]>>>> \in r.seen
  BY JudgedSeen DEF Checks
<1> QED BY <1>1, <1>2, <1>3

\* With nothing in the way, what is judged is what is on the disk.
LEMMA HashVerdictExact ==
  ASSUME NEW r, r.pc = "judge", WalkOf(r), CleanOf(r, remote, dl_tmp, disk), r.job.op = "checkhash",
         ~ r.disturbed, NEW s, SelectedBy(r.job) = {s}
  PROVE  VerdictOf(r.job.op, s, disk) =
           IF r.hash = <<"bin", Ports[r.k]>> THEN God!SUCCESS ELSE God!FAIL
<1>1. s = <<r.team, Ports[r.k]>> /\ Rows(s)
  BY JudgedSelected
<1>2. disk[<<s[1], s[2], "bin">>] = r.hash /\ r.hash # God!Missing
  BY <1>1, JudgedSeen, JudgedFile DEF Checks
<1> QED BY <1>1, <1>2 DEF VerdictOf, FirstKind, God!Expected

LEMMA DaemonVerdictExact ==
  ASSUME NEW r, r.pc = "judge", WalkOf(r), CleanOf(r, remote, dl_tmp, disk), r.job.op = "checkflag",
         r.file = "bin", ~ r.disturbed, NEW s, SelectedBy(r.job) = {s}
  PROVE  VerdictOf(r.job.op, s, disk) =
           IF r.hash = <<"bin", Ports[r.k]>> /\ r.user = Flag(r.team, Ports[r.k])
           THEN God!SUCCESS ELSE God!FAIL
<1>1. s = <<r.team, Ports[r.k]>> /\ Rows(s)
  BY JudgedSelected
<1>2. /\ disk[<<s[1], s[2], "bin">>] = r.hash
      /\ disk[<<s[1], s[2], "flag">>] = r.user /\ r.user # God!Missing
  BY <1>1, JudgedSeen DEF Checks
<1> QED BY <1>1, <1>2 DEF VerdictOf, FirstKind, God!Expected, Flag

-----------------------------------------------------------------------------
(* One lemma per step of a run, all of one shape: <1>3 says what the step  *)
(* does to the run's record, <1>4 what it does to the files, <1>5 to <1>11 *)
(* are the parts of RunOf.                                                 *)
\* dl_tmp here is removed.
LEMMA RemoveLocalStep ==
  ASSUME GodInv, NEW i \in Runs, God!RemoveLocal(i)
  PROVE  GodInv'
<1> DEFINE r == run[i]
           s == [run[i] EXCEPT !.pc = "rmremote"]
<1>1. r.pc = "rmlocal" /\ Going(r) /\ run' = [run EXCEPT ![i] = s]
  BY DEF Going, God!Ended, God!Goto, God!Become, God!RemoveLocal
<1>2. RunOf(r, remote, dl_tmp, disk) /\ FilesInv
  BY DEF GodInv
<1>3. /\ DOMAIN s = Fields /\ s.pc = "rmremote" /\ s.job = r.job /\ s.todo = r.todo
      /\ s.team = r.team /\ s.k = r.k /\ s.file = r.file /\ s.held = r.held /\ s.user = r.user /\ s.hash = r.hash
      /\ s.after = r.after /\ s.exit = r.exit /\ s.seen = r.seen /\ s.disturbed = r.disturbed
  BY <1>1, <1>2 DEF RunOf, Fields
<1> HIDE DEF r, s
<1>4. FilesStep(r.held) /\ remote' = remote /\ dl_tmp' = God!Missing
  BY <1>2 DEF God!RemoveLocal, FilesStep, FilesInv
<1>5. WalkOf(s)
  BY <1>1, <1>2, <1>3, <1>4
     DEF RunOf, WalkOf, Going, God!Ended, AtItem, Fetching, Tidying
<1>6. SeenOf(s, disk')
  BY <1>1, <1>2, <1>3, <1>4
     DEF RunOf, SeenOf, FilesStep
<1>7. FreshOf(s, remote', dl_tmp')
  BY <1>1, <1>2, <1>3, <1>4, NoFlag
     DEF RunOf, FreshOf, Going, God!Ended, AtItem, Fetching, Tidying
<1>8. CleanOf(s, remote', dl_tmp', disk')
  BY <1>1, <1>2, <1>3, <1>4
     DEF RunOf, CleanOf, Hashed, Item, AtItem, Fetching, Tidying, FilesStep
<1>9. SoundOf(s)
  BY <1>1, <1>2, <1>3, <1>4
     DEF RunOf, SoundOf
<1>10. ExactOf(s, disk')
  BY <1>1, <1>2, <1>3, <1>4
     DEF RunOf, ExactOf, ToCome, Hashed, AtItem, Fetching, Tidying, FilesStep
<1>11. EndedOf(s)
  BY <1>1, <1>2, <1>3, <1>4
     DEF RunOf, EndedOf
<1> QED
  BY <1>1, <1>2, <1>3, <1>4, <1>5, <1>6, <1>7, <1>8, <1>9, <1>10, <1>11, OwnStep DEF RunOf, r

\* dl_tmp on the team's machine is removed.
LEMMA RemoveRemoteStep ==
  ASSUME GodInv, NEW i \in Runs, God!RemoveRemote(i)
  PROVE  GodInv'
<1> DEFINE r == run[i]
           s == [run[i] EXCEPT !.pc = "cp"]
<1>1. r.pc = "rmremote" /\ Going(r) /\ run' = [run EXCEPT ![i] = s]
  BY DEF Going, God!Ended, God!Goto, God!Become, God!RemoveRemote
<1>2. RunOf(r, remote, dl_tmp, disk) /\ FilesInv
  BY DEF GodInv
<1>3. /\ DOMAIN s = Fields /\ s.pc = "cp" /\ s.job = r.job /\ s.todo = r.todo /\ s.team = r.team
      /\ s.k = r.k /\ s.file = r.file /\ s.held = r.held /\ s.user = r.user /\ s.hash = r.hash /\ s.after = r.after
      /\ s.exit = r.exit /\ s.seen = r.seen /\ s.disturbed = r.disturbed
  BY <1>1, <1>2 DEF RunOf, Fields
<1> HIDE DEF r, s
<1>4. FilesStep(r.held) /\ dl_tmp' = dl_tmp /\ remote'[r.team] = God!Missing
  <2>1. r.team \in Teams
    BY <1>1, <1>2 DEF RunOf, WalkOf
  <2> QED BY <1>2, <2>1 DEF God!RemoveRemote, FilesStep, FilesInv, r
<1>5. WalkOf(s)
  BY <1>1, <1>2, <1>3, <1>4
     DEF RunOf, WalkOf, Going, God!Ended, AtItem, Fetching, Tidying
<1>6. SeenOf(s, disk')
  BY <1>1, <1>2, <1>3, <1>4
     DEF RunOf, SeenOf, FilesStep
<1>7. FreshOf(s, remote', dl_tmp')
  BY <1>1, <1>2, <1>3, <1>4, NoFlag
     DEF RunOf, FreshOf, Going, God!Ended, AtItem, Fetching, Tidying
<1>8. CleanOf(s, remote', dl_tmp', disk')
  BY <1>1, <1>2, <1>3, <1>4
     DEF RunOf, CleanOf, Hashed, Item, AtItem, Fetching, Tidying, FilesStep
<1>9. SoundOf(s)
  BY <1>1, <1>2, <1>3, <1>4
     DEF RunOf, SoundOf
<1>10. ExactOf(s, disk')
  BY <1>1, <1>2, <1>3, <1>4
     DEF RunOf, ExactOf, ToCome, Hashed, AtItem, Fetching, Tidying, FilesStep
<1>11. EndedOf(s)
  BY <1>1, <1>2, <1>3, <1>4
     DEF RunOf, EndedOf
<1> QED
  BY <1>1, <1>2, <1>3, <1>4, <1>5, <1>6, <1>7, <1>8, <1>9, <1>10, <1>11, OwnStep DEF RunOf, r

\* cp reads the file, which may not be there,
LEMMA CopyRemoteStep ==
  ASSUME GodInv, NEW i \in Runs, God!CopyRemote(i)
  PROVE  GodInv'
<1> DEFINE r == run[i]
           s == [run[i] EXCEPT !.pc = IF disk[God!TheFile(i)] = God!Missing THEN "get" ELSE "copy",
                             !.held = disk[God!TheFile(i)]]
<1>1. r.pc = "cp" /\ Going(r) /\ run' = [run EXCEPT ![i] = s]
  BY DEF Going, God!Ended, God!Goto, God!Become, God!CopyRemote
<1>2. RunOf(r, remote, dl_tmp, disk) /\ FilesInv
  BY DEF GodInv
<1>3. /\ DOMAIN s = Fields /\ s.pc = (IF disk[God!TheFile(i)] = God!Missing THEN "get" ELSE "copy") /\ s.job = r.job /\ s.todo = r.todo
      /\ s.team = r.team /\ s.k = r.k /\ s.file = r.file /\ s.held = disk[God!TheFile(i)] /\ s.user = r.user
      /\ s.hash = r.hash /\ s.after = r.after /\ s.exit = r.exit /\ s.seen = r.seen
      /\ s.disturbed = r.disturbed
  BY <1>1, <1>2 DEF RunOf, Fields
<1> HIDE DEF r, s
<1>4. FilesStep(r.held) /\ UNCHANGED <<remote, dl_tmp>>
  BY <1>2 DEF God!CopyRemote, FilesStep, FilesInv
<1>12. God!TheFile(i) = Item(r, r.file)
  BY DEF God!TheFile, God!Port, Item, r
<1>13. SeenFlag(s.seen, s.held)
  <2>1. r.team \in Teams /\ r.k \in DOMAIN Ports /\ r.file \in God!Kinds
    BY <1>1, <1>2 DEF RunOf, WalkOf, AtItem, Fetching
  <2>2. God!TheFile(i) \in God!Items
    BY <1>12, <2>1 DEF Item, God!Items
  <2> QED BY <1>1, <1>2, <1>3, <2>2, DiskSeen DEF RunOf
<1>5. WalkOf(s)
  BY <1>1, <1>2, <1>3, <1>4
     DEF RunOf, WalkOf, Going, God!Ended, AtItem, Fetching, Tidying
<1>6. SeenOf(s, disk')
  BY <1>1, <1>2, <1>3, <1>4
     DEF RunOf, SeenOf, FilesStep
<1>7. FreshOf(s, remote', dl_tmp')
  BY <1>1, <1>2, <1>3, <1>4, NoFlag, <1>13
     DEF RunOf, FreshOf, Going, God!Ended, AtItem, Fetching, Tidying
<1>8. CleanOf(s, remote', dl_tmp', disk')
  BY <1>1, <1>2, <1>3, <1>4, <1>12
     DEF RunOf, CleanOf, Hashed, Item, AtItem, Fetching, Tidying, FilesStep
<1>9. SoundOf(s)
  BY <1>1, <1>2, <1>3, <1>4
     DEF RunOf, SoundOf
<1>10. ExactOf(s, disk')
  BY <1>1, <1>2, <1>3, <1>4
     DEF RunOf, ExactOf, ToCome, Hashed, AtItem, Fetching, Tidying, FilesStep
<1>11. EndedOf(s)
  BY <1>1, <1>2, <1>3, <1>4
     DEF RunOf, EndedOf
<1> QED
  BY <1>1, <1>2, <1>3, <1>4, <1>5, <1>6, <1>7, <1>8, <1>9, <1>10, <1>11, OwnStep DEF RunOf, r

\* and writes it.
LEMMA WriteRemoteStep ==
  ASSUME GodInv, NEW i \in Runs, God!WriteRemote(i)
  PROVE  GodInv'
<1> DEFINE r == run[i]
           s == [run[i] EXCEPT !.pc = "get", !.held = God!Missing]
<1>1. r.pc = "copy" /\ Going(r) /\ run' = [run EXCEPT ![i] = s]
  BY DEF Going, God!Ended, God!Goto, God!Become, God!WriteRemote
<1>2. RunOf(r, remote, dl_tmp, disk) /\ FilesInv
  BY DEF GodInv
<1>3. /\ DOMAIN s = Fields /\ s.pc = "get" /\ s.job = r.job /\ s.todo = r.todo
      /\ s.team = r.team /\ s.k = r.k /\ s.file = r.file /\ s.held = God!Missing /\ s.user = r.user
      /\ s.hash = r.hash /\ s.after = r.after /\ s.exit = r.exit /\ s.seen = r.seen
      /\ s.disturbed = r.disturbed
  BY <1>1, <1>2 DEF RunOf, Fields
<1> HIDE DEF r, s
<1>4. FilesStep(r.held) /\ dl_tmp' = dl_tmp /\ remote'[r.team] = r.held
  <2>1. r.team \in Teams
    BY <1>1, <1>2 DEF RunOf, WalkOf
  <2> QED BY <1>2, <2>1 DEF God!WriteRemote, FilesStep, FilesInv, r
<1>5. WalkOf(s)
  BY <1>1, <1>2, <1>3, <1>4
     DEF RunOf, WalkOf, Going, God!Ended, AtItem, Fetching, Tidying
<1>6. SeenOf(s, disk')
  BY <1>1, <1>2, <1>3, <1>4
     DEF RunOf, SeenOf, FilesStep
<1>7. FreshOf(s, remote', dl_tmp')
  BY <1>1, <1>2, <1>3, <1>4, NoFlag
     DEF RunOf, FreshOf, Going, God!Ended, AtItem, Fetching, Tidying
<1>8. CleanOf(s, remote', dl_tmp', disk')
  BY <1>1, <1>2, <1>3, <1>4
     DEF RunOf, CleanOf, Hashed, Item, AtItem, Fetching, Tidying, FilesStep
<1>9. SoundOf(s)
  BY <1>1, <1>2, <1>3, <1>4
     DEF RunOf, SoundOf
<1>10. ExactOf(s, disk')
  BY <1>1, <1>2, <1>3, <1>4
     DEF RunOf, ExactOf, ToCome, Hashed, AtItem, Fetching, Tidying, FilesStep
<1>11. EndedOf(s)
  BY <1>1, <1>2, <1>3, <1>4
     DEF RunOf, EndedOf
<1> QED
  BY <1>1, <1>2, <1>3, <1>4, <1>5, <1>6, <1>7, <1>8, <1>9, <1>10, <1>11, OwnStep DEF RunOf, r

\* The copy is asked for,
LEMMA DownloadedStep ==
  ASSUME GodInv, NEW i \in Runs, run[i].pc = "get", remote[run[i].team] # God!Missing,
         God!Become(i, [run[i] EXCEPT !.pc = "open", !.held = remote[run[i].team]]),
         UNCHANGED <<remote, dl_tmp, disk>>
  PROVE  GodInv'
<1> DEFINE r == run[i]
           s == [run[i] EXCEPT !.pc = "open", !.held = remote[run[i].team]]
<1>1. r.pc = "get" /\ Going(r) /\ run' = [run EXCEPT ![i] = s] /\ remote[r.team] # God!Missing
  BY DEF Going, God!Ended, God!Goto, God!Become
<1>2. RunOf(r, remote, dl_tmp, disk) /\ FilesInv
  BY DEF GodInv
<1>3. /\ DOMAIN s = Fields /\ s.pc = "open" /\ s.job = r.job /\ s.todo = r.todo
      /\ s.team = r.team /\ s.k = r.k /\ s.file = r.file /\ s.held = remote[r.team] /\ s.user = r.user
      /\ s.hash = r.hash /\ s.after = r.after /\ s.exit = r.exit /\ s.seen = r.seen
      /\ s.disturbed = r.disturbed
  BY <1>1, <1>2 DEF RunOf, Fields
<1> HIDE DEF r, s
<1>4. FilesStep(r.held) /\ UNCHANGED <<remote, dl_tmp>>
  BY <1>2 DEF FilesStep, FilesInv
<1>5. WalkOf(s)
  BY <1>1, <1>2, <1>3, <1>4
     DEF RunOf, WalkOf, Going, God!Ended, AtItem, Fetching, Tidying
<1>6. SeenOf(s, disk')
  BY <1>1, <1>2, <1>3, <1>4
     DEF RunOf, SeenOf, FilesStep
<1>7. FreshOf(s, remote', dl_tmp')
  BY <1>1, <1>2, <1>3, <1>4, NoFlag
     DEF RunOf, FreshOf, Going, God!Ended, AtItem, Fetching, Tidying
<1>8. CleanOf(s, remote', dl_tmp', disk')
  BY <1>1, <1>2, <1>3, <1>4
     DEF RunOf, CleanOf, Hashed, Item, AtItem, Fetching, Tidying, FilesStep
<1>9. SoundOf(s)
  BY <1>1, <1>2, <1>3, <1>4
     DEF RunOf, SoundOf
<1>10. ExactOf(s, disk')
  BY <1>1, <1>2, <1>3, <1>4
     DEF RunOf, ExactOf, ToCome, Hashed, AtItem, Fetching, Tidying, FilesStep
<1>11. EndedOf(s)
  BY <1>1, <1>2, <1>3, <1>4
     DEF RunOf, EndedOf
<1> QED
  BY <1>1, <1>2, <1>3, <1>4, <1>5, <1>6, <1>7, <1>8, <1>9, <1>10, <1>11, OwnStep DEF RunOf, r

\* the file here is emptied,
LEMMA OpenLocalStep ==
  ASSUME GodInv, NEW i \in Runs, God!OpenLocal(i)
  PROVE  GodInv'
<1> DEFINE r == run[i]
           s == [run[i] EXCEPT !.pc = "write"]
<1>1. r.pc = "open" /\ Going(r) /\ run' = [run EXCEPT ![i] = s]
  BY DEF Going, God!Ended, God!Goto, God!Become, God!OpenLocal
<1>2. RunOf(r, remote, dl_tmp, disk) /\ FilesInv
  BY DEF GodInv
<1>3. /\ DOMAIN s = Fields /\ s.pc = "write" /\ s.job = r.job /\ s.todo = r.todo
      /\ s.team = r.team /\ s.k = r.k /\ s.file = r.file /\ s.held = r.held /\ s.user = r.user
      /\ s.hash = r.hash /\ s.after = r.after /\ s.exit = r.exit /\ s.seen = r.seen
      /\ s.disturbed = r.disturbed
  BY <1>1, <1>2 DEF RunOf, Fields
<1> HIDE DEF r, s
<1>4. FilesStep(r.held) /\ remote' = remote /\ dl_tmp' = God!Empty /\ i \in opened'
  BY <1>2 DEF God!OpenLocal, FilesStep, FilesInv
<1>5. WalkOf(s)
  BY <1>1, <1>2, <1>3, <1>4
     DEF RunOf, WalkOf, Going, God!Ended, AtItem, Fetching, Tidying
<1>6. SeenOf(s, disk')
  BY <1>1, <1>2, <1>3, <1>4
     DEF RunOf, SeenOf, FilesStep
<1>7. FreshOf(s, remote', dl_tmp')
  BY <1>1, <1>2, <1>3, <1>4, NoFlag
     DEF RunOf, FreshOf, Going, God!Ended, AtItem, Fetching, Tidying
<1>8. CleanOf(s, remote', dl_tmp', disk')
  BY <1>1, <1>2, <1>3, <1>4
     DEF RunOf, CleanOf, Hashed, Item, AtItem, Fetching, Tidying, FilesStep
<1>9. SoundOf(s)
  BY <1>1, <1>2, <1>3, <1>4
     DEF RunOf, SoundOf
<1>10. ExactOf(s, disk')
  BY <1>1, <1>2, <1>3, <1>4
     DEF RunOf, ExactOf, ToCome, Hashed, AtItem, Fetching, Tidying, FilesStep
<1>11. EndedOf(s)
  BY <1>1, <1>2, <1>3, <1>4
     DEF RunOf, EndedOf
<1> QED
  BY <1>1, <1>2, <1>3, <1>4, <1>5, <1>6, <1>7, <1>8, <1>9, <1>10, <1>11, OwnStep DEF RunOf, r

\* and written, if it has still its name;
LEMMA WrittenStep ==
  ASSUME GodInv, NEW i \in Runs, run[i].pc = "write", God!Goto(i, "stat"),
         dl_tmp' = (IF i \in opened THEN run[i].held ELSE dl_tmp), UNCHANGED <<remote, disk>>
  PROVE  GodInv'
<1> DEFINE r == run[i]
           s == [run[i] EXCEPT !.pc = "stat"]
<1>1. r.pc = "write" /\ Going(r) /\ run' = [run EXCEPT ![i] = s]
  BY DEF Going, God!Ended, God!Goto, God!Become
<1>2. RunOf(r, remote, dl_tmp, disk) /\ FilesInv
  BY DEF GodInv
<1>3. /\ DOMAIN s = Fields /\ s.pc = "stat" /\ s.job = r.job /\ s.todo = r.todo
      /\ s.team = r.team /\ s.k = r.k /\ s.file = r.file /\ s.held = r.held /\ s.user = r.user
      /\ s.hash = r.hash /\ s.after = r.after /\ s.exit = r.exit /\ s.seen = r.seen
      /\ s.disturbed = r.disturbed
  BY <1>1, <1>2 DEF RunOf, Fields
<1> HIDE DEF r, s
<1>4. FilesStep(r.held) /\ remote' = remote /\ dl_tmp' \in {dl_tmp, r.held}
  BY <1>2 DEF FilesStep, FilesInv, r
<1>12. ~ r.disturbed => dl_tmp' = r.held
  BY <1>1 DEF GodInv, LinkInv, r
<1>5. WalkOf(s)
  BY <1>1, <1>2, <1>3, <1>4
     DEF RunOf, WalkOf, Going, God!Ended, AtItem, Fetching, Tidying
<1>6. SeenOf(s, disk')
  BY <1>1, <1>2, <1>3, <1>4
     DEF RunOf, SeenOf, FilesStep
<1>7. FreshOf(s, remote', dl_tmp')
  BY <1>1, <1>2, <1>3, <1>4, NoFlag
     DEF RunOf, FreshOf, Going, God!Ended, AtItem, Fetching, Tidying
<1>8. CleanOf(s, remote', dl_tmp', disk')
  BY <1>1, <1>2, <1>3, <1>4, <1>12
     DEF RunOf, CleanOf, Hashed, Item, AtItem, Fetching, Tidying, FilesStep
<1>9. SoundOf(s)
  BY <1>1, <1>2, <1>3, <1>4
     DEF RunOf, SoundOf
<1>10. ExactOf(s, disk')
  BY <1>1, <1>2, <1>3, <1>4
     DEF RunOf, ExactOf, ToCome, Hashed, AtItem, Fetching, Tidying, FilesStep
<1>11. EndedOf(s)
  BY <1>1, <1>2, <1>3, <1>4
     DEF RunOf, EndedOf
<1> QED
  BY <1>1, <1>2, <1>3, <1>4, <1>5, <1>6, <1>7, <1>8, <1>9, <1>10, <1>11, OwnStep DEF RunOf, r

\* what is there is as large.
LEMMA CheckedStep ==
  ASSUME GodInv, NEW i \in Runs, run[i].pc = "stat", dl_tmp # God!Missing,
         God!Become(i, [run[i] EXCEPT !.pc = "hash", !.held = God!Missing]),
         UNCHANGED <<remote, dl_tmp, disk>>
  PROVE  GodInv'
<1> DEFINE r == run[i]
           s == [run[i] EXCEPT !.pc = "hash", !.held = God!Missing]
<1>1. r.pc = "stat" /\ Going(r) /\ run' = [run EXCEPT ![i] = s]
  BY DEF Going, God!Ended, God!Goto, God!Become
<1>2. RunOf(r, remote, dl_tmp, disk) /\ FilesInv
  BY DEF GodInv
<1>3. /\ DOMAIN s = Fields /\ s.pc = "hash" /\ s.job = r.job /\ s.todo = r.todo
      /\ s.team = r.team /\ s.k = r.k /\ s.file = r.file /\ s.held = God!Missing /\ s.user = r.user
      /\ s.hash = r.hash /\ s.after = r.after /\ s.exit = r.exit /\ s.seen = r.seen
      /\ s.disturbed = r.disturbed
  BY <1>1, <1>2 DEF RunOf, Fields
<1> HIDE DEF r, s
<1>4. FilesStep(r.held) /\ UNCHANGED <<remote, dl_tmp>>
  BY <1>2 DEF FilesStep, FilesInv
<1>5. WalkOf(s)
  BY <1>1, <1>2, <1>3, <1>4
     DEF RunOf, WalkOf, Going, God!Ended, AtItem, Fetching, Tidying
<1>6. SeenOf(s, disk')
  BY <1>1, <1>2, <1>3, <1>4
     DEF RunOf, SeenOf, FilesStep
<1>7. FreshOf(s, remote', dl_tmp')
  BY <1>1, <1>2, <1>3, <1>4, NoFlag
     DEF RunOf, FreshOf, Going, God!Ended, AtItem, Fetching, Tidying
<1>8. CleanOf(s, remote', dl_tmp', disk')
  BY <1>1, <1>2, <1>3, <1>4
     DEF RunOf, CleanOf, Hashed, Item, AtItem, Fetching, Tidying, FilesStep
<1>9. SoundOf(s)
  BY <1>1, <1>2, <1>3, <1>4
     DEF RunOf, SoundOf
<1>10. ExactOf(s, disk')
  BY <1>1, <1>2, <1>3, <1>4
     DEF RunOf, ExactOf, ToCome, Hashed, AtItem, Fetching, Tidying, FilesStep
<1>11. EndedOf(s)
  BY <1>1, <1>2, <1>3, <1>4
     DEF RunOf, EndedOf
<1> QED
  BY <1>1, <1>2, <1>3, <1>4, <1>5, <1>6, <1>7, <1>8, <1>9, <1>10, <1>11, OwnStep DEF RunOf, r

\* There is nothing to fetch, or it is not what is there.
LEMMA UnfetchedStep ==
  ASSUME GodInv, NEW i \in Runs,
         \/ run[i].pc = "get" /\ remote[run[i].team] = God!Missing
         \/ run[i].pc = "stat" /\ dl_tmp # run[i].held,
         God!Become(i, God!Unfetched(run[i])), UNCHANGED <<remote, dl_tmp, disk>>
  PROVE  GodInv'
<1> DEFINE r == run[i]
           s == God!Unfetched(run[i])
<1>1. r.pc \in {"get", "stat"} /\ Going(r) /\ run' = [run EXCEPT ![i] = s]
  BY DEF Going, God!Ended, God!Goto, God!Become
<1>2. RunOf(r, remote, dl_tmp, disk) /\ FilesInv
  BY DEF GodInv
<1>3. /\ DOMAIN s = Fields /\ s.pc = "tidyremote" /\ s.job = r.job /\ s.todo = r.todo
      /\ s.team = r.team /\ s.k = r.k /\ s.file = r.file /\ s.held = God!Missing /\ s.user = God!Missing
      /\ s.hash = God!Missing /\ s.after = "next"
      /\ s.exit = (IF r.job.op = "checkflag" /\ r.file = "bin" THEN God!FAIL ELSE r.exit)
      /\ s.seen = r.seen /\ s.disturbed = r.disturbed
  BY <1>1, <1>2 DEF RunOf, Fields, God!Unfetched, God!LeaveWith, God!Leave
<1> HIDE DEF r, s
<1>4. FilesStep(r.held) /\ UNCHANGED <<remote, dl_tmp>>
  BY <1>2 DEF FilesStep, FilesInv
<1>12. ~ r.disturbed => r.pc = "get" /\ remote[r.team] = God!Missing
  BY <1>1, <1>2 DEF RunOf, CleanOf, r
<1>5. WalkOf(s)
  BY <1>1, <1>2, <1>3, <1>4
     DEF RunOf, WalkOf, Going, God!Ended, AtItem, Fetching, Tidying
<1>6. SeenOf(s, disk')
  BY <1>1, <1>2, <1>3, <1>4
     DEF RunOf, SeenOf, FilesStep
<1>7. FreshOf(s, remote', dl_tmp')
  BY <1>1, <1>2, <1>3, <1>4, NoFlag
     DEF RunOf, FreshOf, Going, God!Ended, AtItem, Fetching, Tidying
<1>8. CleanOf(s, remote', dl_tmp', disk')
  BY <1>1, <1>2, <1>3, <1>4
     DEF RunOf, CleanOf, Hashed, Item, AtItem, Fetching, Tidying, FilesStep
<1>9. SoundOf(s)
  <2>1. s.exit \in {r.exit, God!FAIL, God!INTERR} /\ SoundOf(r)
    BY <1>2, <1>3 DEF RunOf
  <2> QED BY <1>3, <2>1, SoundKept
<1>10. ExactOf(s, disk')
  BY <1>1, <1>2, <1>3, <1>4, <1>12, UnfetchedVerdict
     DEF RunOf, ExactOf, ToCome, Hashed, AtItem, Fetching, Tidying, FilesStep
<1>11. EndedOf(s)
  BY <1>1, <1>2, <1>3, <1>4
     DEF RunOf, EndedOf
<1> QED
  BY <1>1, <1>2, <1>3, <1>4, <1>5, <1>6, <1>7, <1>8, <1>9, <1>10, <1>11, OwnStep DEF RunOf, r

\* The team's machine does not answer any more.
LEMMA UnreachedStep ==
  ASSUME GodInv, NEW i \in Runs, run[i].pc \in {"get", "write"},
         God!Become(i, [God!Unfetched(run[i]) EXCEPT !.disturbed = TRUE]), UNCHANGED <<remote, dl_tmp, disk>>
  PROVE  GodInv'
<1> DEFINE r == run[i]
           s == [God!Unfetched(run[i]) EXCEPT !.disturbed = TRUE]
<1>1. r.pc \in {"get", "write"} /\ Going(r) /\ run' = [run EXCEPT ![i] = s]
  BY DEF Going, God!Ended, God!Goto, God!Become
<1>2. RunOf(r, remote, dl_tmp, disk) /\ FilesInv
  BY DEF GodInv
<1>3. /\ DOMAIN s = Fields /\ s.pc = "tidyremote" /\ s.job = r.job /\ s.todo = r.todo
      /\ s.team = r.team /\ s.k = r.k /\ s.file = r.file /\ s.held = God!Missing /\ s.user = God!Missing
      /\ s.hash = God!Missing /\ s.after = "next"
      /\ s.exit = (IF r.job.op = "checkflag" /\ r.file = "bin" THEN God!FAIL ELSE r.exit)
      /\ s.seen = r.seen /\ s.disturbed = TRUE
  BY <1>1, <1>2 DEF RunOf, Fields, God!Unfetched, God!LeaveWith, God!Leave
<1> HIDE DEF r, s
<1>4. FilesStep(r.held) /\ UNCHANGED <<remote, dl_tmp>>
  BY <1>2 DEF FilesStep, FilesInv
<1>5. WalkOf(s)
  BY <1>1, <1>2, <1>3, <1>4
     DEF RunOf, WalkOf, Going, God!Ended, AtItem, Fetching, Tidying
<1>6. SeenOf(s, disk')
  BY <1>1, <1>2, <1>3, <1>4
     DEF RunOf, SeenOf, FilesStep
<1>7. FreshOf(s, remote', dl_tmp')
  BY <1>1, <1>2, <1>3, <1>4, NoFlag
     DEF RunOf, FreshOf, Going, God!Ended, AtItem, Fetching, Tidying
<1>8. CleanOf(s, remote', dl_tmp', disk')
  BY <1>1, <1>2, <1>3, <1>4
     DEF RunOf, CleanOf, Hashed, Item, AtItem, Fetching, Tidying, FilesStep
<1>9. SoundOf(s)
  <2>1. s.exit \in {r.exit, God!FAIL, God!INTERR} /\ SoundOf(r)
    BY <1>2, <1>3 DEF RunOf
  <2> QED BY <1>3, <2>1, SoundKept
<1>10. ExactOf(s, disk')
  BY <1>1, <1>2, <1>3, <1>4
     DEF RunOf, ExactOf, ToCome, Hashed, AtItem, Fetching, Tidying, FilesStep
<1>11. EndedOf(s)
  BY <1>1, <1>2, <1>3, <1>4
     DEF RunOf, EndedOf
<1> QED
  BY <1>1, <1>2, <1>3, <1>4, <1>5, <1>6, <1>7, <1>8, <1>9, <1>10, <1>11, OwnStep DEF RunOf, r

\* The copy is hashed.
LEMMA HashStep ==
  ASSUME GodInv, NEW i \in Runs, God!Hash(i)
  PROVE  GodInv'
<1> DEFINE r == run[i]
           s == [run[i] EXCEPT !.pc = "tidyremote", !.after = "judge", !.hash = dl_tmp]
<1>1. r.pc = "hash" /\ Going(r) /\ run' = [run EXCEPT ![i] = s]
  BY DEF Going, God!Ended, God!Goto, God!Become, God!Hash
<1>2. RunOf(r, remote, dl_tmp, disk) /\ FilesInv
  BY DEF GodInv
<1>3. /\ DOMAIN s = Fields /\ s.pc = "tidyremote" /\ s.job = r.job /\ s.todo = r.todo
      /\ s.team = r.team /\ s.k = r.k /\ s.file = r.file /\ s.held = r.held /\ s.user = r.user /\ s.hash = dl_tmp
      /\ s.after = "judge" /\ s.exit = r.exit /\ s.seen = r.seen /\ s.disturbed = r.disturbed
  BY <1>1, <1>2 DEF RunOf, Fields
<1> HIDE DEF r, s
<1>4. FilesStep(r.held) /\ UNCHANGED <<remote, dl_tmp>>
  BY <1>2 DEF God!Hash, FilesStep, FilesInv
<1>5. WalkOf(s)
  BY <1>1, <1>2, <1>3, <1>4
     DEF RunOf, WalkOf, Going, God!Ended, AtItem, Fetching, Tidying
<1>6. SeenOf(s, disk')
  BY <1>1, <1>2, <1>3, <1>4
     DEF RunOf, SeenOf, FilesStep
<1>7. FreshOf(s, remote', dl_tmp')
  BY <1>1, <1>2, <1>3, <1>4, NoFlag
     DEF RunOf, FreshOf, Going, God!Ended, AtItem, Fetching, Tidying
<1>8. CleanOf(s, remote', dl_tmp', disk')
  BY <1>1, <1>2, <1>3, <1>4
     DEF RunOf, CleanOf, Hashed, Item, AtItem, Fetching, Tidying, FilesStep
<1>9. SoundOf(s)
  BY <1>1, <1>2, <1>3, <1>4
     DEF RunOf, SoundOf
<1>10. ExactOf(s, disk')
  BY <1>1, <1>2, <1>3, <1>4
     DEF RunOf, ExactOf, ToCome, Hashed, AtItem, Fetching, Tidying, FilesStep
<1>11. EndedOf(s)
  BY <1>1, <1>2, <1>3, <1>4
     DEF RunOf, EndedOf
<1> QED
  BY <1>1, <1>2, <1>3, <1>4, <1>5, <1>6, <1>7, <1>8, <1>9, <1>10, <1>11, OwnStep DEF RunOf, r

\* Both copies are removed, and the hash is judged
LEMMA TidyRemoteStep ==
  ASSUME GodInv, NEW i \in Runs, God!TidyRemote(i)
  PROVE  GodInv'
<1> DEFINE r == run[i]
           s == [run[i] EXCEPT !.pc = "tidylocal"]
<1>1. r.pc = "tidyremote" /\ Going(r) /\ run' = [run EXCEPT ![i] = s]
  BY DEF Going, God!Ended, God!Goto, God!Become, God!TidyRemote
<1>2. RunOf(r, remote, dl_tmp, disk) /\ FilesInv
  BY DEF GodInv
<1>3. /\ DOMAIN s = Fields /\ s.pc = "tidylocal" /\ s.job = r.job /\ s.todo = r.todo
      /\ s.team = r.team /\ s.k = r.k /\ s.file = r.file /\ s.held = r.held /\ s.user = r.user /\ s.hash = r.hash
      /\ s.after = r.after /\ s.exit = r.exit /\ s.seen = r.seen /\ s.disturbed = r.disturbed
  BY <1>1, <1>2 DEF RunOf, Fields
<1> HIDE DEF r, s
<1>4. FilesStep(r.held) /\ dl_tmp' = dl_tmp
  <2>1. r.team \in Teams
    BY <1>1, <1>2 DEF RunOf, WalkOf
  <2> QED BY <1>2, <2>1 DEF God!TidyRemote, FilesStep, FilesInv, r
<1>5. WalkOf(s)
  BY <1>1, <1>2, <1>3, <1>4
     DEF RunOf, WalkOf, Going, God!Ended, AtItem, Fetching, Tidying
<1>6. SeenOf(s, disk')
  BY <1>1, <1>2, <1>3, <1>4
     DEF RunOf, SeenOf, FilesStep
<1>7. FreshOf(s, remote', dl_tmp')
  BY <1>1, <1>2, <1>3, <1>4, NoFlag
     DEF RunOf, FreshOf, Going, God!Ended, AtItem, Fetching, Tidying
<1>8. CleanOf(s, remote', dl_tmp', disk')
  BY <1>1, <1>2, <1>3, <1>4
     DEF RunOf, CleanOf, Hashed, Item, AtItem, Fetching, Tidying, FilesStep
<1>9. SoundOf(s)
  BY <1>1, <1>2, <1>3, <1>4
     DEF RunOf, SoundOf
<1>10. ExactOf(s, disk')
  BY <1>1, <1>2, <1>3, <1>4
     DEF RunOf, ExactOf, ToCome, Hashed, AtItem, Fetching, Tidying, FilesStep
<1>11. EndedOf(s)
  BY <1>1, <1>2, <1>3, <1>4
     DEF RunOf, EndedOf
<1> QED
  BY <1>1, <1>2, <1>3, <1>4, <1>5, <1>6, <1>7, <1>8, <1>9, <1>10, <1>11, OwnStep DEF RunOf, r

\* when there is one,
LEMMA TidiedStep ==
  ASSUME GodInv, NEW i \in Runs, run[i].pc = "tidylocal", run[i].after = "judge",
         God!Goto(i, "judge"), dl_tmp' = God!Missing, UNCHANGED <<remote, disk>>
  PROVE  GodInv'
<1> DEFINE r == run[i]
           s == [run[i] EXCEPT !.pc = "judge"]
<1>1. r.pc = "tidylocal" /\ Going(r) /\ run' = [run EXCEPT ![i] = s] /\ r.after = "judge"
  BY DEF Going, God!Ended, God!Goto, God!Become
<1>2. RunOf(r, remote, dl_tmp, disk) /\ FilesInv
  BY DEF GodInv
<1>3. /\ DOMAIN s = Fields /\ s.pc = "judge" /\ s.job = r.job /\ s.todo = r.todo
      /\ s.team = r.team /\ s.k = r.k /\ s.file = r.file /\ s.held = r.held /\ s.user = r.user /\ s.hash = r.hash
      /\ s.after = r.after /\ s.exit = r.exit /\ s.seen = r.seen /\ s.disturbed = r.disturbed
  BY <1>1, <1>2 DEF RunOf, Fields
<1> HIDE DEF r, s
<1>4. FilesStep(r.held)
  BY <1>2 DEF FilesStep, FilesInv
<1>5. WalkOf(s)
  BY <1>1, <1>2, <1>3, <1>4
     DEF RunOf, WalkOf, Going, God!Ended, AtItem, Fetching, Tidying
<1>6. SeenOf(s, disk')
  BY <1>1, <1>2, <1>3, <1>4
     DEF RunOf, SeenOf, FilesStep
<1>7. FreshOf(s, remote', dl_tmp')
  BY <1>1, <1>2, <1>3, <1>4, NoFlag
     DEF RunOf, FreshOf, Going, God!Ended, AtItem, Fetching, Tidying
<1>8. CleanOf(s, remote', dl_tmp', disk')
  BY <1>1, <1>2, <1>3, <1>4
     DEF RunOf, CleanOf, Hashed, Item, AtItem, Fetching, Tidying, FilesStep
<1>9. SoundOf(s)
  BY <1>1, <1>2, <1>3, <1>4
     DEF RunOf, SoundOf
<1>10. ExactOf(s, disk')
  BY <1>1, <1>2, <1>3, <1>4
     DEF RunOf, ExactOf, ToCome, Hashed, AtItem, Fetching, Tidying, FilesStep
<1>11. EndedOf(s)
  BY <1>1, <1>2, <1>3, <1>4
     DEF RunOf, EndedOf
<1> QED
  BY <1>1, <1>2, <1>3, <1>4, <1>5, <1>6, <1>7, <1>8, <1>9, <1>10, <1>11, OwnStep DEF RunOf, r

\* or else the next port is taken.
LEMMA LeftStep ==
  ASSUME GodInv, NEW i \in Runs, run[i].pc = "tidylocal", run[i].after # "judge",
         God!Become(i, God!NextPort(run[i])), dl_tmp' = God!Missing, UNCHANGED <<remote, disk>>
  PROVE  GodInv'
<1> DEFINE r == run[i]
           s == God!NextPort(run[i])
<1>1. r.pc = "tidylocal" /\ Going(r) /\ run' = [run EXCEPT ![i] = s] /\ r.after # "judge"
  BY DEF Going, God!Ended, God!Goto, God!Become
<1>2. RunOf(r, remote, dl_tmp, disk) /\ FilesInv
  BY DEF GodInv
<1>3. /\ DOMAIN s = Fields /\ s.pc = "port" /\ s.job = r.job /\ s.todo = r.todo
      /\ s.team = r.team /\ s.k = r.k + 1 /\ s.file = r.file /\ s.held = God!Missing /\ s.user = God!Missing
      /\ s.hash = God!Missing /\ s.after = r.after /\ s.exit = r.exit /\ s.seen = r.seen
      /\ s.disturbed = r.disturbed
  BY <1>1, <1>2 DEF RunOf, Fields, God!NextPort
<1> HIDE DEF r, s
<1>4. FilesStep(r.held)
  BY <1>2 DEF FilesStep, FilesInv
<1>5. WalkOf(s)
  BY <1>1, <1>2, <1>3, <1>4
     DEF RunOf, WalkOf, Going, God!Ended, AtItem, Fetching, Tidying
<1>6. SeenOf(s, disk')
  BY <1>1, <1>2, <1>3, <1>4
     DEF RunOf, SeenOf, FilesStep
<1>7. FreshOf(s, remote', dl_tmp')
  BY <1>1, <1>2, <1>3, <1>4, NoFlag
     DEF RunOf, FreshOf, Going, God!Ended, AtItem, Fetching, Tidying
<1>8. CleanOf(s, remote', dl_tmp', disk')
  BY <1>1, <1>2, <1>3, <1>4
     DEF RunOf, CleanOf, Hashed, Item, AtItem, Fetching, Tidying, FilesStep
<1>9. SoundOf(s)
  BY <1>1, <1>2, <1>3, <1>4
     DEF RunOf, SoundOf
<1>10. ExactOf(s, disk')
  BY <1>1, <1>2, <1>3, <1>4
     DEF RunOf, ExactOf, ToCome, Hashed, AtItem, Fetching, Tidying, FilesStep
<1>11. EndedOf(s)
  BY <1>1, <1>2, <1>3, <1>4
     DEF RunOf, EndedOf
<1> QED
  BY <1>1, <1>2, <1>3, <1>4, <1>5, <1>6, <1>7, <1>8, <1>9, <1>10, <1>11, OwnStep DEF RunOf, r

\* A team is entered, or does not answer.
LEMMA EnterTeamStep ==
  ASSUME GodInv, NEW i \in Runs, Ports \in Seq(PortSet),
         NEW t \in Teams, run[i].pc = "team", t \in run[i].todo,
         God!Become(i, [run[i] EXCEPT !.todo = @ \ {t}, !.team = t, !.k = 1, !.pc = "port"]),
         UNCHANGED <<remote, dl_tmp, disk>>
  PROVE  GodInv'
<1> DEFINE r == run[i]
           s == [run[i] EXCEPT !.todo = @ \ {t}, !.team = t, !.k = 1, !.pc = "port"]
<1>1. r.pc = "team" /\ Going(r) /\ run' = [run EXCEPT ![i] = s]
  BY DEF Going, God!Ended, God!Goto, God!Become
<1>2. RunOf(r, remote, dl_tmp, disk) /\ FilesInv
  BY DEF GodInv
<1>3. /\ DOMAIN s = Fields /\ s.pc = "port" /\ s.job = r.job /\ s.todo = r.todo \ {t}
      /\ s.team = t /\ s.k = 1 /\ s.file = r.file /\ s.held = r.held /\ s.user = r.user /\ s.hash = r.hash
      /\ s.after = r.after /\ s.exit = r.exit /\ s.seen = r.seen /\ s.disturbed = r.disturbed
  BY <1>1, <1>2 DEF RunOf, Fields
<1> HIDE DEF r, s
<1>4. FilesStep(r.held) /\ UNCHANGED <<remote, dl_tmp>>
  BY <1>2 DEF FilesStep, FilesInv
<1>12. t \in r.todo
  BY DEF r
<1>5. WalkOf(s)
  BY <1>1, <1>2, <1>3, <1>4, <1>12
     DEF RunOf, WalkOf, Going, God!Ended, AtItem, Fetching, Tidying
<1>6. SeenOf(s, disk')
  BY <1>1, <1>2, <1>3, <1>4
     DEF RunOf, SeenOf, FilesStep
<1>7. FreshOf(s, remote', dl_tmp')
  BY <1>1, <1>2, <1>3, <1>4, NoFlag
     DEF RunOf, FreshOf, Going, God!Ended, AtItem, Fetching, Tidying
<1>8. CleanOf(s, remote', dl_tmp', disk')
  BY <1>1, <1>2, <1>3, <1>4
     DEF RunOf, CleanOf, Hashed, Item, AtItem, Fetching, Tidying, FilesStep
<1>9. SoundOf(s)
  BY <1>1, <1>2, <1>3, <1>4
     DEF RunOf, SoundOf
<1>10. ExactOf(s, disk')
  <2>1. ASSUME NEW d, SelectedBy(r.job) = {d} PROVE ToCome(s, d) /\ ToCome(r, d)
    BY <1>1, <1>3, <1>12, <2>1, FirstPort DEF ToCome
  <2> QED BY <1>1, <1>2, <1>3, <1>4, <2>1 DEF RunOf, ExactOf, FilesStep
<1>11. EndedOf(s)
  BY <1>1, <1>2, <1>3, <1>4
     DEF RunOf, EndedOf
<1> QED
  BY <1>1, <1>2, <1>3, <1>4, <1>5, <1>6, <1>7, <1>8, <1>9, <1>10, <1>11, OwnStep DEF RunOf, r

LEMMA TeamDownStep ==
  ASSUME GodInv, NEW i \in Runs, NEW t \in Teams, run[i].pc = "team", t \in run[i].todo,
         God!Become(i, [run[i] EXCEPT !.todo = @ \ {t}, !.team = t, !.k = 1, !.exit = God!FAIL, !.disturbed = TRUE]),
         UNCHANGED <<remote, dl_tmp, disk>>
  PROVE  GodInv'
<1> DEFINE r == run[i]
           s == [run[i] EXCEPT !.todo = @ \ {t}, !.team = t, !.k = 1, !.exit = God!FAIL, !.disturbed = TRUE]
<1>1. r.pc = "team" /\ Going(r) /\ run' = [run EXCEPT ![i] = s]
  BY DEF Going, God!Ended, God!Goto, God!Become
<1>2. RunOf(r, remote, dl_tmp, disk) /\ FilesInv
  BY DEF GodInv
<1>3. /\ DOMAIN s = Fields /\ s.pc = r.pc /\ s.job = r.job /\ s.todo = r.todo \ {t}
      /\ s.team = t /\ s.k = 1 /\ s.file = r.file /\ s.held = r.held /\ s.user = r.user /\ s.hash = r.hash
      /\ s.after = r.after /\ s.exit = God!FAIL /\ s.seen = r.seen /\ s.disturbed = TRUE
  BY <1>1, <1>2 DEF RunOf, Fields
<1> HIDE DEF r, s
<1>4. FilesStep(r.held) /\ UNCHANGED <<remote, dl_tmp>>
  BY <1>2 DEF FilesStep, FilesInv
<1>5. WalkOf(s)
  BY <1>1, <1>2, <1>3, <1>4
     DEF RunOf, WalkOf, Going, God!Ended, AtItem, Fetching, Tidying
<1>6. SeenOf(s, disk')
  BY <1>1, <1>2, <1>3, <1>4
     DEF RunOf, SeenOf, FilesStep
<1>7. FreshOf(s, remote', dl_tmp')
  BY <1>1, <1>2, <1>3, <1>4, NoFlag
     DEF RunOf, FreshOf, Going, God!Ended, AtItem, Fetching, Tidying
<1>8. CleanOf(s, remote', dl_tmp', disk')
  BY <1>1, <1>2, <1>3, <1>4
     DEF RunOf, CleanOf, Hashed, Item, AtItem, Fetching, Tidying, FilesStep
<1>9. SoundOf(s)
  <2>1. s.exit \in {r.exit, God!FAIL, God!INTERR} /\ SoundOf(r)
    BY <1>2, <1>3 DEF RunOf
  <2> QED BY <1>3, <2>1, SoundKept
<1>10. ExactOf(s, disk')
  BY <1>1, <1>2, <1>3, <1>4
     DEF RunOf, ExactOf, ToCome, Hashed, AtItem, Fetching, Tidying, FilesStep
<1>11. EndedOf(s)
  BY <1>1, <1>2, <1>3, <1>4
     DEF RunOf, EndedOf
<1> QED
  BY <1>1, <1>2, <1>3, <1>4, <1>5, <1>6, <1>7, <1>8, <1>9, <1>10, <1>11, OwnStep DEF RunOf, r

\* No team is left.
LEMMA ExitStep ==
  ASSUME GodInv, NEW i \in Runs, run[i].pc = "team", run[i].todo = {},
         God!Become(i, God!Over(run[i], "ended")), UNCHANGED <<remote, dl_tmp, disk>>
  PROVE  GodInv'
<1> DEFINE r == run[i]
           s == God!Over(run[i], "ended")
<1>1. r.pc = "team" /\ Going(r) /\ run' = [run EXCEPT ![i] = s] /\ r.todo = {}
  BY DEF Going, God!Ended, God!Goto, God!Become
<1>2. RunOf(r, remote, dl_tmp, disk) /\ FilesInv
  BY DEF GodInv
<1>3. /\ DOMAIN s = Fields /\ s.pc = "ended" /\ s.job = r.job /\ s.exit = r.exit
      /\ s.seen = r.seen /\ s.disturbed = r.disturbed
  BY <1>1, <1>2 DEF RunOf, Fields, God!Over, God!NewRun
<1> HIDE DEF r, s
<1>4. FilesStep(r.held) /\ UNCHANGED <<remote, dl_tmp>>
  BY <1>2 DEF FilesStep, FilesInv
<1>5. WalkOf(s)
  BY <1>1, <1>2, <1>3, <1>4
     DEF RunOf, WalkOf, Going, God!Ended, AtItem, Fetching, Tidying
<1>6. SeenOf(s, disk')
  BY <1>1, <1>2, <1>3, <1>4
     DEF RunOf, SeenOf, FilesStep
<1>7. FreshOf(s, remote', dl_tmp')
  BY <1>1, <1>2, <1>3, <1>4, NoFlag
     DEF RunOf, FreshOf, Going, God!Ended, AtItem, Fetching, Tidying
<1>8. CleanOf(s, remote', dl_tmp', disk')
  BY <1>1, <1>2, <1>3, <1>4
     DEF RunOf, CleanOf, Hashed, Item, AtItem, Fetching, Tidying, FilesStep
<1>9. SoundOf(s)
  BY <1>1, <1>2, <1>3, <1>4
     DEF RunOf, SoundOf
<1>10. ExactOf(s, disk')
  BY <1>1, <1>2, <1>3, <1>4
     DEF RunOf, ExactOf, ToCome, Hashed, AtItem, Fetching, Tidying, FilesStep
<1>11. EndedOf(s)
  BY <1>1, <1>2, <1>3, <1>4, EndedVerdict
     DEF RunOf, EndedOf, Going, God!Ended
<1> QED
  BY <1>1, <1>2, <1>3, <1>4, <1>5, <1>6, <1>7, <1>8, <1>9, <1>10, <1>11, OwnStep DEF RunOf, r

\* The five ways through a turn of the loop over the ports.
LEMMA LastPortStep ==
  ASSUME GodInv, NEW i \in Runs, Ports \in Seq(PortSet), run[i].pc = "port", run[i].k > Len(Ports),
         God!Become(i, [run[i] EXCEPT !.pc = "team"]),
         UNCHANGED <<remote, dl_tmp, disk>>
  PROVE  GodInv'
<1> DEFINE r == run[i]
           s == [run[i] EXCEPT !.pc = "team"]
<1>1. r.pc = "port" /\ Going(r) /\ run' = [run EXCEPT ![i] = s] /\ r.k > Len(Ports)
  BY DEF Going, God!Ended, God!Goto, God!Become
<1>2. RunOf(r, remote, dl_tmp, disk) /\ FilesInv
  BY DEF GodInv
<1>3. /\ DOMAIN s = Fields /\ s.pc = "team" /\ s.job = r.job /\ s.todo = r.todo
      /\ s.team = r.team /\ s.k = r.k /\ s.file = r.file /\ s.held = r.held /\ s.user = r.user /\ s.hash = r.hash
      /\ s.after = r.after /\ s.exit = r.exit /\ s.seen = r.seen /\ s.disturbed = r.disturbed
  BY <1>1, <1>2 DEF RunOf, Fields
<1> HIDE DEF r, s
<1>4. FilesStep(r.held) /\ UNCHANGED <<remote, dl_tmp>>
  BY <1>2 DEF FilesStep, FilesInv
<1>5. WalkOf(s)
  BY <1>1, <1>2, <1>3, <1>4
     DEF RunOf, WalkOf, Going, God!Ended, AtItem, Fetching, Tidying
<1>6. SeenOf(s, disk')
  BY <1>1, <1>2, <1>3, <1>4
     DEF RunOf, SeenOf, FilesStep
<1>7. FreshOf(s, remote', dl_tmp')
  BY <1>1, <1>2, <1>3, <1>4, NoFlag
     DEF RunOf, FreshOf, Going, God!Ended, AtItem, Fetching, Tidying
<1>8. CleanOf(s, remote', dl_tmp', disk')
  BY <1>1, <1>2, <1>3, <1>4
     DEF RunOf, CleanOf, Hashed, Item, AtItem, Fetching, Tidying, FilesStep
<1>9. SoundOf(s)
  BY <1>1, <1>2, <1>3, <1>4
     DEF RunOf, SoundOf
<1>10. ExactOf(s, disk')
  <2>1. r.k \in Nat /\ r.pc \notin Fetching /\ ~ Hashed(r)
    BY <1>1, <1>2 DEF RunOf, WalkOf, Fetching, Hashed, Tidying
  <2>2. \A k \in DOMAIN Ports : ~ k >= r.k
    BY <1>1, <2>1, PortsDomain
  <2>3. \A d : ~ ToCome(r, d)
    BY <1>1, <2>1, <2>2 DEF ToCome
  <2> QED BY <1>1, <1>2, <1>3, <1>4, <2>3 DEF RunOf, ExactOf, FilesStep
<1>11. EndedOf(s)
  BY <1>1, <1>2, <1>3, <1>4
     DEF RunOf, EndedOf
<1> QED
  BY <1>1, <1>2, <1>3, <1>4, <1>5, <1>6, <1>7, <1>8, <1>9, <1>10, <1>11, OwnStep DEF RunOf, r

LEMMA SkipPortStep ==
  ASSUME GodInv, NEW i \in Runs, Ports \in Seq(PortSet),
         run[i].pc = "port", run[i].k <= Len(Ports), run[i].job.port \notin {0, Ports[run[i].k]},
         God!Become(i, God!NextPort(run[i])),
         UNCHANGED <<remote, dl_tmp, disk>>
  PROVE  GodInv'
<1> DEFINE r == run[i]
           s == God!NextPort(run[i])
<1>1. r.pc = "port" /\ Going(r) /\ run' = [run EXCEPT ![i] = s] /\ r.k <= Len(Ports) /\ r.job.port \notin {0, Ports[r.k]}
  BY DEF Going, God!Ended, God!Goto, God!Become
<1>2. RunOf(r, remote, dl_tmp, disk) /\ FilesInv
  BY DEF GodInv
<1>3. /\ DOMAIN s = Fields /\ s.pc = "port" /\ s.job = r.job /\ s.todo = r.todo
      /\ s.team = r.team /\ s.k = r.k + 1 /\ s.file = r.file /\ s.held = God!Missing /\ s.user = God!Missing
      /\ s.hash = God!Missing /\ s.after = r.after /\ s.exit = r.exit /\ s.seen = r.seen
      /\ s.disturbed = r.disturbed
  BY <1>1, <1>2 DEF RunOf, Fields, God!NextPort
<1> HIDE DEF r, s
<1>4. FilesStep(r.held) /\ UNCHANGED <<remote, dl_tmp>>
  BY <1>2 DEF FilesStep, FilesInv
<1>5. WalkOf(s)
  BY <1>1, <1>2, <1>3, <1>4, PortsDomain
     DEF RunOf, WalkOf, Going, God!Ended, AtItem, Fetching, Tidying
<1>6. SeenOf(s, disk')
  BY <1>1, <1>2, <1>3, <1>4
     DEF RunOf, SeenOf, FilesStep
<1>7. FreshOf(s, remote', dl_tmp')
  BY <1>1, <1>2, <1>3, <1>4, NoFlag
     DEF RunOf, FreshOf, Going, God!Ended, AtItem, Fetching, Tidying
<1>8. CleanOf(s, remote', dl_tmp', disk')
  BY <1>1, <1>2, <1>3, <1>4
     DEF RunOf, CleanOf, Hashed, Item, AtItem, Fetching, Tidying, FilesStep
<1>9. SoundOf(s)
  BY <1>1, <1>2, <1>3, <1>4
     DEF RunOf, SoundOf
<1>10. ExactOf(s, disk')
  <2>1. \A d \in SelectedBy(r.job) : d[2] # Ports[r.k]
    BY <1>1 DEF SelectedBy
  <2>2. r.k \in Nat /\ DOMAIN Ports \subseteq Nat
    BY <1>1, <1>2, PortsDomain DEF RunOf, WalkOf
  <2>3. ASSUME NEW d, d \in SelectedBy(r.job), ToCome(r, d) PROVE ToCome(s, d)
    BY <1>1, <1>3, <2>1, <2>2, <2>3 DEF ToCome, Hashed, Fetching, Tidying
  <2> QED BY <1>1, <1>2, <1>3, <1>4, <2>3 DEF RunOf, ExactOf, FilesStep
<1>11. EndedOf(s)
  BY <1>1, <1>2, <1>3, <1>4
     DEF RunOf, EndedOf
<1> QED
  BY <1>1, <1>2, <1>3, <1>4, <1>5, <1>6, <1>7, <1>8, <1>9, <1>10, <1>11, OwnStep DEF RunOf, r

LEMMA NoRowsStep ==
  ASSUME GodInv, NEW i \in Runs, Ports \in Seq(PortSet),
         run[i].pc = "port", run[i].k <= Len(Ports), run[i].job.port \in {0, Ports[run[i].k]},
         ~ Rows(<<run[i].team, Ports[run[i].k]>>),
         God!Become(i, [God!NextPort(run[i]) EXCEPT !.exit = God!INTERR]),
         UNCHANGED <<remote, dl_tmp, disk>>
  PROVE  GodInv'
<1> DEFINE r == run[i]
           s == [God!NextPort(run[i]) EXCEPT !.exit = God!INTERR]
<1>1. r.pc = "port" /\ Going(r) /\ run' = [run EXCEPT ![i] = s] /\ r.k <= Len(Ports) /\ r.job.port \in {0, Ports[r.k]}
      /\ ~ Rows(<<r.team, Ports[r.k]>>)
  BY DEF Going, God!Ended, God!Goto, God!Become
<1>2. RunOf(r, remote, dl_tmp, disk) /\ FilesInv
  BY DEF GodInv
<1>3. /\ DOMAIN s = Fields /\ s.pc = "port" /\ s.job = r.job /\ s.todo = r.todo
      /\ s.team = r.team /\ s.k = r.k + 1 /\ s.file = r.file /\ s.held = God!Missing /\ s.user = God!Missing
      /\ s.hash = God!Missing /\ s.after = r.after /\ s.exit = God!INTERR /\ s.seen = r.seen
      /\ s.disturbed = r.disturbed
  BY <1>1, <1>2 DEF RunOf, Fields, God!NextPort
<1> HIDE DEF r, s
<1>4. FilesStep(r.held) /\ UNCHANGED <<remote, dl_tmp>>
  BY <1>2 DEF FilesStep, FilesInv
<1>5. WalkOf(s)
  BY <1>1, <1>2, <1>3, <1>4
     DEF RunOf, WalkOf, Going, God!Ended, AtItem, Fetching, Tidying
<1>6. SeenOf(s, disk')
  BY <1>1, <1>2, <1>3, <1>4
     DEF RunOf, SeenOf, FilesStep
<1>7. FreshOf(s, remote', dl_tmp')
  BY <1>1, <1>2, <1>3, <1>4, NoFlag
     DEF RunOf, FreshOf, Going, God!Ended, AtItem, Fetching, Tidying
<1>8. CleanOf(s, remote', dl_tmp', disk')
  BY <1>1, <1>2, <1>3, <1>4
     DEF RunOf, CleanOf, Hashed, Item, AtItem, Fetching, Tidying, FilesStep
<1>9. SoundOf(s)
  <2>1. s.exit \in {r.exit, God!FAIL, God!INTERR} /\ SoundOf(r)
    BY <1>2, <1>3 DEF RunOf
  <2> QED BY <1>3, <2>1, SoundKept
<1>10. ExactOf(s, disk')
  <2>1. <<r.team, Ports[r.k]>> \in SelectedBy(r.job)
    BY <1>1, <1>2, PortsDomain DEF RunOf, WalkOf, SelectedBy, PortSet
  <2>2. ASSUME NEW d, SelectedBy(r.job) = {d} PROVE VerdictOf(r.job.op, d, disk) = God!INTERR
    BY <1>1, <2>1, <2>2 DEF VerdictOf
  <2> QED BY <1>3, <1>4, <2>2 DEF ExactOf, FilesStep
<1>11. EndedOf(s)
  BY <1>1, <1>2, <1>3, <1>4
     DEF RunOf, EndedOf
<1> QED
  BY <1>1, <1>2, <1>3, <1>4, <1>5, <1>6, <1>7, <1>8, <1>9, <1>10, <1>11, OwnStep DEF RunOf, r

LEMMA SetFlagStep ==
  ASSUME GodInv, NEW i \in Runs, Ports \in Seq(PortSet), run[i].pc = "port", run[i].job.op = "setflag",
         God!Become(i, God!NextPort(run[i])),
         UNCHANGED <<remote, dl_tmp, disk>>
  PROVE  GodInv'
<1> DEFINE r == run[i]
           s == God!NextPort(run[i])
<1>1. r.pc = "port" /\ Going(r) /\ run' = [run EXCEPT ![i] = s] /\ r.job.op = "setflag"
  BY DEF Going, God!Ended, God!Goto, God!Become
<1>2. RunOf(r, remote, dl_tmp, disk) /\ FilesInv
  BY DEF GodInv
<1>3. /\ DOMAIN s = Fields /\ s.pc = "port" /\ s.job = r.job /\ s.todo = r.todo
      /\ s.team = r.team /\ s.k = r.k + 1 /\ s.file = r.file /\ s.held = God!Missing /\ s.user = God!Missing
      /\ s.hash = God!Missing /\ s.after = r.after /\ s.exit = r.exit /\ s.seen = r.seen
      /\ s.disturbed = r.disturbed
  BY <1>1, <1>2 DEF RunOf, Fields, God!NextPort
<1> HIDE DEF r, s
<1>4. FilesStep(r.held) /\ UNCHANGED <<remote, dl_tmp>>
  BY <1>2 DEF FilesStep, FilesInv
<1>5. WalkOf(s)
  BY <1>1, <1>2, <1>3, <1>4
     DEF RunOf, WalkOf, Going, God!Ended, AtItem, Fetching, Tidying
<1>6. SeenOf(s, disk')
  BY <1>1, <1>2, <1>3, <1>4
     DEF RunOf, SeenOf, FilesStep
<1>7. FreshOf(s, remote', dl_tmp')
  BY <1>1, <1>2, <1>3, <1>4, NoFlag
     DEF RunOf, FreshOf, Going, God!Ended, AtItem, Fetching, Tidying
<1>8. CleanOf(s, remote', dl_tmp', disk')
  BY <1>1, <1>2, <1>3, <1>4
     DEF RunOf, CleanOf, Hashed, Item, AtItem, Fetching, Tidying, FilesStep
<1>9. SoundOf(s)
  BY <1>1, <1>2, <1>3, <1>4
     DEF RunOf, SoundOf
<1>10. ExactOf(s, disk')
  BY <1>1, <1>2, <1>3, <1>4
     DEF RunOf, ExactOf, ToCome, Hashed, AtItem, Fetching, Tidying, FilesStep, Checks
<1>11. EndedOf(s)
  BY <1>1, <1>2, <1>3, <1>4
     DEF RunOf, EndedOf
<1> QED
  BY <1>1, <1>2, <1>3, <1>4, <1>5, <1>6, <1>7, <1>8, <1>9, <1>10, <1>11, OwnStep DEF RunOf, r

LEMMA TakePortStep ==
  ASSUME GodInv, NEW i \in Runs, Ports \in Seq(PortSet),
         run[i].pc = "port", run[i].k <= Len(Ports), run[i].job.port \in {0, Ports[run[i].k]},
         Rows(<<run[i].team, Ports[run[i].k]>>), run[i].job.op # "setflag",
         God!Become(i, [run[i] EXCEPT !.pc = "rmlocal",
                                 !.file = IF run[i].job.op \in {"getflag", "checkflag"}
                                          THEN "flag" ELSE "bin"]),
         UNCHANGED <<remote, dl_tmp, disk>>
  PROVE  GodInv'
<1> DEFINE r == run[i]
           s == [run[i] EXCEPT !.pc = "rmlocal",
                               !.file = IF run[i].job.op \in {"getflag", "checkflag"}
                                        THEN "flag" ELSE "bin"]
<1>1. r.pc = "port" /\ Going(r) /\ run' = [run EXCEPT ![i] = s] /\ r.k <= Len(Ports) /\ r.job.port \in {0, Ports[r.k]}
      /\ Rows(<<r.team, Ports[r.k]>>) /\ r.job.op # "setflag"
  BY DEF Going, God!Ended, God!Goto, God!Become
<1>2. RunOf(r, remote, dl_tmp, disk) /\ FilesInv
  BY DEF GodInv
<1>3. /\ DOMAIN s = Fields /\ s.pc = "rmlocal" /\ s.job = r.job /\ s.todo = r.todo
      /\ s.team = r.team /\ s.k = r.k
      /\ s.file = (IF r.job.op \in {"getflag", "checkflag"} THEN "flag" ELSE "bin")
      /\ s.held = r.held /\ s.user = r.user /\ s.hash = r.hash /\ s.after = r.after /\ s.exit = r.exit
      /\ s.seen = r.seen /\ s.disturbed = r.disturbed
  BY <1>1, <1>2 DEF RunOf, Fields
<1> HIDE DEF r, s
<1>4. FilesStep(r.held) /\ UNCHANGED <<remote, dl_tmp>>
  BY <1>2 DEF FilesStep, FilesInv
<1>5. WalkOf(s)
  BY <1>1, <1>2, <1>3, <1>4, PortsDomain
     DEF RunOf, WalkOf, Going, God!Ended, AtItem, Fetching, Tidying, God!Kinds
<1>6. SeenOf(s, disk')
  BY <1>1, <1>2, <1>3, <1>4
     DEF RunOf, SeenOf, FilesStep
<1>7. FreshOf(s, remote', dl_tmp')
  BY <1>1, <1>2, <1>3, <1>4, NoFlag
     DEF RunOf, FreshOf, Going, God!Ended, AtItem, Fetching, Tidying, WalkOf
<1>8. CleanOf(s, remote', dl_tmp', disk')
  BY <1>1, <1>2, <1>3, <1>4
     DEF RunOf, CleanOf, Hashed, Item, AtItem, Fetching, Tidying, FilesStep
<1>9. SoundOf(s)
  BY <1>1, <1>2, <1>3, <1>4
     DEF RunOf, SoundOf
<1>10. ExactOf(s, disk')
  BY <1>1, <1>2, <1>3, <1>4
     DEF RunOf, ExactOf, ToCome, Hashed, AtItem, Fetching, Tidying, FilesStep
<1>11. EndedOf(s)
  BY <1>1, <1>2, <1>3, <1>4
     DEF RunOf, EndedOf
<1> QED
  BY <1>1, <1>2, <1>3, <1>4, <1>5, <1>6, <1>7, <1>8, <1>9, <1>10, <1>11, OwnStep DEF RunOf, r

\* What is made of a hash: -gh and -gf show it,
LEMMA GetHashStep ==
  ASSUME GodInv, NEW i \in Runs, run[i].pc = "judge", run[i].job.op = "gethash",
         God!Become(i, God!LeaveWith(run[i], God!SUCCESS)),
         UNCHANGED <<remote, dl_tmp, disk>>
  PROVE  GodInv'
<1> DEFINE r == run[i]
           s == God!LeaveWith(run[i], God!SUCCESS)
<1>1. r.pc = "judge" /\ Going(r) /\ run' = [run EXCEPT ![i] = s] /\ r.job.op = "gethash"
  BY DEF Going, God!Ended, God!Goto, God!Become
<1>2. RunOf(r, remote, dl_tmp, disk) /\ FilesInv
  BY DEF GodInv
<1>3. /\ DOMAIN s = Fields /\ s.pc = "tidyremote" /\ s.job = r.job /\ s.todo = r.todo
      /\ s.team = r.team /\ s.k = r.k /\ s.file = r.file /\ s.held = God!Missing /\ s.user = God!Missing
      /\ s.hash = God!Missing /\ s.after = "next" /\ s.exit = God!SUCCESS /\ s.seen = r.seen
      /\ s.disturbed = r.disturbed
  BY <1>1, <1>2 DEF RunOf, Fields, God!LeaveWith, God!Leave
<1> HIDE DEF r, s
<1>4. FilesStep(r.held) /\ UNCHANGED <<remote, dl_tmp>>
  BY <1>2 DEF FilesStep, FilesInv
<1>5. WalkOf(s)
  BY <1>1, <1>2, <1>3, <1>4
     DEF RunOf, WalkOf, Going, God!Ended, AtItem, Fetching, Tidying
<1>6. SeenOf(s, disk')
  BY <1>1, <1>2, <1>3, <1>4
     DEF RunOf, SeenOf, FilesStep
<1>7. FreshOf(s, remote', dl_tmp')
  BY <1>1, <1>2, <1>3, <1>4, NoFlag
     DEF RunOf, FreshOf, Going, God!Ended, AtItem, Fetching, Tidying
<1>8. CleanOf(s, remote', dl_tmp', disk')
  BY <1>1, <1>2, <1>3, <1>4
     DEF RunOf, CleanOf, Hashed, Item, AtItem, Fetching, Tidying, FilesStep
<1>9. SoundOf(s)
  BY <1>1, <1>2, <1>3, <1>4
     DEF RunOf, SoundOf, Checks
<1>10. ExactOf(s, disk')
  BY <1>1, <1>2, <1>3, <1>4
     DEF RunOf, ExactOf, ToCome, Hashed, AtItem, Fetching, Tidying, FilesStep, Checks
<1>11. EndedOf(s)
  BY <1>1, <1>2, <1>3, <1>4
     DEF RunOf, EndedOf
<1> QED
  BY <1>1, <1>2, <1>3, <1>4, <1>5, <1>6, <1>7, <1>8, <1>9, <1>10, <1>11, OwnStep DEF RunOf, r

LEMMA GetFlagStep ==
  ASSUME GodInv, NEW i \in Runs, run[i].pc = "judge", run[i].job.op = "getflag",
         God!Become(i, [God!NextPort(run[i]) EXCEPT !.exit = God!SUCCESS]),
         UNCHANGED <<remote, dl_tmp, disk>>
  PROVE  GodInv'
<1> DEFINE r == run[i]
           s == [God!NextPort(run[i]) EXCEPT !.exit = God!SUCCESS]
<1>1. r.pc = "judge" /\ Going(r) /\ run' = [run EXCEPT ![i] = s] /\ r.job.op = "getflag"
  BY DEF Going, God!Ended, God!Goto, God!Become
<1>2. RunOf(r, remote, dl_tmp, disk) /\ FilesInv
  BY DEF GodInv
<1>3. /\ DOMAIN s = Fields /\ s.pc = "port" /\ s.job = r.job /\ s.todo = r.todo
      /\ s.team = r.team /\ s.k = r.k + 1 /\ s.file = r.file /\ s.held = God!Missing /\ s.user = God!Missing
      /\ s.hash = God!Missing /\ s.after = r.after /\ s.exit = God!SUCCESS /\ s.seen = r.seen
      /\ s.disturbed = r.disturbed
  BY <1>1, <1>2 DEF RunOf, Fields, God!NextPort
<1> HIDE DEF r, s
<1>4. FilesStep(r.held) /\ UNCHANGED <<remote, dl_tmp>>
  BY <1>2 DEF FilesStep, FilesInv
<1>5. WalkOf(s)
  BY <1>1, <1>2, <1>3, <1>4
     DEF RunOf, WalkOf, Going, God!Ended, AtItem, Fetching, Tidying
<1>6. SeenOf(s, disk')
  BY <1>1, <1>2, <1>3, <1>4
     DEF RunOf, SeenOf, FilesStep
<1>7. FreshOf(s, remote', dl_tmp')
  BY <1>1, <1>2, <1>3, <1>4, NoFlag
     DEF RunOf, FreshOf, Going, God!Ended, AtItem, Fetching, Tidying
<1>8. CleanOf(s, remote', dl_tmp', disk')
  BY <1>1, <1>2, <1>3, <1>4
     DEF RunOf, CleanOf, Hashed, Item, AtItem, Fetching, Tidying, FilesStep
<1>9. SoundOf(s)
  BY <1>1, <1>2, <1>3, <1>4
     DEF RunOf, SoundOf, Checks
<1>10. ExactOf(s, disk')
  BY <1>1, <1>2, <1>3, <1>4
     DEF RunOf, ExactOf, ToCome, Hashed, AtItem, Fetching, Tidying, FilesStep, Checks
<1>11. EndedOf(s)
  BY <1>1, <1>2, <1>3, <1>4
     DEF RunOf, EndedOf
<1> QED
  BY <1>1, <1>2, <1>3, <1>4, <1>5, <1>6, <1>7, <1>8, <1>9, <1>10, <1>11, OwnStep DEF RunOf, r

\* -cf keeps that of the flag and takes the daemon's program, if the right one listens,
LEMMA FlagHashedStep ==
  ASSUME GodInv, NEW i \in Runs, run[i].pc = "judge", run[i].job.op = "checkflag", run[i].file = "flag",
         God!Become(i, [run[i] EXCEPT !.user = run[i].hash, !.file = "bin", !.pc = "rmlocal"]),
         UNCHANGED <<remote, dl_tmp, disk>>
  PROVE  GodInv'
<1> DEFINE r == run[i]
           s == [run[i] EXCEPT !.user = run[i].hash, !.file = "bin", !.pc = "rmlocal"]
<1>1. r.pc = "judge" /\ Going(r) /\ run' = [run EXCEPT ![i] = s] /\ r.job.op = "checkflag" /\ r.file = "flag"
  BY DEF Going, God!Ended, God!Goto, God!Become
<1>2. RunOf(r, remote, dl_tmp, disk) /\ FilesInv
  BY DEF GodInv
<1>3. /\ DOMAIN s = Fields /\ s.pc = "rmlocal" /\ s.job = r.job /\ s.todo = r.todo
      /\ s.team = r.team /\ s.k = r.k /\ s.file = "bin" /\ s.held = r.held /\ s.user = r.hash /\ s.hash = r.hash
      /\ s.after = r.after /\ s.exit = r.exit /\ s.seen = r.seen /\ s.disturbed = r.disturbed
  BY <1>1, <1>2 DEF RunOf, Fields
<1> HIDE DEF r, s
<1>4. FilesStep(r.held) /\ UNCHANGED <<remote, dl_tmp>>
  BY <1>2 DEF FilesStep, FilesInv
<1>5. WalkOf(s)
  BY <1>1, <1>2, <1>3, <1>4
     DEF RunOf, WalkOf, Going, God!Ended, AtItem, Fetching, Tidying, God!Kinds
<1>6. SeenOf(s, disk')
  BY <1>1, <1>2, <1>3, <1>4
     DEF RunOf, SeenOf, FilesStep
<1>7. FreshOf(s, remote', dl_tmp')
  BY <1>1, <1>2, <1>3, <1>4, NoFlag
     DEF RunOf, FreshOf, Going, God!Ended, AtItem, Fetching, Tidying
<1>8. CleanOf(s, remote', dl_tmp', disk')
  BY <1>1, <1>2, <1>3, <1>4
     DEF RunOf, CleanOf, Hashed, Item, AtItem, Fetching, Tidying, FilesStep
<1>9. SoundOf(s)
  BY <1>1, <1>2, <1>3, <1>4
     DEF RunOf, SoundOf
<1>10. ExactOf(s, disk')
  BY <1>1, <1>2, <1>3, <1>4
     DEF RunOf, ExactOf, ToCome, Hashed, AtItem, Fetching, Tidying, FilesStep
<1>11. EndedOf(s)
  BY <1>1, <1>2, <1>3, <1>4
     DEF RunOf, EndedOf
<1> QED
  BY <1>1, <1>2, <1>3, <1>4, <1>5, <1>6, <1>7, <1>8, <1>9, <1>10, <1>11, OwnStep DEF RunOf, r

LEMMA WrongListenerStep ==
  ASSUME GodInv, NEW i \in Runs, run[i].pc = "judge", run[i].job.op = "checkflag", run[i].file = "flag",
         God!Become(i, [God!LeaveWith([run[i] EXCEPT !.user = run[i].hash], God!FAIL) EXCEPT !.disturbed = TRUE]),
         UNCHANGED <<remote, dl_tmp, disk>>
  PROVE  GodInv'
<1> DEFINE r == run[i]
           s == [God!LeaveWith([run[i] EXCEPT !.user = run[i].hash], God!FAIL) EXCEPT !.disturbed = TRUE]
<1>1. r.pc = "judge" /\ Going(r) /\ run' = [run EXCEPT ![i] = s]
  BY DEF Going, God!Ended, God!Goto, God!Become
<1>2. RunOf(r, remote, dl_tmp, disk) /\ FilesInv
  BY DEF GodInv
<1>3. /\ DOMAIN s = Fields /\ s.pc = "tidyremote" /\ s.job = r.job /\ s.todo = r.todo
      /\ s.team = r.team /\ s.k = r.k /\ s.file = r.file /\ s.held = God!Missing /\ s.user = God!Missing
      /\ s.hash = God!Missing /\ s.after = "next" /\ s.exit = God!FAIL /\ s.seen = r.seen
      /\ s.disturbed = TRUE
  BY <1>1, <1>2 DEF RunOf, Fields, God!LeaveWith, God!Leave
<1> HIDE DEF r, s
<1>4. FilesStep(r.held) /\ UNCHANGED <<remote, dl_tmp>>
  BY <1>2 DEF FilesStep, FilesInv
<1>5. WalkOf(s)
  BY <1>1, <1>2, <1>3, <1>4
     DEF RunOf, WalkOf, Going, God!Ended, AtItem, Fetching, Tidying
<1>6. SeenOf(s, disk')
  BY <1>1, <1>2, <1>3, <1>4
     DEF RunOf, SeenOf, FilesStep
<1>7. FreshOf(s, remote', dl_tmp')
  BY <1>1, <1>2, <1>3, <1>4, NoFlag
     DEF RunOf, FreshOf, Going, God!Ended, AtItem, Fetching, Tidying
<1>8. CleanOf(s, remote', dl_tmp', disk')
  BY <1>1, <1>2, <1>3, <1>4
     DEF RunOf, CleanOf, Hashed, Item, AtItem, Fetching, Tidying, FilesStep
<1>9. SoundOf(s)
  <2>1. s.exit \in {r.exit, God!FAIL, God!INTERR} /\ SoundOf(r)
    BY <1>2, <1>3 DEF RunOf
  <2> QED BY <1>3, <2>1, SoundKept
<1>10. ExactOf(s, disk')
  BY <1>1, <1>2, <1>3, <1>4
     DEF RunOf, ExactOf, ToCome, Hashed, AtItem, Fetching, Tidying, FilesStep
<1>11. EndedOf(s)
  BY <1>1, <1>2, <1>3, <1>4
     DEF RunOf, EndedOf
<1> QED
  BY <1>1, <1>2, <1>3, <1>4, <1>5, <1>6, <1>7, <1>8, <1>9, <1>10, <1>11, OwnStep DEF RunOf, r

\* which may not answer,
LEMMA SilentDaemonStep ==
  ASSUME GodInv, NEW i \in Runs, run[i].pc = "judge", run[i].job.op = "checkflag", run[i].file = "bin",
         God!Become(i, [God!LeaveWith(run[i], God!FAIL) EXCEPT !.disturbed = TRUE]),
         UNCHANGED <<remote, dl_tmp, disk>>
  PROVE  GodInv'
<1> DEFINE r == run[i]
           s == [God!LeaveWith(run[i], God!FAIL) EXCEPT !.disturbed = TRUE]
<1>1. r.pc = "judge" /\ Going(r) /\ run' = [run EXCEPT ![i] = s]
  BY DEF Going, God!Ended, God!Goto, God!Become
<1>2. RunOf(r, remote, dl_tmp, disk) /\ FilesInv
  BY DEF GodInv
<1>3. /\ DOMAIN s = Fields /\ s.pc = "tidyremote" /\ s.job = r.job /\ s.todo = r.todo
      /\ s.team = r.team /\ s.k = r.k /\ s.file = r.file /\ s.held = God!Missing /\ s.user = God!Missing
      /\ s.hash = God!Missing /\ s.after = "next" /\ s.exit = God!FAIL /\ s.seen = r.seen
      /\ s.disturbed = TRUE
  BY <1>1, <1>2 DEF RunOf, Fields, God!LeaveWith, God!Leave
<1> HIDE DEF r, s
<1>4. FilesStep(r.held) /\ UNCHANGED <<remote, dl_tmp>>
  BY <1>2 DEF FilesStep, FilesInv
<1>5. WalkOf(s)
  BY <1>1, <1>2, <1>3, <1>4
     DEF RunOf, WalkOf, Going, God!Ended, AtItem, Fetching, Tidying
<1>6. SeenOf(s, disk')
  BY <1>1, <1>2, <1>3, <1>4
     DEF RunOf, SeenOf, FilesStep
<1>7. FreshOf(s, remote', dl_tmp')
  BY <1>1, <1>2, <1>3, <1>4, NoFlag
     DEF RunOf, FreshOf, Going, God!Ended, AtItem, Fetching, Tidying
<1>8. CleanOf(s, remote', dl_tmp', disk')
  BY <1>1, <1>2, <1>3, <1>4
     DEF RunOf, CleanOf, Hashed, Item, AtItem, Fetching, Tidying, FilesStep
<1>9. SoundOf(s)
  <2>1. s.exit \in {r.exit, God!FAIL, God!INTERR} /\ SoundOf(r)
    BY <1>2, <1>3 DEF RunOf
  <2> QED BY <1>3, <2>1, SoundKept
<1>10. ExactOf(s, disk')
  BY <1>1, <1>2, <1>3, <1>4
     DEF RunOf, ExactOf, ToCome, Hashed, AtItem, Fetching, Tidying, FilesStep
<1>11. EndedOf(s)
  BY <1>1, <1>2, <1>3, <1>4
     DEF RunOf, EndedOf
<1> QED
  BY <1>1, <1>2, <1>3, <1>4, <1>5, <1>6, <1>7, <1>8, <1>9, <1>10, <1>11, OwnStep DEF RunOf, r

\* and judges both.
LEMMA DaemonVerdictStep ==
  ASSUME GodInv, NEW i \in Runs, run[i].pc = "judge", run[i].job.op = "checkflag", run[i].file = "bin",
         God!Become(i, God!LeaveWith(run[i], IF run[i].hash = <<"bin", Ports[run[i].k]>> /\ run[i].user = Flag(run[i].team, Ports[run[i].k])
                               THEN God!SUCCESS ELSE God!FAIL)),
         UNCHANGED <<remote, dl_tmp, disk>>
  PROVE  GodInv'
<1> DEFINE r == run[i]
           s == God!LeaveWith(run[i], IF run[i].hash = <<"bin", Ports[run[i].k]>> /\ run[i].user = Flag(run[i].team, Ports[run[i].k])
                               THEN God!SUCCESS ELSE God!FAIL)
<1>1. r.pc = "judge" /\ Going(r) /\ run' = [run EXCEPT ![i] = s] /\ r.job.op = "checkflag" /\ r.file = "bin"
  BY DEF Going, God!Ended, God!Goto, God!Become
<1>2. RunOf(r, remote, dl_tmp, disk) /\ FilesInv
  BY DEF GodInv
<1>3. /\ DOMAIN s = Fields /\ s.pc = "tidyremote" /\ s.job = r.job /\ s.todo = r.todo
      /\ s.team = r.team /\ s.k = r.k /\ s.file = r.file /\ s.held = God!Missing /\ s.user = God!Missing
      /\ s.hash = God!Missing /\ s.after = "next"
      /\ s.exit = (IF r.hash = <<"bin", Ports[r.k]>> /\ r.user = Flag(r.team, Ports[r.k]) THEN God!SUCCESS ELSE God!FAIL)
      /\ s.seen = r.seen /\ s.disturbed = r.disturbed
  BY <1>1, <1>2 DEF RunOf, Fields, God!LeaveWith, God!Leave
<1> HIDE DEF r, s
<1>4. FilesStep(r.held) /\ UNCHANGED <<remote, dl_tmp>>
  BY <1>2 DEF FilesStep, FilesInv
<1>5. WalkOf(s)
  BY <1>1, <1>2, <1>3, <1>4
     DEF RunOf, WalkOf, Going, God!Ended, AtItem, Fetching, Tidying
<1>6. SeenOf(s, disk')
  BY <1>1, <1>2, <1>3, <1>4
     DEF RunOf, SeenOf, FilesStep
<1>7. FreshOf(s, remote', dl_tmp')
  BY <1>1, <1>2, <1>3, <1>4, NoFlag
     DEF RunOf, FreshOf, Going, God!Ended, AtItem, Fetching, Tidying
<1>8. CleanOf(s, remote', dl_tmp', disk')
  BY <1>1, <1>2, <1>3, <1>4
     DEF RunOf, CleanOf, Hashed, Item, AtItem, Fetching, Tidying, FilesStep
<1>9. SoundOf(s)
  <2>1. ASSUME s.exit = God!SUCCESS PROVE r.hash = <<"bin", Ports[r.k]>> /\ r.user = Flag(r.team, Ports[r.k])
    BY <1>3, <2>1 DEF God!SUCCESS, God!FAIL
  <2> QED BY <1>1, <1>2, <1>3, <2>1, DaemonVerdictSound DEF RunOf, SoundOf, Checks
<1>10. ExactOf(s, disk')
  <2> QED BY <1>1, <1>2, <1>3, <1>4, DaemonVerdictExact DEF RunOf, ExactOf, FilesStep
<1>11. EndedOf(s)
  BY <1>1, <1>2, <1>3, <1>4
     DEF RunOf, EndedOf
<1> QED
  BY <1>1, <1>2, <1>3, <1>4, <1>5, <1>6, <1>7, <1>8, <1>9, <1>10, <1>11, OwnStep DEF RunOf, r

\* -ch judges the program.
LEMMA HashVerdictStep ==
  ASSUME GodInv, NEW i \in Runs, run[i].pc = "judge", run[i].job.op = "checkhash",
         God!Become(i, God!LeaveWith(run[i], IF run[i].hash = <<"bin", Ports[run[i].k]>>
                               THEN God!SUCCESS ELSE God!FAIL)),
         UNCHANGED <<remote, dl_tmp, disk>>
  PROVE  GodInv'
<1> DEFINE r == run[i]
           s == God!LeaveWith(run[i], IF run[i].hash = <<"bin", Ports[run[i].k]>>
                               THEN God!SUCCESS ELSE God!FAIL)
<1>1. r.pc = "judge" /\ Going(r) /\ run' = [run EXCEPT ![i] = s] /\ r.job.op = "checkhash"
  BY DEF Going, God!Ended, God!Goto, God!Become
<1>2. RunOf(r, remote, dl_tmp, disk) /\ FilesInv
  BY DEF GodInv
<1>3. /\ DOMAIN s = Fields /\ s.pc = "tidyremote" /\ s.job = r.job /\ s.todo = r.todo
      /\ s.team = r.team /\ s.k = r.k /\ s.file = r.file /\ s.held = God!Missing /\ s.user = God!Missing
      /\ s.hash = God!Missing /\ s.after = "next"
      /\ s.exit = (IF r.hash = <<"bin", Ports[r.k]>> THEN God!SUCCESS ELSE God!FAIL)
      /\ s.seen = r.seen /\ s.disturbed = r.disturbed
  BY <1>1, <1>2 DEF RunOf, Fields, God!LeaveWith, God!Leave
<1> HIDE DEF r, s
<1>4. FilesStep(r.held) /\ UNCHANGED <<remote, dl_tmp>>
  BY <1>2 DEF FilesStep, FilesInv
<1>5. WalkOf(s)
  BY <1>1, <1>2, <1>3, <1>4
     DEF RunOf, WalkOf, Going, God!Ended, AtItem, Fetching, Tidying
<1>6. SeenOf(s, disk')
  BY <1>1, <1>2, <1>3, <1>4
     DEF RunOf, SeenOf, FilesStep
<1>7. FreshOf(s, remote', dl_tmp')
  BY <1>1, <1>2, <1>3, <1>4, NoFlag
     DEF RunOf, FreshOf, Going, God!Ended, AtItem, Fetching, Tidying
<1>8. CleanOf(s, remote', dl_tmp', disk')
  BY <1>1, <1>2, <1>3, <1>4
     DEF RunOf, CleanOf, Hashed, Item, AtItem, Fetching, Tidying, FilesStep
<1>9. SoundOf(s)
  <2>1. ASSUME s.exit = God!SUCCESS PROVE r.hash = <<"bin", Ports[r.k]>>
    BY <1>3, <2>1 DEF God!SUCCESS, God!FAIL
  <2> QED BY <1>1, <1>2, <1>3, <2>1, HashVerdictSound DEF RunOf, SoundOf, Checks
<1>10. ExactOf(s, disk')
  <2> QED BY <1>1, <1>2, <1>3, <1>4, HashVerdictExact DEF RunOf, ExactOf, FilesStep
<1>11. EndedOf(s)
  BY <1>1, <1>2, <1>3, <1>4
     DEF RunOf, EndedOf
<1> QED
  BY <1>1, <1>2, <1>3, <1>4, <1>5, <1>6, <1>7, <1>8, <1>9, <1>10, <1>11, OwnStep DEF RunOf, r

\* A run that is killed, or raises, leaves no verdict.
LEMMA CrashStep ==
  ASSUME GodInv, NEW i \in Runs, Going(run[i]), God!Become(i, God!Over(God!NewRun, "crashed")),
         UNCHANGED <<remote, dl_tmp, disk>>
  PROVE  GodInv'
<1> DEFINE s == God!Over(God!NewRun, "crashed")
<1>1. DOMAIN s = Fields /\ s.pc = "crashed" /\ s.exit = God!INTERR
  BY DEF God!Over, God!NewRun, Fields
<1>2. run' = [run EXCEPT ![i] = s] /\ FilesStep(run[i].held)
  BY DEF God!Become, FilesStep, GodInv, FilesInv
<1> HIDE DEF s
<1>3. ~ Going(s)
  BY <1>1 DEF Going, God!Ended
<1>4. RunOf(s, remote', dl_tmp', disk')
  <2>1. FreshOf(s, remote', dl_tmp')
    BY <1>3 DEF FreshOf
  <2>2. SoundOf(s)
    BY <1>1 DEF SoundOf, God!INTERR, God!SUCCESS
  <2> QED BY <1>1, <1>3, <2>1, <2>2 DEF RunOf, WalkOf, SeenOf, CleanOf, ExactOf, EndedOf
<1> QED BY <1>1, <1>2, <1>3, <1>4, RunStep

\* usage() ends a run with its first exit status.
LEMMA UsageStep ==
  ASSUME GodInv, NEW i \in Runs, ~ Going(run[i]), NEW job,
         NEW known, known <=> job.ip \in Teams \cup {0} /\ job.port \in PortSet \cup {0},
         God!Become(i, [God!NewRun EXCEPT !.pc = "ended", !.job = job, !.disturbed = known]),
         UNCHANGED <<remote, dl_tmp, opened, disk>>
  PROVE  GodInv'
<1> DEFINE s == [God!NewRun EXCEPT !.pc = "ended", !.job = job, !.disturbed = known]
<1>1. DOMAIN s = Fields /\ s.pc = "ended" /\ s.exit = God!INTERR /\ s.job = job /\ s.disturbed = known
  BY DEF God!NewRun, Fields
<1>2. run' = [run EXCEPT ![i] = s] /\ FilesStep(run[i].held)
  BY DEF God!Become, FilesStep, GodInv, FilesInv
<1> HIDE DEF s
<1>3. ~ Going(s)
  BY <1>1 DEF Going, God!Ended
<1>4. RunOf(s, remote', dl_tmp', disk')
  <2>1. FreshOf(s, remote', dl_tmp')
    BY <1>3 DEF FreshOf
  <2>2. SoundOf(s)
    BY <1>1 DEF SoundOf, God!INTERR, God!SUCCESS
  <2>3. ~ known => SelectedBy(job) = {}
    BY DEF SelectedBy
  <2>4. EndedOf(s)
    BY <1>1, <2>3 DEF EndedOf
  <2> QED BY <1>1, <1>3, <2>1, <2>2, <2>4 DEF RunOf, WalkOf, SeenOf, CleanOf, ExactOf
<1> QED BY <1>1, <1>2, <1>3, <1>4, RunStep

\* A run that has just started for a job.
Started(w, job) ==
  /\ DOMAIN w = Fields /\ w.pc = "team" /\ w.job = job /\ w.exit = God!INTERR
  /\ w.held = God!Missing /\ w.user = God!Missing
  /\ w.todo = (IF job.ip = 0 THEN Teams ELSE {job.ip})
  /\ God!Contents(disk) \subseteq w.seen
  /\ ~ w.disturbed => w.seen = God!Contents(disk) /\ \A j \in Runs : ~ Going(run[j])
  /\ \A j \in Runs : Going(run[j]) => w.seen = run[j].seen

\* What it leaves of the others.
OthersDisturbed(i) ==
  \A j \in Runs \ {i} : IF Going(run[j]) THEN run'[j] = [run[j] EXCEPT !.disturbed = TRUE]
                         ELSE run'[j] = [run[j] EXCEPT !.disturbed = run'[j].disturbed]
                              /\ (run'[j].disturbed <=> run[j].disturbed)

\* A run starts, and disturbs those that are there.
LEMMA WalkStep ==
  ASSUME GodInv, NEW i \in Runs, ~ Going(run[i]), NEW job, job.ip \in Teams \cup {0}, NEW w,
         Started(w, job), DOMAIN run' = Runs, run'[i] = w, OthersDisturbed(i),
         UNCHANGED <<remote, dl_tmp, disk>>
  PROVE  GodInv'
<1> USE DEF Started, OthersDisturbed
<1>2. FilesStep(God!Missing) /\ FilesInv
  BY DEF FilesStep, GodInv, FilesInv
<1>3. RunOf(w, remote', dl_tmp', disk')
  <2>1. WalkOf(w)
    BY DEF WalkOf, AtItem, Fetching, Tidying
  <2>2. FreshOf(w, remote', dl_tmp')
    BY NoFlag DEF FreshOf, AtItem, Fetching, Tidying
  <2>3. CleanOf(w, remote', dl_tmp', disk')
    BY DEF CleanOf, Fetching, Hashed, Tidying
  <2>4. SoundOf(w)
    BY DEF SoundOf, God!INTERR, God!SUCCESS
  <2>5. ASSUME NEW s, SelectedBy(job) = {s} PROVE ToCome(w, s)
    <3>1. s \in SelectedBy(job)
      BY <2>5
    <3>2. s[1] \in Teams
      BY <3>1 DEF SelectedBy
    <3> QED BY <3>2 DEF ToCome
  <2>6. ExactOf(w, disk')
    BY <2>5 DEF ExactOf
  <2>7. EndedOf(w)
    BY DEF EndedOf
  <2> QED BY <2>1, <2>2, <2>3, <2>4, <2>6, <2>7 DEF RunOf, SeenOf
<1>4. ASSUME NEW j \in Runs, j # i
      PROVE  /\ RunOf(run'[j], remote', dl_tmp', disk')
             /\ Going(run'[j]) <=> Going(run[j])
             /\ Going(run[j]) => run'[j].disturbed /\ run'[j].seen = run[j].seen
  <2>1. RunOf(run[j], remote, dl_tmp, disk)
    BY DEF GodInv
  <2>3. DOMAIN run[j] = Fields
    BY <2>1 DEF RunOf
  <2>4. CASE Going(run[j])
    <3>1. run'[j] = [run[j] EXCEPT !.disturbed = TRUE]
      BY <1>4, <2>4
    <3>2. RunOf(run'[j], remote', dl_tmp', disk')
      BY <1>2, <2>1, <3>1, NoFlag, OtherRun
    <3> QED BY <2>3, <2>4, <3>1, <3>2 DEF Going, Fields
  <2>5. CASE ~ Going(run[j])
    <3>1. /\ run'[j] = [run[j] EXCEPT !.disturbed = run'[j].disturbed]
          /\ run'[j].disturbed <=> run[j].disturbed
      BY <1>4, <2>5
    <3>4. /\ DOMAIN run'[j] = Fields /\ run'[j].pc = run[j].pc /\ run'[j].job = run[j].job
          /\ run'[j].exit = run[j].exit /\ run'[j].seen = run[j].seen
      BY <2>3, <3>1 DEF Fields
    <3>3. ~ Going(run'[j])
      BY <2>5, <3>4 DEF Going
    <3>5. SoundOf(run'[j]) /\ EndedOf(run'[j])
      BY <2>1, <3>1, <3>4 DEF RunOf, SoundOf, EndedOf
    <3>6. FreshOf(run'[j], remote', dl_tmp')
      BY <3>3 DEF FreshOf
    <3> QED BY <2>5, <3>3, <3>4, <3>5, <3>6 DEF RunOf, WalkOf, SeenOf, CleanOf, ExactOf
  <2> QED BY <2>4, <2>5
<1>5. AloneInv'
  <2>2. SUFFICES ASSUME NEW j \in Runs, NEW k \in Runs, Going(run'[j]), ~ run'[j].disturbed, Going(run'[k])
                 PROVE  j = k
    BY DEF AloneInv
  <2>3. j = i
    BY <1>4, <2>2
  <2>4. \A l \in Runs : ~ Going(run[l])
    BY <2>2, <2>3
  <2> QED BY <1>4, <2>2, <2>3, <2>4
<1>6. LinkInv'
  <2> SUFFICES ASSUME NEW j \in Runs, run'[j].pc = "write", ~ run'[j].disturbed PROVE FALSE
    BY DEF LinkInv
  <2>1. j # i /\ Going(run'[j])
    BY DEF Going, God!Ended
  <2> QED BY <1>4, <2>1
<1>7. SameInv'
  BY <1>4 DEF GodInv, SameInv
<1>8. FilesInv'
  BY <1>2, FilesAfter
<1> QED BY <1>3, <1>4, <1>5, <1>6, <1>7, <1>8 DEF GodInv

\* A file changes, and every run that is there has seen it.
LEMMA ChangeStep ==
  ASSUME GodInv, NEW item, NEW contents \in {God!Missing, God!Other}, God!Change(item, contents)
  PROVE  GodInv'
<1>1. /\ disk' = [disk EXCEPT ![item] = contents] /\ UNCHANGED <<remote, dl_tmp>>
      /\ run' = [i \in Runs |-> IF Going(run[i])
                   THEN [run[i] EXCEPT !.disturbed = TRUE, !.seen = @ \cup God!Contents(disk')]
                   ELSE run[i]]
  BY DEF God!Change, God!Running, Going
<1>2. FilesInv'
  <2>1. FilesInv
    BY DEF GodInv
  <2>2. DOMAIN disk' = God!Items /\ \A other \in God!Items : disk'[other] \in {disk[other], contents}
    BY <1>1, <2>1 DEF FilesInv
  <2> QED BY <1>1, <2>1, <2>2 DEF FilesInv
<1>3. ASSUME NEW i \in Runs
      PROVE  /\ RunOf(run'[i], remote', dl_tmp', disk')
             /\ Going(run'[i]) => /\ run'[i].disturbed /\ Going(run[i])
                                 /\ run'[i].seen = run[i].seen \cup God!Contents(disk')
  <2> DEFINE r == run[i]
             s == run'[i]
  <2>1. RunOf(r, remote, dl_tmp, disk)
    BY DEF GodInv
  <2>2. CASE Going(r)
    <3>1. /\ DOMAIN s = Fields /\ s.pc = r.pc /\ s.job = r.job /\ s.todo = r.todo /\ s.team = r.team
          /\ s.k = r.k /\ s.file = r.file /\ s.held = r.held /\ s.user = r.user /\ s.hash = r.hash /\ s.after = r.after
          /\ s.exit = r.exit /\ s.seen = r.seen \cup God!Contents(disk') /\ s.disturbed = TRUE
      BY <1>1, <2>1, <2>2 DEF RunOf, Fields
    <3> HIDE DEF r, s
    <3>2. WalkOf(s) /\ SeenOf(s, disk')
      BY <2>1, <3>1 DEF RunOf, WalkOf, SeenOf, Going
    <3>3. FreshOf(s, remote', dl_tmp')
      <4>1. \A c : SeenFlag(r.seen, c) => SeenFlag(s.seen, c)
        BY <3>1, SeenMore
      <4>2. FreshOf(r, remote, dl_tmp) /\ UNCHANGED <<remote, dl_tmp>>
        BY <1>1, <2>1 DEF RunOf
      <4> QED BY <2>2, <3>1, <4>1, <4>2 DEF FreshOf
    <3>4. CleanOf(s, remote', dl_tmp', disk') /\ ExactOf(s, disk') /\ EndedOf(s)
      BY <3>1 DEF CleanOf, ExactOf, EndedOf
    <3>5. SoundOf(s)
      BY <2>1, <3>1 DEF RunOf, SoundOf
    <3> QED BY <2>2, <3>1, <3>2, <3>3, <3>4, <3>5 DEF RunOf, r, s
  <2>3. CASE ~ Going(r)
    <3>1. s = r
      BY <1>1, <2>3
    <3> QED BY <1>1, <2>1, <2>3, <3>1 DEF RunOf, WalkOf, SeenOf, FreshOf, CleanOf, ExactOf,
              Going, God!Ended, AtItem, Fetching, Tidying
  <2> QED BY <2>2, <2>3
<1>4. AloneInv' /\ LinkInv'
  BY <1>3 DEF AloneInv, LinkInv, Going, God!Ended
<1>5. SameInv'
  <2> SUFFICES ASSUME NEW i \in Runs, NEW j \in Runs, Going(run'[i]), Going(run'[j])
               PROVE  run'[i].seen = run'[j].seen
    BY DEF SameInv
  <2>1. run[i].seen = run[j].seen
    BY <1>3 DEF GodInv, SameInv
  <2> QED BY <1>3, <2>1
<1> QED BY <1>1, <1>2, <1>3, <1>4, <1>5 DEF GodInv

\* Every step of a run.
LEMMA StepInv ==
  ASSUME GodInv, Ports \in Seq(PortSet), NEW i \in Runs, God!Step(i)
  PROVE  GodInv'
<1>1. ASSUME NEW job \in Jobs[i], God!Start(i, job) PROVE GodInv'
  <2> DEFINE known == job.ip \in Teams \cup {0} /\ job.port \in {Ports[k] : k \in DOMAIN Ports} \cup {0}
             others == {j \in Runs : God!Running(j)}
             w == [God!NewRun EXCEPT !.pc = "team", !.job = job,
                                     !.seen = God!Contents(disk) \cup UNION {run[j].seen : j \in others},
                                     !.todo = IF job.ip = 0 THEN Teams ELSE {job.ip},
                                     !.disturbed = others # {}]
  <2>1. ~ Going(run[i]) /\ UNCHANGED <<remote, dl_tmp, opened, disk>>
    BY <1>1 DEF God!Start, Going, God!Ended
  <2>2. others = {j \in Runs : Going(run[j])}
    BY DEF God!Running, Going
  <2>3. \/ known /\ run' = [j \in Runs |-> IF j = i THEN w
                                          ELSE [run[j] EXCEPT !.disturbed = @ \/ j \in others]]
        \/ God!Become(i, [God!NewRun EXCEPT !.pc = "ended", !.job = job, !.disturbed = known])
    BY <1>1 DEF God!Start
  <2>4. known <=> job.ip \in Teams \cup {0} /\ job.port \in PortSet \cup {0}
    BY DEF PortSet
  <2> HIDE DEF known, others
  <2>5. CASE God!Become(i, [God!NewRun EXCEPT !.pc = "ended", !.job = job, !.disturbed = known])
    BY <2>1, <2>4, <2>5, UsageStep
  <2>6. CASE known /\ run' = [j \in Runs |-> IF j = i THEN w
                                            ELSE [run[j] EXCEPT !.disturbed = @ \/ j \in others]]
    <3>1. job.ip \in Teams \cup {0} /\ UNCHANGED <<remote, dl_tmp, disk>>
      BY <2>1, <2>4, <2>6
    <3>10. w.seen = God!Contents(disk) \cup UNION {run[j].seen : j \in others}
      BY DEF God!NewRun
    <3>2. /\ DOMAIN w = Fields /\ w.pc = "team" /\ w.job = job
          /\ w.exit = God!INTERR /\ w.held = God!Missing /\ w.user = God!Missing
          /\ w.todo = (IF job.ip = 0 THEN Teams ELSE {job.ip})
      BY DEF God!NewRun, Fields
    <3>3. w.disturbed = (others # {})
      BY DEF God!NewRun
    <3>4. ~ w.disturbed => \A j \in Runs : ~ Going(run[j])
      BY <2>2, <3>3
    <3>5. DOMAIN run' = Runs /\ run'[i] = w
      BY <2>6
    <3>6. ASSUME NEW j \in Runs \ {i}
          PROVE  IF Going(run[j]) THEN run'[j] = [run[j] EXCEPT !.disturbed = TRUE]
                 ELSE /\ run'[j] = [run[j] EXCEPT !.disturbed = run'[j].disturbed]
                      /\ run'[j].disturbed <=> run[j].disturbed
      <4>1. run'[j] = [run[j] EXCEPT !.disturbed = run[j].disturbed \/ j \in others]
        BY <2>6
      <4>2. "disturbed" \in DOMAIN run[j]
        BY DEF GodInv, RunOf, Fields
      <4>3. run'[j].disturbed = (run[j].disturbed \/ j \in others)
        BY <4>1, <4>2
      <4>4. run'[j] = [run[j] EXCEPT !.disturbed = run'[j].disturbed]
        BY <4>1, <4>3
      <4>5. CASE j \in others
        <5>1. (run[j].disturbed \/ j \in others) = TRUE
          BY <4>5
        <5>2. run'[j] = [run[j] EXCEPT !.disturbed = TRUE]
          BY <4>1, <5>1
        <5> QED BY <2>2, <4>5, <5>2
      <4>6. CASE j \notin others
        <5>1. ~ Going(run[j])
          BY <2>2, <4>6
        <5>2. run'[j].disturbed <=> run[j].disturbed
          BY <4>3, <4>6
        <5> QED BY <4>4, <5>1, <5>2
      <4> QED BY <4>5, <4>6
    <3> HIDE DEF w
    <3>7. ~ w.disturbed => w.seen = God!Contents(disk)
      BY <3>3, <3>10
    <3>8. ASSUME NEW j \in Runs, Going(run[j]) PROVE w.seen = run[j].seen
      <4>1. \A k \in others : run[k].seen = run[j].seen
        BY <2>2, <3>8 DEF GodInv, SameInv
      <4>2. j \in others /\ God!Contents(disk) \subseteq run[j].seen
        BY <2>2, <3>8 DEF GodInv, RunOf, SeenOf
      <4> QED BY <3>10, <4>1, <4>2
    <3>9. God!Contents(disk) \subseteq w.seen
      BY <3>10
    <3>11. OthersDisturbed(i)
      BY <3>6, Zenon DEF OthersDisturbed
    <3>12. Started(w, job)
      BY <3>2, <3>4, <3>7, <3>8, <3>9, Zenon DEF Started
    <3> QED BY <2>1, <3>1, <3>5, <3>11, <3>12, WalkStep
  <2> QED BY <2>3, <2>5, <2>6
<1>2. ASSUME NEW t \in Teams, God!EnterTeam(i, t) PROVE GodInv'
  BY <1>2, EnterTeamStep, TeamDownStep DEF God!EnterTeam
<1>3. CASE God!Exit(i)
  BY <1>3, ExitStep DEF God!Exit
<1>4. CASE God!EnterPort(i)
  <2>0. run[i].pc = "port" /\ UNCHANGED <<remote, dl_tmp, disk>>
    BY <1>4 DEF God!EnterPort
  <2>4. run[i].k \in Nat /\ Len(Ports) \in Nat
    BY <2>0, PortsDomain DEF GodInv, RunOf, WalkOf, Going, God!Ended
  <2>1. CASE run[i].k > Len(Ports)
    <3>1. God!Become(i, [run[i] EXCEPT !.pc = "team"])
      BY <1>4, <2>1, <2>4 DEF God!EnterPort
    <3> QED BY <2>0, <2>1, <3>1, LastPortStep
  <2>2. CASE run[i].k <= Len(Ports) /\ run[i].job.port \notin {0, Ports[run[i].k]}
    <3>1. God!Become(i, God!NextPort(run[i]))
      BY <1>4, <2>2, <2>4 DEF God!EnterPort, God!Port
    <3> QED BY <2>0, <2>2, <3>1, SkipPortStep
  <2>3. CASE run[i].k <= Len(Ports) /\ run[i].job.port \in {0, Ports[run[i].k]}
    <3> DEFINE rows == Ports[run[i].k] \in DaemonInfo /\ <<run[i].team, Ports[run[i].k]>> \in FlagRows
    <3>1. rows <=> Rows(<<run[i].team, Ports[run[i].k]>>)
      BY DEF Rows
    <3>2. CASE ~ rows
      <4>1. God!Become(i, [God!NextPort(run[i]) EXCEPT !.exit = God!INTERR])
        BY <1>4, <2>3, <2>4, <3>2 DEF God!EnterPort, God!Port
      <4> QED BY <2>0, <2>3, <3>1, <3>2, <4>1, NoRowsStep
    <3>3. CASE rows /\ run[i].job.op = "setflag"
      <4>1. God!Become(i, God!NextPort(run[i]))
        BY <1>4, <2>3, <2>4, <3>3 DEF God!EnterPort, God!Port
      <4> QED BY <2>0, <2>3, <3>3, <4>1, SetFlagStep
    <3>4. CASE rows /\ run[i].job.op # "setflag"
      <4>1. God!Become(i, [run[i] EXCEPT !.pc = "rmlocal",
                             !.file = IF run[i].job.op \in {"getflag", "checkflag"} THEN "flag" ELSE "bin"])
        BY <1>4, <2>3, <2>4, <3>4 DEF God!EnterPort, God!Port
      <4> QED BY <2>0, <2>3, <3>1, <3>4, <4>1, TakePortStep
    <3> QED BY <3>2, <3>3, <3>4
  <2> QED BY <2>1, <2>2, <2>3, <2>4
<1>5. CASE God!Download(i)
  BY <1>5, DownloadedStep, UnfetchedStep, UnreachedStep DEF God!Download
<1>13. CASE God!WriteLocal(i)
  BY <1>13, WrittenStep, UnreachedStep DEF God!WriteLocal
<1>14. CASE God!CheckSize(i)
  BY <1>14, CheckedStep, UnfetchedStep DEF God!CheckSize
<1>6. CASE God!TidyLocal(i)
  <2>1. CASE run[i].after = "judge"
    BY <1>6, <2>1, TidiedStep DEF God!TidyLocal
  <2>2. CASE run[i].after # "judge"
    BY <1>6, <2>2, LeftStep DEF God!TidyLocal
  <2> QED BY <2>1, <2>2
<1>7. CASE God!JudgeGet(i)
  <2>1. CASE run[i].job.op = "gethash"
    BY <1>7, <2>1, GetHashStep DEF God!JudgeGet
  <2>2. CASE run[i].job.op = "getflag"
    BY <1>7, <2>2, GetFlagStep DEF God!JudgeGet
  <2> QED BY <1>7, <2>1, <2>2 DEF God!JudgeGet
<1>8. CASE God!JudgeFlag(i)
  <2>1. run[i].pc = "judge" /\ run[i].job.op = "checkflag" /\ run[i].file = "flag"
        /\ UNCHANGED <<remote, dl_tmp, disk>>
    BY <1>8 DEF God!JudgeFlag
  <2>2. CASE God!Become(i, [[run[i] EXCEPT !.user = run[i].hash] EXCEPT !.file = "bin", !.pc = "rmlocal"])
    <3>1. DOMAIN run[i] = Fields
      BY DEF GodInv, RunOf
    <3>2. [[run[i] EXCEPT !.user = run[i].hash] EXCEPT !.file = "bin", !.pc = "rmlocal"]
          = [run[i] EXCEPT !.user = run[i].hash, !.file = "bin", !.pc = "rmlocal"]
      BY <3>1
    <3> QED BY <2>1, <2>2, <3>2, FlagHashedStep
  <2>3. CASE God!Become(i, [God!LeaveWith([run[i] EXCEPT !.user = run[i].hash], God!FAIL)
                              EXCEPT !.disturbed = TRUE])
    BY <2>1, <2>3, WrongListenerStep
  <2> QED BY <1>8, <2>2, <2>3 DEF God!JudgeFlag
<1>9. CASE God!JudgeDaemon(i)
  <2>1. run[i].pc = "judge" /\ run[i].job.op = "checkflag" /\ run[i].file = "bin"
        /\ UNCHANGED <<remote, dl_tmp, disk>>
    BY <1>9 DEF God!JudgeDaemon
  <2>2. CASE God!Become(i, [God!LeaveWith(run[i], God!FAIL) EXCEPT !.disturbed = TRUE])
    BY <2>1, <2>2, SilentDaemonStep
  <2>3. CASE God!Become(i, God!LeaveWith(run[i], IF God!HashOk(i) /\ God!FlagOk(i)
                                                  THEN God!SUCCESS ELSE God!FAIL))
    <3>1. God!HashOk(i) <=> run[i].hash = <<"bin", Ports[run[i].k]>>
      BY DEF God!HashOk, God!Expected, God!Port
    <3>2. God!FlagOk(i) <=> run[i].user = Flag(run[i].team, Ports[run[i].k])
      BY DEF God!FlagOk, God!Expected, God!Port, Flag
    <3>3. God!Become(i, God!LeaveWith(run[i], IF run[i].hash = <<"bin", Ports[run[i].k]>>
                                                 /\ run[i].user = Flag(run[i].team, Ports[run[i].k])
                                              THEN God!SUCCESS ELSE God!FAIL))
      BY <2>3, <3>1, <3>2
    <3> QED BY <2>1, <3>3, DaemonVerdictStep
  <2> QED BY <1>9, <2>2, <2>3 DEF God!JudgeDaemon
<1>10. CASE God!JudgeHash(i)
  <2>1. God!HashOk(i) <=> run[i].hash = <<"bin", Ports[run[i].k]>>
    BY DEF God!HashOk, God!Expected, God!Port
  <2>2. God!Become(i, God!LeaveWith(run[i], IF run[i].hash = <<"bin", Ports[run[i].k]>>
                                            THEN God!SUCCESS ELSE God!FAIL))
    BY <1>10, <2>1 DEF God!JudgeHash
  <2> QED BY <1>10, <2>2, HashVerdictStep DEF God!JudgeHash
<1>11. CASE God!NoChecksum(i)
  BY <1>11, CrashStep DEF God!NoChecksum, Going, God!Ended
<1>12. CASE God!Crash(i)
  BY <1>12, CrashStep DEF God!Crash, God!Running, Going
<1> QED
  BY <1>1, <1>2, <1>3, <1>4, <1>5, <1>6, <1>7, <1>8, <1>9, <1>10, <1>11, <1>12, <1>13, <1>14,
     RemoveLocalStep, RemoveRemoteStep, CopyRemoteStep, WriteRemoteStep, OpenLocalStep, HashStep, TidyRemoteStep DEF God!Step

\* At first no run is there, and all files are in place.
LEMMA GodInit ==
  ASSUME God!Init
  PROVE  GodInv
<1>1. ASSUME NEW i \in Runs PROVE RunOf(run[i], remote, dl_tmp, disk) /\ ~ Going(run[i])
  <2>1. DOMAIN run[i] = Fields /\ run[i].pc = "new" /\ run[i].exit = God!INTERR
    BY DEF God!Init, God!NewRun, Fields
  <2>2. ~ Going(run[i])
    BY <2>1 DEF Going, God!Ended
  <2>3. FreshOf(run[i], remote, dl_tmp)
    BY <2>2 DEF FreshOf
  <2>4. SoundOf(run[i])
    BY <2>1 DEF SoundOf, God!INTERR, God!SUCCESS
  <2> QED BY <2>1, <2>2, <2>3, <2>4 DEF RunOf, WalkOf, SeenOf, CleanOf, ExactOf, EndedOf
<1>2. FilesInv
  BY DEF God!Init, FilesInv
<1>3. LinkInv
  BY DEF LinkInv, God!Init, God!NewRun
<1> QED BY <1>1, <1>2, <1>3 DEF GodInv, AloneInv, SameInv, God!Init

\* The invariant of god.py in the program that holds all the small programs.
LEMMA GodInvariant ==
  ASSUME Ports \in Seq(PortSet)
  PROVE  MCSpec => []GodInv
<1>1. MCInit => GodInv
  BY GodInit DEF MCInit
<1>2. GodInv /\ [MCNext]_<<program, vars, godVars, befungeVars, serialVars, lookupVars>> => GodInv'
  <2> SUFFICES ASSUME GodInv, [MCNext]_<<program, vars, godVars, befungeVars, serialVars, lookupVars>>
               PROVE  GodInv'
    OBVIOUS
  <2>1. CASE UNCHANGED godVars
    BY <2>1 DEF godVars, GodInv, FilesInv, AloneInv, LinkInv, SameInv
  <2>2. CASE program = "god.py" /\ God!Next
    BY <2>2, StepInv, ChangeStep DEF God!Next
  <2> QED BY <2>1, <2>2 DEF MCNext
<1> QED BY <1>1, <1>2, PTL DEF MCSpec

\* A flag check of god.py ends with status 0 only when a flag was as it should be since runs are
\* there without a break, whatever these read and write late in the two dl_tmp files and what
\* dead runs have left in them; undisturbed, only when the daemon's program was right too.
THEOREM VerdictIsSound ==
  ASSUME Ports \in Seq(PortSet)
  PROVE  MCSpec => []VerdictSound
<1>1. ASSUME GodInv PROVE VerdictSound
  <2> SUFFICES ASSUME NEW i \in Runs, run[i].pc = "ended", run[i].exit = God!SUCCESS
               PROVE  /\ run[i].job.op # "setflag"
                      /\ run[i].job.op = "checkflag" => \E s \in God!Selected(i) : God!Intact(i, s, "flag")
                      /\ run[i].job.op \in {"checkflag", "checkhash"} /\ ~run[i].disturbed =>
                           \E s \in God!Selected(i) : God!Intact(i, s, "bin")
    BY DEF VerdictSound, God!VerdictSound
  <2>1. SoundOf(run[i]) /\ God!Selected(i) = SelectedBy(run[i].job)
    BY <1>1 DEF GodInv, RunOf, God!Selected, SelectedBy, PortSet
  <2>2. \A s : /\ God!Intact(i, s, "flag") <=> <<<<s[1], s[2], "flag">>, Flag(s[1], s[2])>> \in run[i].seen
               /\ God!Intact(i, s, "bin") <=> <<<<s[1], s[2], "bin">>, <<"bin", s[2]>>>> \in run[i].seen
    BY DEF God!Intact, God!Was, God!Expected, Flag
  <2> QED BY <2>1, <2>2 DEF SoundOf, Checks
<1> QED BY <1>1, GodInvariant, PTL

\* An undisturbed check of one daemon exits with 0 exactly when its files are as the database says
\* and with -2 exactly when there is no row or no first file, whatever earlier runs have left.
THEOREM VerdictIsExact ==
  ASSUME Ports \in Seq(PortSet)
  PROVE  MCSpec => []VerdictExact
<1>1. ASSUME GodInv, NEW i \in Runs, NEW s \in God!Selected(i), run[i].pc = "ended", ~ run[i].disturbed,
             run[i].job.op \in Checks, God!Selected(i) = {s}
      PROVE  LET kind == FirstKind(run[i].job.op)
             IN /\ run[i].exit = God!SUCCESS <=>
                     Rows(s) /\ God!Intact(i, s, kind) /\ God!Intact(i, s, "bin")
                /\ run[i].exit = God!INTERR <=> ~ Rows(s) \/ God!Was(i, s, kind, God!Missing)
  <2>1. EndedOf(run[i]) /\ God!Selected(i) = SelectedBy(run[i].job)
    BY <1>1 DEF GodInv, RunOf, God!Selected, SelectedBy, PortSet
  <2>2. \A kind, contents :
          God!Was(i, s, kind, contents) <=> <<<<s[1], s[2], kind>>, contents>> \in run[i].seen
    BY DEF God!Was
  <2>3. \A kind : God!Intact(i, s, kind) <=> God!Was(i, s, kind, God!Expected(s[1], s[2], kind))
    BY DEF God!Intact
  <2> QED BY <1>1, <2>1, <2>2, <2>3 DEF EndedOf
<1>2. GodInv => VerdictExact
  <2> SUFFICES ASSUME GodInv, NEW i \in Runs, NEW s \in God!Selected(i), run[i].pc = "ended",
                      ~ run[i].disturbed, run[i].job.op \in Checks, God!Selected(i) = {s}
               PROVE  LET kind == IF run[i].job.op = "checkflag" THEN "flag" ELSE "bin"
                          rows == s[2] \in DaemonInfo /\ s \in FlagRows
                      IN /\ run[i].exit = God!SUCCESS <=>
                              rows /\ God!Intact(i, s, kind) /\ God!Intact(i, s, "bin")
                         /\ run[i].exit = God!INTERR <=> ~ rows \/ God!Was(i, s, kind, God!Missing)
    BY DEF VerdictExact, God!VerdictExact, Checks
  <2> QED BY <1>1 DEF FirstKind, Rows
<1> QED BY <1>2, GodInvariant, PTL

-----------------------------------------------------------------------------
(* The serial of ctf_bin5, in both editions.                               *)
Word16 == 0 .. 65535
WordsOfText == [0 .. 9 -> Word16]

\* All that ValidateSerial asks of the words, but for the division by zero and the time stamps.
AllRight(w) == Ser!EarlyRight(w) /\ w[2] # 0 /\ Ser!ThirdRight(w) /\ Ser!LateRight(w)

\* A number without a divisor up to its square root is prime.
LEMMA PrimeByRoot ==
  ASSUME NEW n \in Nat, NEW s \in Nat, n < (s + 1) * (s + 1), \A q \in 2 .. s : n % q # 0
  PROVE  Ser!is_prime(n)
<1> SUFFICES ASSUME NEW p \in 2 .. n - 1, n % p = 0 PROVE FALSE
  BY DEF Ser!is_prime
<1> DEFINE q == n \div p
<1>1. q \in Nat /\ n = p * q
  OBVIOUS
<1> HIDE DEF q
<1>2. p > s
  OBVIOUS
<1>3. q <= s
  <2> SUFFICES ASSUME q >= s + 1 PROVE FALSE
    BY <1>1
  <2>1. p * q >= (s + 1) * q
    BY <1>1, <1>2
  <2>2. (s + 1) * q >= (s + 1) * (s + 1)
    BY <1>1
  <2>3. p * q \in Int /\ (s + 1) * q \in Int /\ (s + 1) * (s + 1) \in Int
    BY <1>1
  <2> QED BY <1>1, <2>1, <2>2, <2>3
<1>4. q # 0 /\ q # 1
  BY <1>1
<1>5. n % q = 0
  <2>1. (q * p) % q = 0
    BY <1>1, <1>4
  <2> QED BY <1>1, <2>1
<1>6. q \in 2 .. s
  BY <1>1, <1>3, <1>4
<1> QED BY <1>5, <1>6

\* is_evilPrime leaves 81 words.
LEMMA DigitsOf ==
  ASSUME NEW w \in Word16
  PROVE  /\ Ser!is_evilPrime(w) => \E a, b, c, d \in {5, 7, 8} : w = a + 16 * b + 256 * c + 4096 * d
         /\ (/\ w % 16 \in {5, 7, 8} /\ (w \div 16) % 16 \in {5, 7, 8}
             /\ (w \div 256) % 16 \in {5, 7, 8} /\ (w \div 4096) % 16 \in {5, 7, 8}) => Ser!is_evilPrime(w)
<1> DEFINE a == w % 16
           b == (w \div 16) % 16
           c == (w \div 256) % 16
           d == (w \div 4096) % 16
<1>1. 16 ^ 0 = 1 /\ 16 ^ 1 = 16 /\ 16 ^ 2 = 256 /\ 16 ^ 3 = 4096 /\ w \div 1 = w
  BY SMTT(60) DEF Word16
<1>2. Ser!is_evilPrime(w) <=> a \in {5, 7, 8} /\ b \in {5, 7, 8} /\ c \in {5, 7, 8} /\ d \in {5, 7, 8}
  <2>1. \A i \in 0 .. 3 : i = 0 \/ i = 1 \/ i = 2 \/ i = 3
    OBVIOUS
  <2>2. 0 \in 0 .. 3 /\ 1 \in 0 .. 3 /\ 2 \in 0 .. 3 /\ 3 \in 0 .. 3
    OBVIOUS
  <2> QED BY <1>1, <2>1, <2>2 DEF Ser!is_evilPrime
<1>3. w = a + 16 * (w \div 16) /\ w \div 16 = b + 16 * (w \div 256)
  BY SMTT(60) DEF Word16
<1>4. w \div 256 = c + 16 * (w \div 4096)
  BY SMTT(60) DEF Word16
<1>7. w \div 4096 = d
  <2>1. w \div 4096 \in 0 .. 15
    BY DEF Word16
  <2> QED BY <2>1
<1>5. w \div 16 \in Int /\ w \div 256 \in Int /\ a \in Int /\ b \in Int /\ c \in Int /\ d \in Int
  BY SMTT(60) DEF Word16
<1>6. w = a + 16 * b + 256 * c + 4096 * d
  BY <1>3, <1>4, <1>5, <1>7 DEF Word16
<1> HIDE DEF a, b, c, d
<1> QED BY <1>2, <1>6 DEF a, b, c, d

\* The one seventh word of each edition.
LEMMA SeventhWord ==
  ASSUME NEW w \in WordsOfText
  PROVE  /\ edition = "hitb2009" => (Ser!SeventhRight(w) <=> w[7] = 30853)
         /\ edition = "wargames2011" => (Ser!SeventhRight(w) <=> w[7] = 34693)
<1> DEFINE n == w[7]
<1>1. n \in Word16
  BY DEF WordsOfText
<1>2. Ser!is_prime(30853) /\ Ser!is_prime(34693)
  <2>1. ASSUME NEW n1 \in Nat, n1 = 30853, NEW s \in Nat, s = 175 PROVE Ser!is_prime(n1)
    <3>1. n1 < (s + 1) * (s + 1) /\ \A q \in 2 .. s : n1 % q # 0
      BY <2>1, SMTT(60)
    <3> QED BY <3>1, PrimeByRoot
  <2>2. ASSUME NEW n2 \in Nat, n2 = 34693, NEW s \in Nat, s = 186 PROVE Ser!is_prime(n2)
    <3>1. n2 < (s + 1) * (s + 1) /\ \A q \in 2 .. s : n2 % q # 0
      BY <2>2, SMTT(60)
    <3> QED BY <3>1, PrimeByRoot
  <2> QED BY <2>1, <2>2
<1>3. ~ Ser!is_prime(22615) /\ ~ Ser!is_prime(30040)
  <2>1. 22615 % 5 = 0 /\ 5 \in 2 .. 22615 - 1 /\ 30040 % 2 = 0 /\ 2 \in 2 .. 30040 - 1
    OBVIOUS
  <2> QED BY <2>1 DEF Ser!is_prime
<1>4. Ser!is_evilPrime(30853) /\ Ser!is_evilPrime(34693)
  <2>1. 30853 \in Word16 /\ 34693 \in Word16
    BY DEF Word16
  <2>2. /\ 30853 % 16 = 5 /\ (30853 \div 16) % 16 = 8 /\ (30853 \div 256) % 16 = 8 /\ (30853 \div 4096) % 16 = 7
        /\ 34693 % 16 = 5 /\ (34693 \div 16) % 16 = 8 /\ (34693 \div 256) % 16 = 7 /\ (34693 \div 4096) % 16 = 8
    OBVIOUS
  <2> QED BY <2>1, <2>2, DigitsOf
<1>5. ASSUME Ser!is_evilPrime(n), n % 3 = 1
      PROVE  /\ n % 99 = 64 => n = 30853
             /\ n % 99 = 43 => n \in {34693, 22615, 30040}
  <2>1. PICK a, b, c, d \in {5, 7, 8} : n = a + 16 * b + 256 * c + 4096 * d
    BY <1>1, <1>5, DigitsOf
  <2> HIDE DEF n
  <2>2. CASE d = 5
    BY <1>5, <2>1, <2>2
  <2>3. CASE d = 7
    BY <1>5, <2>1, <2>3
  <2>4. CASE d = 8
    BY <1>5, <2>1, <2>4
  <2> QED BY <2>2, <2>3, <2>4
<1>6. 30853 % 3 = 1 /\ 30853 % 99 = 64 /\ 34693 % 3 = 1 /\ 34693 % 99 = 43
  OBVIOUS
<1> HIDE DEF n
<1>7. Ser!SeventhRight(w) <=> /\ n % 3 = 1 /\ n % 99 = (IF edition = "hitb2009" THEN 64 ELSE 43)
                              /\ Ser!is_evilPrime(n) /\ Ser!is_prime(n)
  BY DEF Ser!SeventhRight, n
<1>8. CASE edition = "hitb2009"
  BY <1>2, <1>4, <1>5, <1>6, <1>7, <1>8 DEF n
<1>9. CASE edition = "wargames2011"
  BY <1>2, <1>3, <1>4, <1>5, <1>6, <1>7, <1>9 DEF n
<1> QED BY <1>8, <1>9

LEMMA WordsAreInts ==
  ASSUME NEW w \in WordsOfText
  PROVE  /\ w[0] \in Nat /\ w[1] \in Nat /\ w[2] \in Nat /\ w[3] \in Nat /\ w[4] \in Nat
         /\ w[6] \in Nat /\ w[8] \in Nat /\ w[9] \in Nat
<1>1. \A i \in 0 .. 9 : w[i] \in Word16
  BY DEF WordsOfText
<1>2. \A x \in Word16 : x \in Nat
  BY SMTT(60) DEF Word16
<1>3. \A i \in {0, 1, 2, 3, 4, 6, 8, 9} : i \in 0 .. 9
  OBVIOUS
<1>4. \A i \in {0, 1, 2, 3, 4, 6, 8, 9} : w[i] \in Nat
  BY <1>1, <1>2, <1>3
<1> HIDE DEF WordsOfText
<1> QED BY ONLY <1>4

\* Negative differences, masked.
LEMMA LowNegative == \A x \in Int : -65536 <= x /\ x < 0 => Ser!Low(x) = x + 65536
  BY DEF Ser!Low

\* The fifth word from its quotient and remainder.
LEMMA FifthWord ==
  ASSUME NEW w \in WordsOfText
  PROVE  /\ edition = "hitb2009" => (Ser!FifthRight(w) <=> w[5] = 4919)
         /\ edition = "wargames2011" => (Ser!FifthRight(w) <=> w[5] = 57005)
<1>1. \A x \in Word16 : x \div 401 = 12 /\ x % 401 = 107 <=> x = 4919
  BY DEF Word16
<1>2. \A x \in Word16 : x \div 401 = 142 /\ x % 401 = 63 <=> x = 57005
  BY DEF Word16
<1>3. w[5] \in Word16
  BY DEF WordsOfText
<1> QED BY <1>1, <1>2, <1>3 DEF Ser!FifthRight

\* The checks of HITB 2009 leave one serial.
LEMMA FirstSerial ==
  ASSUME NEW w \in WordsOfText, edition = "hitb2009"
  PROVE  AllRight(w) <=> \A i \in 1 .. 7 : w[i] = Ser!Serial[i]
<1>1. /\ Ser!Serial[1] = 35772 /\ Ser!Serial[2] = 26564 /\ Ser!Serial[3] = 5549 /\ Ser!Serial[4] = 51868
      /\ Ser!Serial[5] = 4919 /\ Ser!Serial[6] = 25934 /\ Ser!Serial[7] = 30853
  BY DEF Ser!Serial, Ser!GenerateSerial, Ser!Low
<1>2. \A i \in 1 .. 7 : i = 1 \/ i = 2 \/ i = 3 \/ i = 4 \/ i = 5 \/ i = 6 \/ i = 7
  OBVIOUS
<1>3. (\A i \in 1 .. 7 : w[i] = Ser!Serial[i]) <=>
        /\ w[1] = 35772 /\ w[2] = 26564 /\ w[3] = 5549 /\ w[4] = 51868 /\ w[5] = 4919
        /\ w[6] = 25934 /\ w[7] = 30853
  BY <1>1, <1>2
<1>4. w[1] \in Nat /\ w[2] \in Nat /\ w[3] \in Nat /\ w[4] \in Nat /\ w[6] \in Nat
  BY WordsAreInts
<1>5. AllRight(w) <=> /\ w[5] = 4919 /\ w[7] = 30853 /\ w[2] # 0
                      /\ w[7] - (w[4] % w[2]) = w[3] /\ w[6] + w[5] * 2 = w[1]
                      /\ (65535 - w[1]) - 3199 = w[2] /\ w[7] - w[5] = w[6] /\ (w[7] - w[5]) + w[6] = w[4]
  BY FifthWord, SeventhWord DEF AllRight, Ser!EarlyRight, Ser!ThirdRight, Ser!LateRight, Ser!SixthRight
<1>6. AllRight(w) <=> /\ w[5] = 4919 /\ w[7] = 30853 /\ w[6] = 25934 /\ w[1] = 35772 /\ w[2] = 26564
                      /\ w[4] = 51868 /\ w[7] - (w[4] % w[2]) = w[3]
  BY <1>4, <1>5
<1>7. 51868 % 26564 = 25304
  OBVIOUS
<1>8. AllRight(w) <=> /\ w[5] = 4919 /\ w[7] = 30853 /\ w[6] = 25934 /\ w[1] = 35772 /\ w[2] = 26564
                      /\ w[4] = 51868 /\ w[3] = 5549
  BY <1>4, <1>6, <1>7
<1> QED
  BY <1>3, <1>8

\* The checks of wargames.my 2011 leave one serial.
LEMMA SecondSerial ==
  ASSUME NEW w \in WordsOfText, edition = "wargames2011"
  PROVE  AllRight(w) <=> \A i \in 0 .. 9 : w[i] = Ser!Serial[i]
<1>0. Ser!LowProduct(57005, 13781) = 5873
  <2>1. 57005 \div 256 = 222 /\ 57005 % 256 = 173
    OBVIOUS
  <2>2. 222 * 13781 % 256 = 182
    OBVIOUS
  <2>3. Ser!LowProduct(57005, 13781) = (182 * 256 + 173 * 13781) % 65536
    BY <2>1, <2>2 DEF Ser!LowProduct, Ser!Low
  <2> QED BY <2>2, <2>3
<1>1. Ser!Serial = [i \in 0 .. 9 |-> IF i = 0 THEN 35644 ELSE
                      <<26162, 36174, 13781, 20912, 57005, 43224, 34693, 409, 35235>>[i]]
  <2>1. Ser!Low(34693 - 57005) = 43224
    BY LowNegative
  <2>2. Ser!Low(43224 + 57005 * 2) = 26162
    BY DEF Ser!Low
  <2>3. Ser!Low((65535 - 26162) - 3199) = 36174
    BY DEF Ser!Low
  <2>4. Ser!Low((34693 - 57005) + 43224) = 20912
    BY DEF Ser!Low
  <2>5. Ser!Low(34693 - (20912 % 36174)) = 13781
    BY DEF Ser!Low
  <2>8. Ser!Low(5873 - 36174) = 35235
    BY LowNegative
  <2>6. 35235 \div 86 = 409 /\ Ser!Low(409 + 35235) = 35644
    BY DEF Ser!Low
  <2>7. Ser!Serial = Ser!GenerateSerial(57005, 34693)
    BY DEF Ser!Serial
  <2> QED BY <1>0, <2>1, <2>2, <2>3, <2>4, <2>5, <2>6, <2>7, <2>8 DEF Ser!GenerateSerial
<1>2. \A i \in 0 .. 9 : i = 0 \/ i = 1 \/ i = 2 \/ i = 3 \/ i = 4 \/ i = 5 \/ i = 6 \/ i = 7 \/ i = 8 \/ i = 9
  OBVIOUS
<1>3. /\ Ser!Serial[0] = 35644 /\ Ser!Serial[1] = 26162 /\ Ser!Serial[2] = 36174 /\ Ser!Serial[3] = 13781
      /\ Ser!Serial[4] = 20912 /\ Ser!Serial[5] = 57005 /\ Ser!Serial[6] = 43224 /\ Ser!Serial[7] = 34693
      /\ Ser!Serial[8] = 409 /\ Ser!Serial[9] = 35235
  BY <1>1
<1>4. (\A i \in 0 .. 9 : w[i] = Ser!Serial[i]) <=>
        /\ w[0] = 35644 /\ w[1] = 26162 /\ w[2] = 36174 /\ w[3] = 13781 /\ w[4] = 20912
        /\ w[5] = 57005 /\ w[6] = 43224 /\ w[7] = 34693 /\ w[8] = 409 /\ w[9] = 35235
  BY <1>2, <1>3
<1>5. AllRight(w) <=>
        /\ w[5] = 57005 /\ w[7] = 34693 /\ w[2] # 0
        /\ Ser!Low(w[7] - w[5]) = w[6] /\ Ser!Low(w[6] + w[5] * 2) = w[1]
        /\ (65535 - w[1]) - 3199 = w[2] /\ (w[7] - w[5]) + w[6] = w[4] /\ w[7] - (w[4] % w[2]) = w[3]
        /\ Ser!Low(Ser!LowProduct(w[5], w[3]) - w[2]) = w[9] /\ w[9] \div 86 = w[8]
        /\ Ser!Low(w[8] + w[9]) = w[0]
  BY FifthWord, SeventhWord DEF AllRight, Ser!EarlyRight, Ser!ThirdRight, Ser!LateRight, Ser!SixthRight
<1>6. /\ Ser!Low(34693 - 57005) = 43224 /\ Ser!Low(43224 + 57005 * 2) = 26162
      /\ (65535 - 26162) - 3199 = 36174 /\ (34693 - 57005) + 43224 = 20912
      /\ 34693 - (20912 % 36174) = 13781 /\ Ser!Low(5873 - 36174) = 35235
      /\ 35235 \div 86 = 409 /\ Ser!Low(409 + 35235) = 35644
  <2>1. Ser!Low(34693 - 57005) = 43224 /\ Ser!Low(5873 - 36174) = 35235
    BY LowNegative
  <2>2. /\ Ser!Low(43224 + 57005 * 2) = 26162 /\ (65535 - 26162) - 3199 = 36174
        /\ Ser!Low(409 + 35235) = 35644
    BY DEF Ser!Low
  <2>3. (34693 - 57005) + 43224 = 20912 /\ 34693 - (20912 % 36174) = 13781 /\ 35235 \div 86 = 409
    OBVIOUS
  <2> QED BY <2>1, <2>2, <2>3
<1>7. AllRight(w) <=>
        /\ w[5] = 57005 /\ w[7] = 34693 /\ w[6] = 43224 /\ w[1] = 26162 /\ w[2] = 36174
        /\ w[4] = 20912 /\ w[3] = 13781 /\ w[9] = 35235 /\ w[8] = 409 /\ w[0] = 35644
  BY <1>0, <1>5, <1>6
<1> QED BY <1>4, <1>7

\* ctf_bin5 accepts, of all texts there are, the serial of its edition, and no verdict is about
\* another text than the last one judged; but for the slow time stamps of the later edition.
THEOREM OnlyTheSerialThm ==
  ASSUME \A t \in Texts : t.w \in WordsOfText
  PROVE  MCSpec => []OnlyTheSerial
<1> DEFINE Inv == edition \in Ser!Editions /\ OnlyTheSerial
<1> USE DEF Ser!Showing
<1>1. MCInit => Inv
  BY DEF MCInit, Ser!SerialInit, Ser!Editions, Ser!Empty, OnlyTheSerial, Ser!OnlyTheSerial
<1>2. ASSUME Inv, MCNext \/ UNCHANGED serialVars PROVE Inv'
  <2>1. CASE UNCHANGED serialVars
    BY <1>2, <2>1 DEF serialVars, OnlyTheSerial, Ser!OnlyTheSerial, Ser!Serial
  <2>2. CASE Ser!Button \/ Ser!Confirm \/ Ser!Close \/ Ser!ToggleDebugger
    BY <1>2, <2>2 DEF OnlyTheSerial, Ser!OnlyTheSerial, Ser!Serial, Ser!Button, Ser!Confirm, Ser!Close,
       Ser!ToggleDebugger
  <2>3. CASE Ser!EditText
    <3>1. edition' = edition /\ Ser!Serial' = Ser!Serial
      BY <2>3 DEF Ser!EditText, Ser!Serial
    <3>2. CASE UNCHANGED <<process, bValidSerial, judged, slow>>
      BY <1>2, <3>1, <3>2 DEF OnlyTheSerial, Ser!OnlyTheSerial
    <3>3. CASE judged' = text' /\ Ser!ValidateSerial(text')
      <4> DEFINE w == text'.w
                 right == IF edition = "hitb2009" THEN \A i \in 1 .. 7 : w[i] = Ser!Serial[i]
                          ELSE \A i \in 0 .. 9 : w[i] = Ser!Serial[i]
      <4>1. w \in WordsOfText
        BY <2>3 DEF Ser!EditText
      <4>2. AllRight(w) <=> right
        BY <1>2, <4>1, FirstSerial, SecondSerial DEF Ser!Editions
      <4>3. process' = "runs" =>
              (bValidSerial' <=> slow' \/ (text'.form = "full" /\ AllRight(w)))
        BY <3>3 DEF Ser!ValidateSerial, Ser!Rejects, Ser!DividesByZero, Ser!SlowAccepts, Ser!Decides, AllRight
      <4>4. right <=> \A i \in IF edition = "hitb2009" THEN 1 .. 7 ELSE 0 .. 9 : w[i] = Ser!Serial[i]
        OBVIOUS
      <4> HIDE DEF right
      <4> QED BY <1>2, <3>1, <3>3, <4>2, <4>3, <4>4 DEF OnlyTheSerial, Ser!OnlyTheSerial
    <3> QED BY <2>3, <3>2, <3>3 DEF Ser!EditText
  <2> QED BY <1>2, <2>1, <2>2, <2>3 DEF MCNext, Ser!SerialNext
<1>3. Inv => OnlyTheSerial
  OBVIOUS
<1>4. UNCHANGED <<program, vars, godVars, befungeVars, serialVars, lookupVars>> => UNCHANGED serialVars
  OBVIOUS
<1> QED BY <1>1, <1>2, <1>3, <1>4, PTL DEF MCSpec

-----------------------------------------------------------------------------
(* The moves of Befunge.                                                   *)

Programs == Seq(Seq(STRING))

\* Max and Min of the community modules are what they are called, on sets of line numbers.
LEMMA MinIsLeast ==
  ASSUME NEW K, K \subseteq Nat, K # {}
  PROVE  Bef!Min(K) \in K /\ \A k \in K : Bef!Min(K) <= k
<1>1. \E x \in K : \A y \in K : x <= y
  BY NatMin
<1> QED BY <1>1 DEF Bef!Min

LEMMA MaxIsLargest ==
  ASSUME NEW n \in Nat, NEW K, K \subseteq 0 .. n, K # {}
  PROVE  Bef!Max(K) \in K /\ \A k \in K : k <= Bef!Max(K)
<1> DEFINE T == {n - k : k \in K}
<1>1. T \subseteq Nat /\ T # {}
  <2>1. \A k \in K : k \in Int /\ n - k \in Nat
    OBVIOUS
  <2> QED BY <2>1
<1>2. PICK t \in T : \A y \in T : t <= y
  <2> HIDE DEF T
  <2> QED BY <1>1, NatMin
<1>3. PICK x \in K : t = n - x
  OBVIOUS
<1>4. ASSUME NEW y \in K PROVE x >= y
  <2>1. n - y \in T /\ x \in 0 .. n /\ y \in 0 .. n
    OBVIOUS
  <2>2. n - x <= n - y
    BY <1>2, <1>3, <2>1
  <2> QED BY <2>1, <2>2
<1>5. \E z \in K : \A y \in K : z >= y
  BY <1>4
<1>6. Bef!Max(K) \in K /\ \A y \in K : Bef!Max(K) >= y
  BY <1>5 DEF Bef!Max
<1>7. \A y \in K : y \in 0 .. n
  OBVIOUS
<1> QED BY <1>6, <1>7

\* A step over a border is a step modulo the length.
LEMMA Around ==
  ASSUME NEW n \in Nat \ {0}
  PROVE  /\ \A i \in Int : 0 <= i /\ i < n => i % n = i
         /\ \A i \in Int : n <= i /\ i < n + n => i % n = i - n
         /\ \A i \in Int : -n <= i /\ i < 0 => i % n = i + n
  OBVIOUS

\* What the lines and the line at hand are.
LEMMA Cell ==
  ASSUME opcode_matrix \in Programs, Bef!IsCell(cur_pos)
  PROVE  /\ Len(opcode_matrix) \in Nat \ {0}
         /\ cur_pos.y \in 0 .. Len(opcode_matrix) - 1
         /\ cur_pos.x \in 0 .. Len(Bef!Line(cur_pos.y)) - 1
         /\ \A y \in 0 .. Len(opcode_matrix) - 1 : Len(Bef!Line(y)) \in Nat
<1>1. cur_pos.y \in 0 .. Len(opcode_matrix) - 1 /\ cur_pos.x \in 0 .. Len(Bef!Line(cur_pos.y)) - 1
  BY DEF Bef!IsCell, Bef!Lines
<1>2. Len(opcode_matrix) \in Nat /\ \A i \in 1 .. Len(opcode_matrix) : opcode_matrix[i] \in Seq(STRING)
  BY DEF Programs
<1>3. ASSUME NEW y \in 0 .. Len(opcode_matrix) - 1 PROVE Len(Bef!Line(y)) \in Nat
  <2>1. y + 1 \in 1 .. Len(opcode_matrix)
    BY <1>2
  <2> QED BY <1>2, <2>1 DEF Bef!Line
<1> QED BY <1>1, <1>2, <1>3

\* The columns.
LEMMA AcrossOnTorus ==
  ASSUME opcode_matrix \in Programs, Bef!IsCell(cur_pos), NEW dir \in {">", "<"}
  PROVE  ~ Bef!OverTheEdge(cur_pos, dir) /\ Bef!VMNextDirection(cur_pos, dir) = Bef!Torus(cur_pos, dir)
<1> DEFINE x == cur_pos.x
           n == Len(Bef!Line(cur_pos.y))
<1>1. n \in Nat \ {0} /\ x \in 0 .. n - 1
  BY Cell
<1> HIDE DEF x, n
<1>2. (x + 1) % n = (IF x + 1 >= n THEN 0 ELSE x + 1)
  <2>1. CASE x + 1 = n
    BY <1>1, <2>1, Around
  <2>2. CASE x + 1 < n
    BY <1>1, <2>2, Around
  <2> QED BY <1>1, <2>1, <2>2
<1>3. (x - 1) % n = (IF 0 > x - 1 THEN n - 1 ELSE x - 1)
  <2>1. CASE x = 0
    BY <1>1, <2>1, Around
  <2>2. CASE x > 0
    <3>1. x - 1 \in Int /\ 0 <= x - 1 /\ x - 1 < n /\ ~ (0 > x - 1)
      BY <1>1, <2>2
    <3>2. (x - 1) % n = x - 1
      BY <1>1, <3>1, Around
    <3> QED BY <3>1, <3>2
  <2> QED BY <1>1, <2>1, <2>2
<1>4. CASE dir = ">"
  BY <1>2, <1>4 DEF x, n, Bef!OverTheEdge, Bef!VMNextDirection, Bef!Torus, Bef!Right
<1>5. CASE dir = "<"
  BY <1>3, <1>5 DEF x, n, Bef!OverTheEdge, Bef!VMNextDirection, Bef!Torus, Bef!Left
<1> QED BY <1>4, <1>5

\* The lines reach column x, upwards.
LEMMA UpOnTorus ==
  ASSUME opcode_matrix \in Programs, Bef!IsCell(cur_pos)
  PROVE  IF Bef!OverTheEdge(cur_pos, "^") THEN ~ Bef!IsCell(Bef!Up(cur_pos))
         ELSE Bef!Up(cur_pos) = Bef!Torus(cur_pos, "^")
<1> DEFINE x == cur_pos.x
           y == cur_pos.y
           n == Len(opcode_matrix)
           Long(l) == x < Len(Bef!Line(l))
           above == {l \in 0 .. n - 1 : l < y /\ Long(l)}
           K == {k \in 1 .. n : Long((y + (-1) * k) % n)}
           d == Bef!Min(K)
<1>1. n \in Nat \ {0} /\ y \in 0 .. n - 1 /\ Long(y)
  BY Cell
<1>2. /\ Bef!Distance(cur_pos, -1) = d
      /\ Bef!Up(cur_pos) = IF above = {} THEN Bef!At(-1, -1) ELSE Bef!At(x, Bef!Max(above))
  BY DEF Bef!Distance, Bef!Up, Bef!Number, Bef!Lines
<1>3. /\ Bef!OverTheEdge(cur_pos, "^") <=> y - d < 0
      /\ Bef!Torus(cur_pos, "^") = Bef!At(x, (y - d) % n)
  BY <1>2 DEF Bef!OverTheEdge, Bef!Torus
<1> HIDE DEF x, y, n, Long
<1>4. \A k \in 1 .. n : (y + (-1) * k) % n = IF k <= y THEN y - k ELSE y - k + n
  <2> SUFFICES ASSUME NEW k \in 1 .. n PROVE (y + (-1) * k) % n = IF k <= y THEN y - k ELSE y - k + n
    OBVIOUS
  <2>1. y + (-1) * k = y - k /\ y - k \in Int
    BY <1>1
  <2>2. CASE k <= y
    <3>1. 0 <= y - k /\ y - k < n
      BY <1>1, <2>2
    <3> QED BY <1>1, <2>1, <2>2, <3>1, Around
  <2>3. CASE ~ (k <= y)
    <3> DEFINE i == y - k
    <3>1. i \in Int /\ -n <= i /\ i < 0
      BY <1>1, <2>1, <2>3
    <3> HIDE DEF i
    <3>2. i % n = i + n
      BY <1>1, <3>1, Around
    <3> QED BY <1>1, <2>1, <2>3, <3>2 DEF i
  <2> QED BY <2>2, <2>3
<1>5. n \in K /\ K \subseteq Nat
  <2>1. n \in 1 .. n /\ ~ (n <= y) /\ y - n + n = y
    BY <1>1
  <2>2. (y + (-1) * n) % n = y
    BY <1>4, <2>1
  <2> QED BY <1>1, <2>1, <2>2
<1>6. d \in K /\ \A k \in K : d <= k
  <2> HIDE DEF K
  <2> QED BY <1>5, MinIsLeast
<1>7. d \in 1 .. n /\ Long((y + (-1) * d) % n)
  BY <1>6
<1>8. CASE above = {}
  <2>1. ~ (d <= y)
    <3> SUFFICES ASSUME d <= y PROVE FALSE
      OBVIOUS
    <3>1. Long(y - d)
      BY <1>4, <1>7
    <3>2. y - d \in 0 .. n - 1 /\ y - d < y
      BY <1>1, <1>7
    <3>3. y - d \in above
      BY <3>1, <3>2
    <3> QED BY <1>8, <3>3
  <2>2. ~ Bef!IsCell(Bef!At(-1, -1))
    BY <1>1 DEF Bef!IsCell, Bef!At, Bef!Lines, n
  <2>3. y - d < 0
    BY <1>1, <1>7, <2>1
  <2> QED BY <1>2, <1>3, <1>8, <2>2, <2>3
<1>9. CASE above # {}
  <2> DEFINE m == Bef!Max(above)
  <2>1. m \in above /\ \A l \in above : l <= m
    <3>1. n - 1 \in Nat /\ above \subseteq 0 .. n - 1
      BY <1>1
    <3> HIDE DEF above
    <3> QED BY <1>9, <3>1, MaxIsLargest
  <2>2. m \in 0 .. n - 1 /\ m < y /\ Long(m)
    BY <2>1
  <2> HIDE DEF m, d
  <2>3. y - m \in 1 .. n /\ y - m <= y /\ y - (y - m) = m
    BY <1>1, <2>2
  <2>4. y - m \in K
    <3>1. (y + (-1) * (y - m)) % n = m
      BY <1>4, <2>3
    <3> QED BY <2>2, <2>3, <3>1
  <2>5. d <= y - m
    BY <1>6, <2>4
  <2>6. d <= y /\ y - d \in 0 .. n - 1 /\ y - d < y
    BY <1>1, <1>7, <2>2, <2>5
  <2>7. Long(y - d)
    BY <1>4, <1>7, <2>6
  <2>8. y - d \in above
    BY <2>6, <2>7
  <2>9. y - d <= m
    BY <2>1, <2>8
  <2>10. y - d = m
    BY <1>1, <1>7, <2>2, <2>5, <2>9
  <2>11. ~ (y - d < 0) /\ (y - d) % n = m
    <3>1. m \in Int /\ 0 <= m /\ m < n /\ ~ (m < 0)
      BY <1>1, <2>2
    <3>2. m % n = m
      BY <1>1, <3>1, Around
    <3> QED BY <2>10, <3>1, <3>2
  <2> QED BY <1>2, <1>3, <1>9, <2>11 DEF m
<1> QED BY <1>8, <1>9

\* The lines reach column x, downwards.
LEMMA DownOnTorus ==
  ASSUME opcode_matrix \in Programs, Bef!IsCell(cur_pos)
  PROVE  IF Bef!OverTheEdge(cur_pos, "v") THEN ~ Bef!IsCell(Bef!Down(cur_pos))
         ELSE Bef!Down(cur_pos) = Bef!Torus(cur_pos, "v")
<1> DEFINE x == cur_pos.x
           y == cur_pos.y
           n == Len(opcode_matrix)
           Long(l) == x < Len(Bef!Line(l))
           below == {l \in 0 .. n - 1 : l > y /\ Long(l)}
           K == {k \in 1 .. n : Long((y + 1 * k) % n)}
           d == Bef!Min(K)
<1>1. n \in Nat \ {0} /\ y \in 0 .. n - 1 /\ Long(y) /\ x \in Nat /\ Len(Bef!Line(0)) \in Nat
  BY Cell
<1>2. /\ Bef!Distance(cur_pos, 1) = d
      /\ Bef!Down(cur_pos) = Bef!At(x, IF below = {} THEN 0 ELSE Bef!Min(below))
  BY DEF Bef!Distance, Bef!Down, Bef!Lines
<1>3. /\ Bef!OverTheEdge(cur_pos, "v") <=> y + d >= n /\ x >= Len(Bef!Line(0))
      /\ Bef!Torus(cur_pos, "v") = Bef!At(x, (y + d) % n)
  BY <1>2 DEF Bef!OverTheEdge, Bef!Torus
<1>10. x >= Len(Bef!Line(0)) <=> ~ Long(0)
  BY <1>1
<1>11. ~ Long(0) => ~ Bef!IsCell(Bef!At(x, 0))
  BY <1>1 DEF Bef!IsCell, Bef!At
<1> HIDE DEF x, y, n, Long
<1>4. \A k \in 1 .. n : (y + 1 * k) % n = IF y + k < n THEN y + k ELSE y + k - n
  <2> SUFFICES ASSUME NEW k \in 1 .. n PROVE (y + 1 * k) % n = IF y + k < n THEN y + k ELSE y + k - n
    OBVIOUS
  <2>1. y + 1 * k = y + k /\ y + k \in Int /\ 0 <= y + k /\ y + k < n + n
    BY <1>1
  <2>2. CASE y + k < n
    BY <1>1, <2>1, <2>2, Around
  <2>3. CASE ~ (y + k < n)
    <3> DEFINE i == y + k
    <3>1. i \in Int /\ n <= i /\ i < n + n
      BY <1>1, <2>1, <2>3
    <3> HIDE DEF i
    <3>2. i % n = i - n
      BY <1>1, <3>1, Around
    <3> QED BY <1>1, <2>1, <2>3, <3>2 DEF i
  <2> QED BY <2>2, <2>3
<1>5. n \in K /\ K \subseteq Nat
  <2>1. n \in 1 .. n /\ ~ (y + n < n) /\ y + n - n = y
    BY <1>1
  <2>2. (y + 1 * n) % n = y
    BY <1>4, <2>1
  <2> QED BY <1>1, <2>1, <2>2
<1>6. d \in K /\ \A k \in K : d <= k
  <2> HIDE DEF K
  <2> QED BY <1>5, MinIsLeast
<1>7. d \in 1 .. n /\ Long((y + 1 * d) % n)
  BY <1>6
<1>8. CASE below = {}
  <2> HIDE DEF d
  <2>1. ~ (y + d < n)
    <3> SUFFICES ASSUME y + d < n PROVE FALSE
      OBVIOUS
    <3>1. Long(y + d)
      BY <1>4, <1>7
    <3>2. y + d \in 0 .. n - 1 /\ y + d > y
      BY <1>1, <1>7
    <3>3. y + d \in below
      BY <3>1, <3>2
    <3> QED BY <1>8, <3>3
  <2>2. CASE ~ Long(0)
    <3>1. y + d >= n
      BY <1>1, <1>7, <2>1
    <3> QED BY <1>2, <1>3, <1>8, <1>10, <1>11, <2>2, <3>1
  <2>3. CASE Long(0)
    <3>1. n - y \in 1 .. n /\ ~ (y + (n - y) < n) /\ y + (n - y) - n = 0
      BY <1>1
    <3>2. (y + 1 * (n - y)) % n = 0
      BY <1>4, <3>1
    <3>3. n - y \in K
      BY <2>3, <3>1, <3>2
    <3>4. d <= n - y
      BY <1>6, <3>3
    <3>5. y + d = n
      BY <1>1, <1>7, <2>1, <3>4
    <3>6. (y + d) % n = 0
      BY <1>1, <3>5, Around
    <3> QED BY <1>2, <1>3, <1>8, <1>10, <2>3, <3>6
  <2> QED BY <2>2, <2>3
<1>9. CASE below # {}
  <2> DEFINE m == Bef!Min(below)
  <2>1. m \in below /\ \A l \in below : m <= l
    <3>1. below \subseteq Nat
      BY <1>1
    <3> HIDE DEF below
    <3> QED BY <1>9, <3>1, MinIsLeast
  <2>2. m \in 0 .. n - 1 /\ m > y /\ Long(m)
    BY <2>1
  <2> HIDE DEF m, d
  <2>3. m - y \in 1 .. n /\ y + (m - y) < n /\ y + (m - y) = m
    BY <1>1, <2>2
  <2>4. m - y \in K
    <3>1. (y + 1 * (m - y)) % n = m
      BY <1>4, <2>3
    <3> QED BY <2>2, <2>3, <3>1
  <2>5. d <= m - y
    BY <1>6, <2>4
  <2>6. y + d < n /\ y + d \in 0 .. n - 1 /\ y + d > y
    BY <1>1, <1>7, <2>2, <2>5
  <2>7. Long(y + d)
    BY <1>4, <1>7, <2>6
  <2>8. y + d \in below
    BY <2>6, <2>7
  <2>9. m <= y + d
    BY <2>1, <2>8
  <2>10. y + d = m
    BY <1>1, <1>7, <2>2, <2>5, <2>9
  <2>11. ~ (y + d >= n) /\ (y + d) % n = m
    <3>1. m \in Int /\ 0 <= m /\ m < n /\ ~ (m >= n)
      BY <1>1, <2>2
    <3>2. m % n = m
      BY <1>1, <3>1, Around
    <3> QED BY <2>10, <3>1, <3>2
  <2> QED BY <1>2, <1>3, <1>9, <2>11 DEF m
<1> QED BY <1>8, <1>9

\* VMNextDirection, for each of the four directions.
LEMMA NextOnTorus ==
  ASSUME opcode_matrix \in Programs, Bef!IsCell(cur_pos), NEW dir \in Bef!Directions
  PROVE  IF Bef!OverTheEdge(cur_pos, dir) THEN ~ Bef!IsCell(Bef!VMNextDirection(cur_pos, dir))
         ELSE Bef!VMNextDirection(cur_pos, dir) = Bef!Torus(cur_pos, dir)
<1>1. CASE dir \in {">", "<"}
  BY <1>1, AcrossOnTorus
<1>2. CASE dir = "^"
  <2>1. Bef!VMNextDirection(cur_pos, dir) = Bef!Up(cur_pos)
    BY <1>2 DEF Bef!VMNextDirection
  <2> QED BY <1>2, <2>1, UpOnTorus
<1>3. CASE dir = "v"
  <2>1. Bef!VMNextDirection(cur_pos, dir) = Bef!Down(cur_pos)
    BY <1>3 DEF Bef!VMNextDirection
  <2> QED BY <1>3, <2>1, DownOnTorus
<1> QED BY <1>1, <1>2, <1>3 DEF Bef!Directions

\* A turn of the loop: the direction stays one of the four, and but for the trampoline
\* and the turns that end the program there is one call of VMNextDirection.
MovesOn ==
  \/ cur_pos' = Bef!VMNextDirection(cur_pos, cur_dir')
  \/ befunge' # "run"
  \/ ~ VMStringStart /\ Bef!VMGetInstr = "#"
LEMMA TurnMoves ==
  ASSUME Bef!BefungeNext, cur_dir \in Bef!Directions
  PROVE  cur_dir' \in Bef!Directions /\ opcode_matrix' = opcode_matrix /\ MovesOn
<1> USE DEF MovesOn
<1>0. opcode_matrix' = opcode_matrix
  BY DEF Bef!BefungeNext
<1>1. ASSUME NEW stack, Bef!Becomes(stack)
      PROVE  cur_dir' = cur_dir /\ cur_pos' = Bef!VMNextDirection(cur_pos, cur_dir')
  BY <1>1 DEF Bef!Becomes, Bef!Move
<1>2. ASSUME NEW dir \in Bef!Directions, Bef!Turn(dir)
      PROVE  cur_dir' \in Bef!Directions /\ cur_pos' = Bef!VMNextDirection(cur_pos, cur_dir')
  BY <1>2 DEF Bef!Turn, Bef!Move
<1>3. ASSUME Bef!Die PROVE cur_dir' = cur_dir /\ befunge' # "run"
  BY <1>3 DEF Bef!Die
<1>4. CASE Bef!InString \/ Bef!Digit \/ Bef!Not \/ Bef!Duplicate \/ Bef!Drop
           \/ Bef!InputNumber \/ Bef!InputChar \/ Bef!Skip
  BY <1>0, <1>1, <1>4 DEF Bef!InString, Bef!Digit, Bef!Not, Bef!Duplicate, Bef!Drop,
     Bef!InputNumber, Bef!InputChar, Bef!Skip
<1>5. CASE Bef!Calculate \/ Bef!Swap \/ Bef!PrintChar
  BY <1>0, <1>1, <1>3, <1>5 DEF Bef!Calculate, Bef!Swap, Bef!PrintChar
<1>6. CASE Bef!PutGet \/ Bef!InputEnds \/ Bef!NoCell
  BY <1>0, <1>3, <1>6 DEF Bef!PutGet, Bef!InputEnds, Bef!NoCell
<1>7. CASE Bef!Quote
  BY <1>0, <1>7 DEF Bef!Quote, Bef!Move
<1>8. CASE Bef!SetDirection
  BY <1>0, <1>2, <1>8 DEF Bef!SetDirection, Bef!Instr
<1>9. CASE Bef!RandomDirection
  BY <1>0, <1>2, <1>9 DEF Bef!RandomDirection
<1>10. CASE Bef!Branch
  <2>1. PICK dir \in Bef!Directions : Bef!Turn(dir)
    <3>1. Bef!VMGetInstr \in {"_", "|"}
      BY <1>10 DEF Bef!Branch, Bef!Instr
    <3> QED BY <1>10, <3>1 DEF Bef!Branch, Bef!Directions
  <2> QED BY <1>0, <1>2, <2>1
<1>11. CASE Bef!Trampoline
  BY <1>0, <1>11 DEF Bef!Trampoline, Bef!Instr, Bef!Die
<1>12. CASE Bef!End
  BY <1>0, <1>12 DEF Bef!End
<1> QED BY <1>4, <1>5, <1>6, <1>7, <1>8, <1>9, <1>10, <1>11, <1>12 DEF Bef!BefungeNext

\* A move of the interpreter is one on the torus or leaves it for good, whatever the lines of the
\* program are and whatever the user answers.
THEOREM MovesOnTorusThm ==
  ASSUME Sources \subseteq Programs
  PROVE  MCSpec => MovesOnTorus
<1> DEFINE Typed == opcode_matrix \in Programs /\ cur_dir \in Bef!Directions
           OneMove == Bef!Moves =>
             IF Bef!OverTheEdge(cur_pos, cur_dir') THEN ~ Bef!IsCell(cur_pos')
             ELSE cur_pos' = Bef!Torus(cur_pos, cur_dir')
<1>1. MCInit => Typed
  BY DEF MCInit, Bef!BefungeInit, Bef!Directions
<1>2. Typed /\ Bef!BefungeNext => Typed' /\ OneMove
  <2> SUFFICES ASSUME Typed, Bef!BefungeNext PROVE Typed' /\ OneMove
    OBVIOUS
  <2>1. Typed' /\ MovesOn
    BY TurnMoves
  <2>2. ASSUME Bef!Moves
        PROVE  IF Bef!OverTheEdge(cur_pos, cur_dir') THEN ~ Bef!IsCell(cur_pos')
               ELSE cur_pos' = Bef!Torus(cur_pos, cur_dir')
    <3>1. Bef!IsCell(cur_pos) /\ cur_pos' = Bef!VMNextDirection(cur_pos, cur_dir')
      BY <2>1, <2>2 DEF Bef!Moves, MovesOn
    <3>2. cur_dir' \in Bef!Directions
      BY <2>1
    <3> QED BY <3>1, <3>2, NextOnTorus
  <2> QED BY <2>1, <2>2
<1>3. Typed /\ [MCNext]_<<program, vars, godVars, befungeVars, serialVars, lookupVars>>
        => Typed' /\ [OneMove]_Bef!befungeVars
  <2> SUFFICES ASSUME Typed, [MCNext]_<<program, vars, godVars, befungeVars, serialVars, lookupVars>>
               PROVE  Typed' /\ [OneMove]_Bef!befungeVars
    OBVIOUS
  <2>1. CASE Bef!BefungeNext
    BY <1>2, <2>1
  <2>2. CASE UNCHANGED befungeVars
    BY <2>2 DEF befungeVars, Bef!befungeVars
  <2> HIDE DEF Typed, OneMove
  <2> QED BY <2>1, <2>2 DEF MCNext
<1>4. MCSpec => [][OneMove]_Bef!befungeVars
  <2> HIDE DEF Typed, OneMove
  <2> QED BY <1>1, <1>3, PTL DEF MCSpec
<1> QED BY <1>4 DEF MovesOnTorus, Bef!MovesOnTorus
=============================================================================
