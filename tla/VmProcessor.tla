----------------------------- MODULE VmProcessor -----------------------------
(***************************************************************************)
(* The virtual machine of hitbkl2012_klks (vm_processor.c) by itself, and  *)
(* vm_strlen, the C function with blocks of virtual code in it.  VM_ENTER  *)
(* sets vm_ip to the code behind its call and runs it until VM_EXIT, after *)
(* which the host's own code decides what to do next.                      *)
(*                                                                         *)
(* Data: Byte is the number of values of a byte, a power of two (256 in    *)
(* the code); a word is four of them.  Code is a sequence of units: an     *)
(* opcode of two bytes is one unit, every operand byte is one.  A word of  *)
(* the stack has an index: vm_esp is its offset from vm_stack divided by   *)
(* four.  Of the flags in vm_cmpbit the one that vm_strlen tests is kept.  *)
(*                                                                         *)
(* PUSH moves vm_esp before it writes, so that word 0 is never used and    *)
(* word StackWords lies right behind the 10240 bytes of vm_stack.  In the  *)
(* 32-bit build of the Makefile it still belongs to the chunk malloc gave, *)
(* whose usable size is four more than a multiple of eight.                *)
(***************************************************************************)
EXTENDS Integers, Sequences
LOCAL INSTANCE FiniteSetsExt

CONSTANTS
  Byte,        \* values of a byte
  Width,       \* bits of a word
  StackWords,  \* words of vm_stack: 2560 in the code
  Blocks,      \* blocks of code that the host runs between calls of vm_strlen
  Memories,    \* what the host's memory may hold: functions from addresses to bytes
  Strings,     \* where strings begin
  MaxEnters    \* bound: calls by the host

Word == Byte * Byte * Byte * Byte

ASSUME VmAssumption ==
  /\ Byte \in Nat \ {0, 1} /\ Width \in Nat /\ Word = 2 ^ Width
  /\ StackWords \in Nat \ {0}
  /\ \A b \in Blocks : b \in Seq(Nat)
  /\ Strings \subseteq 0 .. Word - 1
  /\ \A m \in Memories :   \* nothing is mapped at NULL
       DOMAIN m \subseteq 1 .. Word - 1 /\ \A a \in DOMAIN m : m[a] \in 0 .. Byte - 1
  /\ MaxEnters \in Nat

OP_MOV == 256
OP_MOVZX == 257
OP_SHR == 512
OP_SHL == 513
OP_ADD == 516
OP_SUB == 517
OP_XOR == 518
OP_AND == 524
OP_OR == 525
OP_VM_EXIT == 791
OP_PUSH == 1024
OP_POP == 1025
OP_INC == 1536
OP_DEC == 1537
OP_CMP == 1792

OP_CONST == 0
OP_REG == 1
OP_OFFSET == 2

Registers == 0 .. 15
OP_REG12 == 11
OP_REG13 == 12
OP_REG14 == 13

VARIABLES
  status,   \* "host", "parser" (in VM_PARSER), "exited" (VM_CRITICAL_ERROR), "fault"
  host,     \* where the host's code is: "idle", or the block of vm_strlen entered last
  enters,   \* calls so far
  vm_ip,    \* the units of code not yet taken
  vm_reg, vm_esp, vm_stack, vm_cmpbit,
  memory,   \* of the host, where the strings are
  in_str    \* the argument of vm_strlen

vars == <<status, host, enters, vm_ip, vm_reg, vm_esp, vm_stack, vm_cmpbit, memory, in_str>>
hostVars == <<host, enters, memory, in_str>>

-----------------------------------------------------------------------------
(* Words.                                                                  *)

Bits(x) == {i \in 0 .. Width - 1 : (x \div 2 ^ i) % 2 = 1}
Word4(S) == SumSet({2 ^ i : i \in S})

\* The processor takes a shift's count modulo the width of its operand.
Shl(x, n) == (x * 2 ^ (n % Width)) % Word
Shr(x, n) == x \div 2 ^ (n % Width)

\* VM_POP_INSTR_4 at unit k: the first byte is the highest.
BigEndian(k) ==
  ((vm_ip[k] * Byte + vm_ip[k + 1]) * Byte + vm_ip[k + 2]) * Byte + vm_ip[k + 3]

\* The endian swap of VM_Generic_Process.
Swapped(x) ==
  LET byte(i) == (x \div Byte ^ i) % Byte
  IN  ((byte(0) * Byte + byte(1)) * Byte + byte(2)) * Byte + byte(3)

-----------------------------------------------------------------------------
(* An operand: its type is unit k, and what it is follows.                 *)

Opcode == vm_ip[1]
IsOperand(k, types) ==
  vm_ip[k] \in types /\ (vm_ip[k] = OP_REG => vm_ip[k + 1] \in Registers)

\* OFFSET is the operand of an x86 push in the host's code: a byte to ignore, and
\* an address whose lowest byte comes first.
Value(k) ==
  CASE vm_ip[k] = OP_CONST  -> BigEndian(k + 1)
    [] vm_ip[k] = OP_REG    -> vm_reg[vm_ip[k + 1]]
    [] vm_ip[k] = OP_OFFSET -> Swapped(BigEndian(k + 2))

\* The units up to the operand's end.
End(k) ==
  CASE vm_ip[k] = OP_CONST  -> k + 4
    [] vm_ip[k] = OP_REG    -> k + 1
    [] vm_ip[k] = OP_OFFSET -> k + 5

Taken(n) == vm_ip' = SubSeq(vm_ip, n + 1, Len(vm_ip))

-----------------------------------------------------------------------------
(* The instructions.                                                       *)

CanPush == vm_esp + 1 <= StackWords /\ IsOperand(2, {OP_CONST, OP_REG})
VM_PUSH_Process ==
  /\ Opcode = OP_PUSH /\ CanPush
  /\ vm_esp' = vm_esp + 1
  /\ vm_stack' = [vm_stack EXCEPT ![vm_esp + 1] = Value(2)]
  /\ Taken(End(2))
  /\ UNCHANGED <<status, vm_reg, vm_cmpbit>>

CanPop == vm_esp - 1 >= 0 /\ vm_ip[2] \in Registers

\* Mutant of VM_POP_Process: vm_esp is moved before the word is read.
PopMovesFirst ==
  /\ Opcode = OP_POP /\ CanPop
  /\ vm_reg' = [vm_reg EXCEPT ![vm_ip[2]] = vm_stack[vm_esp - 1]]
  /\ vm_esp' = vm_esp - 1
  /\ Taken(2)
  /\ UNCHANGED <<status, vm_stack, vm_cmpbit>>

VM_POP_Process ==
  /\ Opcode = OP_POP /\ CanPop
  /\ vm_reg' = [vm_reg EXCEPT ![vm_ip[2]] = vm_stack[vm_esp]]
  /\ vm_esp' = vm_esp - 1
  /\ Taken(2)
  /\ UNCHANGED <<status, vm_stack, vm_cmpbit>>

VM_DEC_Process ==
  /\ Opcode = OP_DEC /\ vm_ip[2] \in Registers
  /\ vm_reg' = [vm_reg EXCEPT ![vm_ip[2]] = (@ - 1) % Word]
  /\ Taken(2)
  /\ UNCHANGED <<status, vm_esp, vm_stack, vm_cmpbit>>

VM_INC_Process ==
  /\ Opcode = OP_INC /\ vm_ip[2] \in Registers
  /\ vm_reg' = [vm_reg EXCEPT ![vm_ip[2]] = (@ + 1) % Word]
  /\ Taken(2)
  /\ UNCHANGED <<status, vm_esp, vm_stack, vm_cmpbit>>

\* The bytes at address from, the first one highest; initial is new_value's start.
Loaded(initial, from, count) ==
  LET load[i \in 0 .. count] ==
        IF i = 0 THEN initial ELSE (load[i - 1] * Byte + memory[from + i - 1]) % Word
  IN  load[count]

\* The source register and the count are looked at before the memory, and the other
\* register after it.
CanRead == vm_ip[3] \in Registers /\ vm_ip[4] > 0 /\ vm_ip[4] <= 4
CanLoad == CanRead /\ vm_ip[2] \in Registers
Mapped == \A i \in 0 .. vm_ip[4] - 1 : vm_reg[vm_ip[3]] + i \in DOMAIN memory

\* Mutant of VM_MOVZX_Process: the bytes are shifted into what the register holds.
MovzxKeeps ==
  /\ Opcode = OP_MOVZX /\ CanLoad /\ Mapped
  /\ vm_reg' = [vm_reg EXCEPT ![vm_ip[2]] = Loaded(@, vm_reg[vm_ip[3]], vm_ip[4])]
  /\ Taken(4)
  /\ UNCHANGED <<status, vm_esp, vm_stack, vm_cmpbit>>

VM_MOVZX_Process ==
  /\ Opcode = OP_MOVZX /\ CanLoad /\ Mapped
  /\ vm_reg' = [vm_reg EXCEPT ![vm_ip[2]] = Loaded(0, vm_reg[vm_ip[3]], vm_ip[4])]
  /\ Taken(4)
  /\ UNCHANGED <<status, vm_esp, vm_stack, vm_cmpbit>>

\* Nothing is mapped where the register points to.
VM_MOVZX_Fault ==
  /\ Opcode = OP_MOVZX /\ CanRead /\ ~Mapped
  /\ status' = "fault"
  /\ UNCHANGED <<vm_ip, vm_reg, vm_esp, vm_stack, vm_cmpbit>>

\* What VM_Generic_Process can do; VM_PARSER hands it OP_OR too.
Generic == {OP_AND, OP_SHR, OP_SHL, OP_SUB, OP_CMP, OP_XOR, OP_ADD, OP_MOV}
CanGeneric == vm_ip[2] \in Registers /\ IsOperand(3, {OP_CONST, OP_REG, OP_OFFSET})

\* The register's value x after the operation with operand v.
Result(op, x, v) ==
  CASE op = OP_AND -> Word4(Bits(x) \cap Bits(v))
    [] op = OP_XOR -> Word4((Bits(x) \ Bits(v)) \cup (Bits(v) \ Bits(x)))
    [] op = OP_SHR -> Shr(x, v)
    [] op = OP_SHL -> Shl(x, v)
    [] op = OP_SUB -> (x - v) % Word
    [] op = OP_ADD -> (x + v) % Word
    [] op = OP_MOV -> v
    [] op = OP_CMP -> x

\* SUB has no break: it goes on into CMP, which sees the difference.
VM_Generic_Process ==
  /\ Opcode \in Generic /\ CanGeneric
  /\ LET x == vm_reg[vm_ip[2]]
         result == Result(Opcode, x, Value(3))
     IN  /\ vm_reg' = [vm_reg EXCEPT ![vm_ip[2]] = result]
         /\ vm_cmpbit' = IF Opcode \in {OP_SUB, OP_CMP} THEN result = Value(3) ELSE vm_cmpbit
  /\ Taken(End(3))
  /\ UNCHANGED <<status, vm_esp, vm_stack>>

VM_EXIT ==
  /\ Opcode = OP_VM_EXIT
  /\ status' = "host" /\ vm_ip' = <<>>
  /\ UNCHANGED <<vm_reg, vm_esp, vm_stack, vm_cmpbit>>

\* A limit, a register, a type or a count that is none, or an opcode without a case.
VM_CRITICAL_ERROR ==
  /\ ~ CASE Opcode = OP_PUSH -> CanPush
         [] Opcode = OP_POP -> CanPop
         [] Opcode \in {OP_DEC, OP_INC} -> vm_ip[2] \in Registers
         [] Opcode = OP_MOVZX -> CanLoad \/ (CanRead /\ ~Mapped)
         [] Opcode \in Generic -> CanGeneric
         [] OTHER -> Opcode = OP_VM_EXIT
  /\ status' = "exited"
  /\ UNCHANGED <<vm_ip, vm_reg, vm_esp, vm_stack, vm_cmpbit>>

VM_PARSER ==
  /\ status = "parser"
  /\ \/ VM_PUSH_Process \/ VM_POP_Process
     \/ VM_DEC_Process \/ VM_INC_Process
     \/ VM_MOVZX_Process \/ VM_MOVZX_Fault
     \/ VM_Generic_Process
     \/ VM_EXIT \/ VM_CRITICAL_ERROR
  /\ UNCHANGED hostVars

-----------------------------------------------------------------------------
(* The host.                                                               *)

VM_ENTER(label, block) ==
  /\ status = "host"
  /\ status' = "parser" /\ host' = label /\ vm_ip' = block
  /\ UNCHANGED <<vm_esp, vm_stack, vm_cmpbit, memory>>

\* Other code of the host, VerifyChallengeResponse for one.
RunBlock ==
  /\ host = "idle" /\ enters < MaxEnters
  /\ enters' = enters + 1
  /\ \E block \in Blocks : VM_ENTER("idle", block)
  /\ UNCHANGED <<vm_reg, in_str>>

VmStrlen ==
  /\ host = "idle" /\ enters < MaxEnters
  /\ enters' = enters + 1
  /\ \E s \in Strings :
       /\ in_str' = s
       /\ vm_reg' = [vm_reg EXCEPT ![OP_REG12] = s]
  /\ VM_ENTER("begin", <<OP_MOV, OP_REG13, OP_REG, OP_REG12, OP_VM_EXIT>>)

StrlenLoop ==
  /\ host = "begin" \/ (host = "strlen_loop" /\ ~vm_cmpbit)  \* jnz strlen_loop
  /\ VM_ENTER("strlen_loop",
       <<OP_MOVZX, OP_REG14, OP_REG13, 1, OP_INC, OP_REG13,
         OP_CMP, OP_REG14, OP_CONST, 0, 0, 0, 0, OP_VM_EXIT>>)
  /\ UNCHANGED <<enters, vm_reg, in_str>>

StrlenEnd ==
  /\ host = "strlen_loop" /\ vm_cmpbit
  /\ VM_ENTER("end", <<OP_SUB, OP_REG13, OP_REG, OP_REG12, OP_DEC, OP_REG13, OP_VM_EXIT>>)
  /\ UNCHANGED <<enters, vm_reg, in_str>>

StrlenReturn ==
  /\ status = "host" /\ host = "end"
  /\ host' = "idle"
  /\ UNCHANGED <<status, enters, vm_ip, vm_reg, vm_esp, vm_stack, vm_cmpbit, memory, in_str>>

\* VM_INIT, before the first call; what malloc gives is never read.
Init ==
  /\ status = "host" /\ host = "idle" /\ enters = 0 /\ vm_ip = <<>>
  /\ vm_reg = [r \in Registers |-> 0]
  /\ vm_esp = 0 /\ vm_stack = [i \in 0 .. StackWords |-> 0]
  /\ vm_cmpbit = FALSE
  /\ memory \in Memories /\ in_str = 0

Next == VM_PARSER \/ RunBlock \/ VmStrlen \/ StrlenLoop \/ StrlenEnd \/ StrlenReturn
Spec == Init /\ [][Next]_vars

-----------------------------------------------------------------------------
(* Properties.                                                             *)

\* The machine's stack as PUSH and POP are to keep it: the words up to vm_esp.
Stack == INSTANCE VmStack WITH
  Capacity <- StackWords, stopped <- status \in {"exited", "fault"},
  items <- [i \in 1 .. vm_esp |-> vm_stack[i]], register <- vm_reg

\* vm_esp moves before a PUSH writes and after a POP reads, and the limit checks come
\* before both: together they are a stack of exactly StackWords words, which every
\* other instruction leaves alone (lines 391-455).
ImplementsStack == Stack!StackSpec

\* The index of the first NUL behind an address.
Length(s) == CHOOSE n \in 0 .. Word : memory[s + n] = 0 /\ \A i \in 0 .. n - 1 : memory[s + i] # 0

\* vm_strlen returns the string's length, whatever code ran on the machine before it
\* and whatever that left in the registers and in vm_cmpbit (lines 607-633).
StrlenRight == status = "host" /\ host = "end" => vm_reg[OP_REG13] = Length(in_str)
=============================================================================
