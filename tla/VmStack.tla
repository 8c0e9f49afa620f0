------------------------------- MODULE VmStack -------------------------------
(***************************************************************************)
(* What the virtual machine's PUSH and POP promise the code that it runs:  *)
(* a stack of at most Capacity words.  A pop gives a register the word     *)
(* that was pushed last, no other instruction touches the stack, and an    *)
(* instruction which cannot be done stops the machine for good.            *)
(***************************************************************************)
EXTENDS Integers, Sequences

CONSTANTS
  Capacity,   \* words that fit
  Registers   \* names of registers

VARIABLES stopped, items, register

stackVars == <<stopped, items, register>>

StackInit == stopped = FALSE /\ items = <<>> /\ register = [r \in Registers |-> 0]

PushWord ==
  /\ ~stopped /\ Len(items) < Capacity
  /\ Len(items') = Len(items) + 1
  /\ SubSeq(items', 1, Len(items)) = items
  /\ UNCHANGED <<stopped, register>>

PopWord ==
  /\ ~stopped /\ items # <<>>
  /\ \E r \in Registers : register' = [register EXCEPT ![r] = items[Len(items)]]
  /\ items' = SubSeq(items, 1, Len(items) - 1)
  /\ UNCHANGED stopped

OtherWork == ~stopped /\ UNCHANGED <<stopped, items>>

Stop == ~stopped /\ stopped' = TRUE /\ UNCHANGED <<items, register>>

StackNext == PushWord \/ PopWord \/ OtherWork \/ Stop
StackSpec == StackInit /\ [][StackNext]_stackVars
=============================================================================
