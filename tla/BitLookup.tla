------------------------------ MODULE BitLookup ------------------------------
(***************************************************************************)
(* bin200_layer1: GenerateLookup makes a table whose entries point at bits *)
(* of a buffer of random numbers, one for every bit of the flag, and the   *)
(* program reads the flag back from table and buffer.                      *)
(*                                                                         *)
(* Data: a buffer word is a sequence of bytes and a byte one of bits, the  *)
(* highest first as GetByte and GetBit count them.  The random highest     *)
(* byte of an entry, which nothing reads, is left out.                     *)
(***************************************************************************)
EXTENDS Integers, Sequences

CONSTANTS
  Buffers,    \* buffers: sequences of words
  WordBytes,  \* bytes of a word: 4
  ByteBits,   \* bits of a byte: 8
  Flags,      \* flags: sequences of bits
  Stuck       \* tries before another byte is tested: 100

VARIABLES
  phase,         \* "fill", "loop", "decode", "printed"
  buffer, cFlag,
  lookup_table,  \* entries so far
  pos, rbyte,    \* those of the entry in work
  tested,        \* which byte bdata is
  unstuck_ctr,
  unstuck,       \* some entry's byte was replaced
  key            \* the bits decoded so far

lookupVars == <<phase, buffer, cFlag, lookup_table, pos, rbyte, tested, unstuck_ctr, unstuck, key>>

GetBit(word, byte, bit) == word[byte + 1][bit + 1]

\* The data of an entry: the position is chosen once, and so is the byte.
FillEntry ==
  /\ phase = "fill" /\ Len(lookup_table) < Len(cFlag)
  /\ pos' \in DOMAIN buffer
  /\ rbyte' \in 0 .. WordBytes - 1
  /\ tested' = rbyte' /\ unstuck_ctr' = 0
  /\ phase' = "loop"
  /\ UNCHANGED <<buffer, cFlag, lookup_table, unstuck, key>>

\* One random bit: the entry is complete, or after Stuck of them bdata is another byte;
\* the rbyte of line 153 is a variable of its own that hides the entry's.
TryBit ==
  /\ phase = "loop"
  /\ \E randbit \in 0 .. ByteBits - 1 :
       IF GetBit(buffer[pos], tested, randbit) = cFlag[Len(lookup_table) + 1]
       THEN /\ lookup_table' =
                 Append(lookup_table, [pos |-> pos, byte |-> rbyte, bit |-> randbit])
            /\ phase' = "fill"
            /\ UNCHANGED <<tested, unstuck_ctr, unstuck>>
       ELSE /\ unstuck_ctr' = (unstuck_ctr + 1) % Stuck
            /\ IF unstuck_ctr' = 0
               THEN tested' \in 0 .. WordBytes - 1 /\ unstuck' = TRUE
               ELSE UNCHANGED <<tested, unstuck>>
            /\ UNCHANGED <<lookup_table, phase>>
  /\ UNCHANGED <<buffer, cFlag, pos, rbyte, key>>

\* The table is printed, and compiled into the program.
PrintTable ==
  /\ phase = "fill" /\ Len(lookup_table) = Len(cFlag)
  /\ phase' = "decode"
  /\ UNCHANGED <<buffer, cFlag, lookup_table, pos, rbyte, tested, unstuck_ctr, unstuck, key>>

\* Mutant of Selected: the entry's lowest two bytes change places.
SelectedSwapped(entry) == GetBit(buffer[entry.pos], entry.bit % WordBytes, entry.byte % ByteBits)
Selected(entry) == GetBit(buffer[entry.pos], entry.byte, entry.bit)

\* One turn of the loop in _tmain.
DecodeEntry ==
  /\ phase = "decode" /\ Len(key) < Len(lookup_table)
  /\ key' = Append(key, Selected(lookup_table[Len(key) + 1]))
  /\ phase' = IF Len(key') = Len(lookup_table) THEN "printed" ELSE "decode"
  /\ UNCHANGED <<buffer, cFlag, lookup_table, pos, rbyte, tested, unstuck_ctr, unstuck>>

LookupInit ==
  /\ phase = "fill" /\ buffer \in Buffers /\ cFlag \in Flags
  /\ lookup_table = <<>> /\ pos = 1 /\ rbyte = 0 /\ tested = 0
  /\ unstuck_ctr = 0 /\ unstuck = FALSE /\ key = <<>>

LookupNext == FillEntry \/ TryBit \/ PrintTable \/ DecodeEntry

-----------------------------------------------------------------------------
(* Property.                                                               *)

\* The key that the table decodes to is the flag; only where GenerateLookup gave up a
\* byte may it be another one, as the entry keeps the byte it gave up (lines 127-157).
KeyIsFlag == phase = "printed" /\ key # cFlag => unstuck
=============================================================================
