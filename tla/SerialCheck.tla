----------------------------- MODULE SerialCheck -----------------------------
(***************************************************************************)
(* The serial dialog of ctf_bin5, in its two editions: HITB 2009           *)
(* (HITB_2009_CTF/ctf_bin5) and wargames.my 2011.  Every change of the     *)
(* edit field has ValidateSerial judge the text, and the button says what  *)
(* bValidSerial holds by then.                                             *)
(*                                                                         *)
(* Data: a text has a form, "full" for one whose length and CRC are right, *)
(* in the later edition its characters too, and its words w[0] .. w[9],    *)
(* numbers of 16 bits with which the code reckons as ints; w[0], w[8] and  *)
(* w[9] came with the later edition.  The edition of 2009 looks at no      *)
(* character: str2dw reads lower case like upper case, and four characters *)
(* with a wrong one as 0, so that many texts of it have the same words.    *)
(***************************************************************************)
EXTENDS Integers, Sequences

CONSTANTS Texts  \* what the field may hold: records [form, w]

Editions == {"hitb2009", "wargames2011"}

VARIABLES
  edition,
  process,       \* "runs", "crashed" or "closed"
  text,          \* of IDC_EDIT1
  bValidSerial,
  debugger,      \* what IsDebuggerPresent would say
  message,       \* of the last message box: "none", "good", "again"
  judged, slow   \* the text ValidateSerial saw last, and whether rdtsc was slow then

serialVars == <<edition, process, text, bValidSerial, debugger, message, judged, slow>>

-----------------------------------------------------------------------------
(* What the words must be.                                                 *)

\* The low 16 bits of an int.
Low(x) == x % 65536
\* (x * y) & 0xFFFF
LowProduct(x, y) == Low(((x \div 256) * y % 256) * 256 + (x % 256) * y)

is_prime(number) == \A primed \in 2 .. number - 1 : number % primed # 0

\* Every hex digit is one that cBadArray lacks: 5, 7 or 8.
is_evilPrime(w) == \A i \in 0 .. 3 : (w \div 16 ^ i) % 16 \in {5, 7, 8}

\* 5: the quotient and the remainder by 0x191.
FifthRight(w) ==
  IF edition = "hitb2009" THEN w[5] \div 401 = 12 /\ w[5] % 401 = 107
  ELSE w[5] \div 401 = 142 /\ w[5] % 401 = 63

SeventhRight(w) ==
  /\ w[7] % 3 = 1 /\ w[7] % 99 = (IF edition = "hitb2009" THEN 64 ELSE 43)
  /\ is_evilPrime(w[7]) /\ is_prime(w[7])

\* The check before the time stamps; w[2] is not 0.
EarlyRight(w) ==
  /\ edition = "hitb2009" \/ Low(w[8] + w[9]) = w[0]
  /\ FifthRight(w)
ThirdRight(w) == w[7] - (w[4] % w[2]) = w[3]

\* Mutant of SixthRight: as it was in 2009, before 5 became greater than 7.
SixthInt(w) == w[7] - w[5] = w[6]
SixthRight(w) ==
  IF edition = "hitb2009" THEN w[7] - w[5] = w[6] ELSE Low(w[7] - w[5]) = w[6]

LateRight(w) ==
  /\ edition = "wargames2011" => w[9] \div 86 = w[8]
  /\ IF edition = "hitb2009" THEN w[6] + w[5] * 2 = w[1] ELSE Low(w[6] + w[5] * 2) = w[1]
  /\ (65535 - w[1]) - 3199 = w[2]
  /\ edition = "wargames2011" => Low(LowProduct(w[5], w[3]) - w[2]) = w[9]
  /\ SixthRight(w)
  /\ (w[7] - w[5]) + w[6] = w[4]
  /\ SeventhRight(w)

\* GenerateSerial for a fifth and a seventh word, in 16-bit variables.
GenerateSerial(w5, w7) ==
  LET w6 == Low(w7 - w5)
      w1 == Low(w6 + w5 * 2)
      w2 == Low((65535 - w1) - 3199)
      w4 == Low((w7 - w5) + w6)
      w3 == Low(w7 - (w4 % w2))
      w9 == Low(LowProduct(w5, w3) - w2)
      w8 == w9 \div 86
      word == <<w1, w2, w3, w4, w5, w6, w7, w8, w9>>
  IN  [i \in 0 .. 9 |-> IF i = 0 THEN Low(w8 + w9) ELSE word[i]]

-----------------------------------------------------------------------------
(* The dialog.                                                             *)

Showing == process = "runs"

\* ValidateSerial leaves without a verdict: bValidSerial is false from its start.
\* Mutant of Rejects: bValidSerial keeps its value.
RejectsNoReset == bValidSerial' = bValidSerial /\ slow' = FALSE /\ UNCHANGED process
Rejects == bValidSerial' = FALSE /\ slow' = FALSE /\ UNCHANGED process

\* w4 % w2 is a division by zero, before any exception filter is set.
DividesByZero == bValidSerial' = FALSE /\ slow' = FALSE /\ process' = "crashed"

\* More than 0xff ticks between the time stamps: the answer is yes.
SlowAccepts == bValidSerial' = TRUE /\ slow' = TRUE /\ UNCHANGED process

Decides(w) ==
  IF LateRight(w) THEN bValidSerial' = TRUE /\ slow' = FALSE /\ UNCHANGED process
  ELSE Rejects

\* On the words of a text: what the edition asks of its characters is in its form.
ValidateSerial(t) ==
  IF t.form # "full" \/ ~EarlyRight(t.w) THEN Rejects
  ELSE \/ t.w[2] = 0 /\ DividesByZero
       \/ t.w[2] # 0 /\ ~ThirdRight(t.w) /\ Rejects
       \/ t.w[2] # 0 /\ ThirdRight(t.w) /\ edition = "wargames2011" /\ SlowAccepts
       \/ t.w[2] # 0 /\ ThirdRight(t.w) /\ Decides(t.w)

\* EN_UPDATE of IDC_EDIT1.
EditText ==
  /\ Showing
  /\ text' \in Texts
  /\ IF edition = "wargames2011" /\ debugger
     THEN UNCHANGED <<process, bValidSerial, judged, slow>>
     ELSE judged' = text' /\ ValidateSerial(text')
  /\ UNCHANGED <<edition, debugger, message>>

Button ==
  /\ Showing
  /\ message' = IF bValidSerial THEN "good" ELSE "again"
  /\ UNCHANGED <<edition, process, text, bValidSerial, debugger, judged, slow>>

\* The message box is closed.
Confirm ==
  /\ Showing /\ message # "none" /\ message' = "none"
  /\ UNCHANGED <<edition, process, text, bValidSerial, debugger, judged, slow>>

Close ==
  /\ Showing /\ message = "none" /\ process' = "closed"
  /\ UNCHANGED <<edition, text, bValidSerial, debugger, message, judged, slow>>

\* Outside of the program.
ToggleDebugger ==
  /\ Showing /\ debugger' = ~debugger
  /\ UNCHANGED <<edition, process, text, bValidSerial, message, judged, slow>>

Empty == [form |-> "short", w |-> [i \in 0 .. 9 |-> 0]]

SerialInit ==
  /\ edition \in Editions
  /\ process = "runs" /\ text = Empty /\ bValidSerial = FALSE
  /\ debugger = FALSE /\ message = "none"
  /\ judged = Empty /\ slow = FALSE

SerialNext == EditText \/ Button \/ Confirm \/ Close \/ ToggleDebugger

-----------------------------------------------------------------------------
(* Property.                                                               *)

\* The serial of an edition: only one seventh word passes SeventhRight.
Serial == IF edition = "hitb2009" THEN GenerateSerial(4919, 30853) ELSE GenerateSerial(57005, 34693)

\* The checks, made one by one, in ints and partly masked, accept the serial that
\* GenerateSerial makes in 16-bit words and no other, but for the slow time stamps (one
\* text in the later edition, in that of 2009 every spelling of these words), and no
\* verdict outlives the text it was about while ValidateSerial is called (HITB 2009
\* lines 152-238, wargames.my 2011 lines 221-349).
OnlyTheSerial ==
  Showing => (bValidSerial <=>
             \/ slow
             \/ /\ judged.form = "full"
                /\ \A i \in IF edition = "hitb2009" THEN 1 .. 7 ELSE 0 .. 9 :
                     judged.w[i] = Serial[i])
=============================================================================
