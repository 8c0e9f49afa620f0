------------------------- MODULE SequentialDecrypt -------------------------
(***************************************************************************)
(* TestDecrypt of ctf_bin2: the same decryption in one loop of one thread, *)
(* for turn i the tables of thread 0, 1, .., N-1 in this order.  The       *)
(* author's reference for what the five threads have to compute.           *)
(***************************************************************************)
EXTENDS Integers

CONSTANTS N, Loops, Reveal

Thread == 0 .. N-1
Turn   == 0 .. Loops-1
Word   == {0, 1}

VARIABLES
  i,      \* the loop counter
  k,      \* the thread whose lines are executed next
  text,   \* cTextArray: table indices xored into each word
  decoded \* the values copied to cDecodedArray
vars == <<i, k, text, decoded>>

Xor(s, e) == (s \ {e}) \cup ({e} \ s)

Init ==
  /\ i = 0 /\ k = 0
  /\ text = [t \in Thread |-> [w \in Word |-> {e \in Turn : e <= Reveal[t][w]}]]
  /\ decoded = [t \in Thread |-> [w \in Word |-> {}]]

\* The lines of thread k in iteration i.
Step ==
  /\ i < Loops
  /\ text' = [text EXCEPT ![k] = [w \in Word |-> Xor(@[w], i)]]
  /\ decoded' = [decoded EXCEPT ![k] =
                   [w \in Word |-> IF i = Reveal[k][w] THEN @[w] \cup {text'[k][w]} ELSE @[w]]]
  /\ k' = (k + 1) % N
  /\ i' = IF k = N - 1 THEN i + 1 ELSE i

Spec == Init /\ [][Step]_vars
=============================================================================
