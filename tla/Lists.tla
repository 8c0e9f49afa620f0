------------------------------- MODULE Lists -------------------------------
(* What the programs' loops over a list pick out of it or sum up of it.    *)
EXTENDS Integers, Sequences, SequencesExt

\* The elements of s that are in T, in their order.  (SelectSeq, of which the
\* provers know nothing, with a set for the test.)
Keep(s, T) ==
  LET kept[i \in 0 .. Len(s)] ==
        IF i = 0 THEN <<>>
        ELSE IF s[i] \in T THEN Append(kept[i - 1], s[i]) ELSE kept[i - 1]
  IN kept[Len(s)]

\* w[1] + .. + w[n].
Total(w, n) ==
  LET total[i \in 0 .. n] == IF i = 0 THEN 0 ELSE total[i - 1] + w[i]
  IN total[n]
=============================================================================
