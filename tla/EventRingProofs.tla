-------------------------- MODULE EventRingProofs --------------------------
(***************************************************************************)
(* Proofs about EventRing for any number of processes, threads and turns.  *)
(***************************************************************************)
EXTENDS EventRing, FiniteSetTheorems, TLAPS

\* A process that has not started has every thread at its first wait.
NewWaits ==
  \A p \in Procs : \A k \in Thread : proc[p] = "new" => pc[p][k] = "wait"

\* The loop counter is below the bound exactly until the thread returns.
LoopInv ==
  \A p \in Procs : \A k \in Thread :
    /\ pc[p][k] = "done" => loop[p][k] = Loops
    /\ pc[p][k] # "done" => loop[p][k] < Loops

\* main leaves only when all threads have returned.
ExitInv ==
  \A p \in Procs : \A k \in Thread : proc[p] = "exited" => pc[p][k] = "done"

\* What is left in a word after t turns, and what has been copied of it.
Left(r, t) == {i \in Turn : (t <= i /\ i <= r) \/ (r < i /\ i < t)}
WordInv ==
  \A p \in Procs : \A k \in Thread : \A w \in Word :
    /\ word[p][k][w] = Left(Reveal[k][w], Turns(p, k))
    /\ seen[p][k][w] = IF Reveal[k][w] < Turns(p, k) THEN {{}} ELSE {}

TypeInv == TypeOK /\ LoopInv
TurnInv == NewWaits /\ OneHolder /\ NoLostSignal
DataInv == ExitInv /\ WordInv
-----------------------------------------------------------------------------
\* The successor on the ring is a thread.
LEMMA NextThread == \A k \in Thread : (k + 1) % N \in Thread
  BY RingAssumption DEF Thread

\* The successor is the next number, but for the last thread.
LEMMA Successor ==
  ASSUME NEW k \in Thread
  PROVE  /\ k + 1 < N => (k + 1) % N = k + 1
         /\ k + 1 = N => (k + 1) % N = 0
<1>1. k + 1 \in Nat /\ N \in Nat \ {0}
  BY RingAssumption DEF Thread
<1>2. \A m \in Nat, n \in Nat \ {0} : m < n => m % n = m
  OBVIOUS
<1>3. N % N = 0
  BY RingAssumption
<1> QED BY <1>1, <1>2, <1>3

\* The first event is one of the ring.
LEMMA FirstThread == 0 \in Thread
  BY RingAssumption DEF Thread

\* A thread that has not returned is in one of its turns.
LEMMA InTurn ==
  ASSUME TypeInv, NEW p \in Procs, NEW k \in Thread, pc[p][k] # "done"
  PROVE  loop[p][k] \in Turn /\ loop[p][k] + 1 \in 0 .. Loops
<1>1. loop[p][k] \in 0 .. Loops
  BY DEF TypeInv, TypeOK
<1>2. loop[p][k] < Loops
  BY DEF TypeInv, LoopInv
<1> QED
  BY <1>1, <1>2, RingAssumption DEF Turn

\* The ranges of the variables and the loop bound, together inductive.
LEMMA TypeInvariant == Spec => []TypeInv
<1> USE RingAssumption DEF TypeInv, TypeOK, LoopInv
<1>1. Init => TypeInv
  BY DEF Init, InitialEvents, EncWord, Word, Turn
<1>2. TypeInv /\ [Next]_vars => TypeInv'
  <2> SUFFICES ASSUME TypeInv, [Next]_vars PROVE TypeInv'
    OBVIOUS
  <2>1. ASSUME NEW p \in Procs, Start(p) PROVE TypeInv'
    BY <2>1 DEF Start, InitialEvents
  <2>2. ASSUME NEW p \in Procs, NEW k \in Thread, Wait(p, k) PROVE TypeInv'
    BY <2>2 DEF Wait
  <2>3. ASSUME NEW p \in Procs, NEW k \in Thread, XorWords(p, k) PROVE TypeInv'
    <3> DEFINE i == loop[p][k]
               new == [w \in Word |-> Xor(word[p][k][w], i)]
               got == [w \in Word |-> IF i = Reveal[k][w]
                                      THEN seen[p][k][w] \cup {new[w]}
                                      ELSE seen[p][k][w]]
    <3>1. i \in Turn
      BY <2>3, InTurn DEF XorWords
    <3>2. new \in [Word -> SUBSET Turn]
      BY <3>1 DEF Xor
    <3>3. got \in [Word -> SUBSET SUBSET Turn]
      BY <3>2
    <3>4. word' = [word EXCEPT ![p][k] = new] /\ seen' = [seen EXCEPT ![p][k] = got]
      BY <2>3 DEF XorWords
    <3>5. word' \in [Procs -> [Thread -> [Word -> SUBSET Turn]]]
      BY <3>2, <3>4
    <3>6. seen' \in [Procs -> [Thread -> [Word -> SUBSET SUBSET Turn]]]
      BY <3>3, <3>4
    <3> QED
      BY <2>3, <3>5, <3>6 DEF XorWords
  <2>4. ASSUME NEW p \in Procs, NEW k \in Thread, Set(p, k) PROVE TypeInv'
    <3>1. loop[p][k] \in Turn /\ loop[p][k] + 1 \in 0 .. Loops
      BY <2>4, InTurn DEF Set
    <3>2. /\ loop' \in [Procs -> [Thread -> 0 .. Loops]]
          /\ pc' \in [Procs -> [Thread -> {"wait", "xor", "set", "done"}]]
          /\ ev' \in [Thread -> BOOLEAN]
      BY <2>4, <3>1, NextThread DEF Set
    <3>3. LoopInv'
      BY <2>4, <3>1, <3>2 DEF Set, Turn
    <3> QED
      BY <2>4, <3>2, <3>3 DEF Set
  <2>5. ASSUME NEW p \in Procs, Exit(p) PROVE TypeInv'
    BY <2>5 DEF Exit
  <2>6. ASSUME NEW p \in Procs, Kill(p) PROVE TypeInv'
    BY <2>6 DEF Kill
  <2>7. CASE UNCHANGED vars
    BY <2>7 DEF vars
  <2> QED
    BY <2>1, <2>2, <2>3, <2>4, <2>5, <2>6, <2>7 DEF Next, ThreadStep
<1> QED
  BY <1>1, <1>2, PTL DEF Spec

\* Every variable keeps to its range.
THEOREM TypeCorrect == Spec => []TypeOK
  BY TypeInvariant, PTL DEF TypeInv

-----------------------------------------------------------------------------
\* The single turn: inductive together with the typing.
LEMMA TurnInvariant == Spec => []TurnInv
<1> USE DEF TurnInv, NewWaits, OneHolder, NoLostSignal, Holds
<1>1. Init => TurnInv
  <2> SUFFICES ASSUME Init PROVE TurnInv
    OBVIOUS
  <2>1. \A p \in Procs : \A k \in Thread : pc[p][k] = "wait" /\ ~Holds(p, k)
    BY DEF Init
  <2>2. \A k \in Thread : ev[k] = (k = 0)
    BY DEF Init, InitialEvents
  <2> QED
    BY <2>1, <2>2
<1>2. TypeOK /\ TurnInv /\ [Next]_vars => TurnInv'
  <2> SUFFICES ASSUME TypeOK, TurnInv, [Next]_vars PROVE TurnInv'
    OBVIOUS
  <2> USE DEF TypeOK
  <2>1. ASSUME NEW p \in Procs, Start(p) PROVE TurnInv'
    <3>1. \A q \in Procs : \A k \in Thread : Holds(q, k)' => Holds(q, k)
      BY <2>1 DEF Start
    <3>2. CASE \E q \in Procs : proc[q] = "running"
      BY <2>1, <3>1, <3>2 DEF Start
    <3>3. CASE ~\E q \in Procs : proc[q] = "running"
      <4>1. \A q \in Procs : \A k \in Thread : ~Holds(q, k)
        BY <3>3
      <4>2. \A k \in Thread : ev'[k] = (k = 0)
        BY <2>1, <3>3 DEF Start, InitialEvents
      <4>3. NewWaits'
        BY <2>1 DEF Start
      <4>4. OneHolder'
        BY <2>1 DEF Start
      <4>5. \A q \in Procs : \A k \in Thread : ~Holds(q, k)'
        BY <3>1, <4>1
      <4> QED
        BY <4>2, <4>3, <4>4, <4>5
    <3> QED
      BY <3>2, <3>3
  <2>2. ASSUME NEW p \in Procs, NEW k \in Thread, Wait(p, k) PROVE TurnInv'
    BY <2>2 DEF Wait
  <2>3. ASSUME NEW p \in Procs, NEW k \in Thread, XorWords(p, k) PROVE TurnInv'
    BY <2>3 DEF XorWords
  <2>4. ASSUME NEW p \in Procs, NEW k \in Thread, Set(p, k) PROVE TurnInv'
    <3>1. Holds(p, k)
      BY <2>4 DEF Set
    <3>2. \A q \in Procs : \A j \in Thread : ~Holds(q, j)'
      BY <2>4, <3>1 DEF Set
    <3>3. \A j \in Thread : ev'[j] => j = (k + 1) % N
      BY <2>4, <3>1, NextThread DEF Set
    <3>4. NewWaits'
      BY <2>4 DEF Set
    <3> QED
      BY <3>2, <3>3, <3>4
  <2>5. ASSUME NEW p \in Procs, Exit(p) PROVE TurnInv'
    BY <2>5 DEF Exit
  <2>6. ASSUME NEW p \in Procs, Kill(p) PROVE TurnInv'
    BY <2>6 DEF Kill
  <2>7. CASE UNCHANGED vars
    BY <2>7 DEF vars
  <2> QED
    BY <2>1, <2>2, <2>3, <2>4, <2>5, <2>6, <2>7 DEF Next, ThreadStep
<1> QED
  BY <1>1, <1>2, TypeCorrect, PTL DEF Spec

\* One turn goes round all processes of the session, however they start and end.
THEOREM TurnIsSingle == Spec => []SingleTurn
  BY TurnInvariant, PTL DEF TurnInv, SingleTurn

-----------------------------------------------------------------------------
\* Xoring entry t into what is left after t turns gives what is left after t + 1.
LEMMA XorLeft ==
  ASSUME NEW r \in Turn, NEW t \in Turn
  PROVE  Xor(Left(r, t), t) = Left(r, t + 1)
<1>1. \A i \in Turn : i \in Xor(Left(r, t), t) <=> i \in Left(r, t + 1)
  BY DEF Xor, Left, Turn
<1>2. Xor(Left(r, t), t) \subseteq Turn /\ Left(r, t + 1) \subseteq Turn
  BY DEF Xor, Left
<1> QED
  BY <1>1, <1>2

\* At the reveal turn nothing is left.
LEMMA RevealLeft == \A r \in Turn : Left(r, r + 1) = {}
  BY DEF Left, Turn

\* Another turn than the reveal turn does not change on which side of it we are.
LEMMA NotYet == \A r, t \in Turn : t # r => ((r < t) <=> (r < t + 1))
  BY RingAssumption DEF Turn

\* The words and the copies at every point, and who may have left.
LEMMA DataInvariant == Spec => []DataInv
<1> USE RingAssumption DEF DataInv
<1>1. Init => DataInv
  <2> SUFFICES ASSUME Init PROVE DataInv
    OBVIOUS
  <2>1. ExitInv
    BY DEF Init, ExitInv
  <2>2. ASSUME NEW p \in Procs, NEW k \in Thread, NEW w \in Word
        PROVE  /\ word[p][k][w] = Left(Reveal[k][w], Turns(p, k))
               /\ seen[p][k][w] = IF Reveal[k][w] < Turns(p, k) THEN {{}} ELSE {}
    <3>1. Turns(p, k) = 0 /\ Reveal[k][w] \in Turn
      BY DEF Init, Turns
    <3>2. EncWord(k, w) = Left(Reveal[k][w], 0)
      BY <3>1 DEF EncWord, Left, Turn
    <3> QED
      BY <3>1, <3>2 DEF Init, Turn
  <2> QED
    BY <2>1, <2>2 DEF WordInv
<1>2. TypeInv /\ DataInv /\ [Next]_vars => DataInv'
  <2> SUFFICES ASSUME TypeInv, DataInv, [Next]_vars PROVE DataInv'
    OBVIOUS
  <2>0. TypeOK
    BY DEF TypeInv
  <2>1. ASSUME NEW p \in Procs, Start(p) PROVE DataInv'
    BY <2>0, <2>1 DEF Start, ExitInv, WordInv, Turns, TypeOK
  <2>2. ASSUME NEW p \in Procs, NEW k \in Thread, Wait(p, k) PROVE DataInv'
    <3>1. \A q \in Procs : \A j \in Thread : Turns(q, j)' = Turns(q, j)
      BY <2>0, <2>2 DEF Wait, Turns, TypeOK
    <3> QED
      BY <2>0, <2>2, <3>1 DEF Wait, ExitInv, WordInv, TypeOK
  <2>3. ASSUME NEW p \in Procs, NEW k \in Thread, XorWords(p, k) PROVE DataInv'
    <3> DEFINE t == loop[p][k]
    <3>1. t \in Turn /\ Turns(p, k) = t /\ Turns(p, k)' = t + 1
      BY <2>0, <2>3, InTurn DEF XorWords, Turns, TypeOK, Turn
    <3>2. \A q \in Procs : \A j \in Thread :
            <<q, j>> # <<p, k>> => /\ Turns(q, j)' = Turns(q, j)
                                   /\ word'[q][j] = word[q][j]
                                   /\ seen'[q][j] = seen[q][j]
      BY <2>0, <2>3 DEF XorWords, Turns, TypeOK
    <3>3. ASSUME NEW w \in Word
          PROVE  /\ word'[p][k][w] = Left(Reveal[k][w], t + 1)
                 /\ seen'[p][k][w] = IF Reveal[k][w] < t + 1 THEN {{}} ELSE {}
      <4> DEFINE r == Reveal[k][w]
      <4>1. r \in Turn
        OBVIOUS
      <4>2. word[p][k][w] = Left(r, t) /\ seen[p][k][w] = IF r < t THEN {{}} ELSE {}
        BY <3>1 DEF WordInv
      <4>3. Xor(word[p][k][w], t) = Left(r, t + 1)
        BY <3>1, <4>1, <4>2, XorLeft
      <4>4. word'[p][k][w] = Xor(word[p][k][w], t)
        BY <2>0, <2>3 DEF XorWords, TypeOK
      <4>5. seen'[p][k][w] = IF t = r THEN seen[p][k][w] \cup {Xor(word[p][k][w], t)}
                                      ELSE seen[p][k][w]
        BY <2>0, <2>3 DEF XorWords, TypeOK
      <4>6. CASE t = r
        <5>1. ~(r < t) /\ r < t + 1
          BY <4>1, <4>6 DEF Turn
        <5>2. Left(r, t + 1) = {}
          BY <4>1, <4>6, RevealLeft
        <5> QED
          BY <4>2, <4>3, <4>4, <4>5, <4>6, <5>1, <5>2
      <4>7. CASE t # r
        <5>1. (r < t) <=> (r < t + 1)
          BY <3>1, <4>1, <4>7, NotYet
        <5> QED
          BY <4>2, <4>3, <4>4, <4>5, <4>7, <5>1
      <4> QED
        BY <4>6, <4>7
    <3>4. WordInv'
      <4> SUFFICES ASSUME NEW q \in Procs, NEW j \in Thread, NEW w \in Word
                   PROVE  /\ word'[q][j][w] = Left(Reveal[j][w], Turns(q, j)')
                          /\ seen'[q][j][w] = IF Reveal[j][w] < Turns(q, j)'
                                              THEN {{}} ELSE {}
        BY DEF WordInv
      <4>1. CASE q = p /\ j = k
        BY <3>1, <3>3, <4>1
      <4>2. CASE ~(q = p /\ j = k)
        BY <3>2, <4>2 DEF WordInv
      <4> QED
        BY <4>1, <4>2
    <3>5. ExitInv'
      BY <2>0, <2>3 DEF XorWords, ExitInv, TypeOK
    <3> QED
      BY <3>4, <3>5
  <2>4. ASSUME NEW p \in Procs, NEW k \in Thread, Set(p, k) PROVE DataInv'
    <3>1. \A q \in Procs : \A j \in Thread : Turns(q, j)' = Turns(q, j)
      BY <2>0, <2>4, InTurn DEF Set, Turns, TypeOK, Turn
    <3>2. ExitInv'
      BY <2>0, <2>4 DEF Set, ExitInv, TypeOK
    <3> QED
      BY <2>4, <3>1, <3>2 DEF Set, WordInv
  <2>5. ASSUME NEW p \in Procs, Exit(p) PROVE DataInv'
    BY <2>0, <2>5 DEF Exit, ExitInv, WordInv, Turns, TypeOK
  <2>6. ASSUME NEW p \in Procs, Kill(p) PROVE DataInv'
    BY <2>0, <2>6 DEF Kill, ExitInv, WordInv, Turns, TypeOK
  <2>7. CASE UNCHANGED vars
    BY <2>7 DEF vars, ExitInv, WordInv, Turns
  <2> QED
    BY <2>1, <2>2, <2>3, <2>4, <2>5, <2>6, <2>7 DEF Next, ThreadStep
<1> QED
  BY <1>1, <1>2, TypeInvariant, PTL DEF Spec

\* Whatever is copied to cEvilArray is plaintext, and a process that has left main
\* has copied every word.
THEOREM CaptureCorrect == Spec => []CapturedIsPlain
<1>1. TypeInv /\ DataInv => CapturedIsPlain
  <2> SUFFICES ASSUME TypeInv, DataInv,
                      NEW p \in Procs, NEW k \in Thread, NEW w \in Word
               PROVE  /\ seen[p][k][w] \subseteq {{}}
                      /\ proc[p] = "exited" => seen[p][k][w] = {{}}
    BY DEF CapturedIsPlain
  <2>1. seen[p][k][w] = IF Reveal[k][w] < Turns(p, k) THEN {{}} ELSE {}
    BY DEF DataInv, WordInv
  <2>2. ASSUME proc[p] = "exited" PROVE Reveal[k][w] < Turns(p, k)
    <3>1. pc[p][k] = "done"
      BY <2>2 DEF DataInv, ExitInv
    <3>2. Turns(p, k) = Loops
      BY <3>1, RingAssumption DEF TypeInv, LoopInv, Turns
    <3> QED
      BY <3>2, RingAssumption DEF Turn
  <2> QED
    BY <2>1, <2>2
<1> QED
  BY <1>1, TypeInvariant, DataInvariant, PTL

-----------------------------------------------------------------------------
(* InStep: where the turn is, and how often it has been round.             *)

\* The turn is at position t: its event is signalled, or a thread there has it.
TurnIsAt(t) == ev[t] \/ \E p \in Procs : Holds(p, t)

\* The turn has gone round r times and is at position t.
Round(t, r) ==
  \A k \in Thread : Cardinality(TurnsAt(k)) = IF k < t THEN r + 1 ELSE r

\* While nobody is killed a process that does not run has done no turn or all of them;
\* while one runs there is a turn, and the positions it has passed are one round ahead.
RingInv ==
  kills = 0 =>
    /\ \A p \in Procs : /\ proc[p] # "killed"
                        /\ proc[p] = "new" => \A k \in Thread : loop[p][k] = 0
    /\ (\E p \in Procs : proc[p] = "running") =>
         \E t \in Thread, r \in Nat : TurnIsAt(t) /\ Round(t, r)

LEMMA TurnsFinite ==
  \A k \in Thread : IsFiniteSet(TurnsAt(k)) /\ Cardinality(TurnsAt(k)) \in Nat
<1>1. IsFiniteSet(Turn)
  BY RingAssumption, FS_Interval DEF Turn
<1>2. IsFiniteSet(Procs \X Turn)
  BY <1>1, RingAssumption, FS_Product
<1> QED BY <1>2, FS_Subset, FS_CardinalityType DEF TurnsAt

\* When nobody runs and nobody was killed all positions have done the same turns.
LEMMA AllEqual ==
  ASSUME TypeInv, ExitInv, RingInv, kills = 0, ~ \E p \in Procs : proc[p] = "running",
         NEW j \in Thread, NEW k \in Thread
  PROVE  TurnsAt(j) = TurnsAt(k)
<1>1. ASSUME NEW p \in Procs PROVE loop[p][j] = loop[p][k]
  <2>1. proc[p] \in {"new", "exited"}
    BY DEF TypeInv, TypeOK, RingInv
  <2>2. CASE proc[p] = "new"
    BY <2>2 DEF RingInv
  <2>3. CASE proc[p] = "exited"
    BY <2>3 DEF ExitInv, TypeInv, LoopInv
  <2> QED BY <2>1, <2>2, <2>3
<1> QED BY <1>1 DEF TurnsAt

LEMMA RingInit == Init => RingInv
BY DEF Init, RingInv

\* SetEvent at position k, which has the turn.
LEMMA RingSet ==
  ASSUME TypeInv, TurnInv, RingInv, kills = 0, NEW p \in Procs, NEW k \in Thread, Set(p, k)
  PROVE  \E t \in Thread, r \in Nat : TurnIsAt(t)' /\ Round(t, r)'
<1>1. Holds(p, k) /\ proc[p] = "running" /\ pc[p][k] # "done"
  BY DEF Set, Holds
<1>2. PICK t \in Thread, r \in Nat : TurnIsAt(t) /\ Round(t, r)
  BY <1>1 DEF RingInv
<1>3. t = k
  BY <1>1, <1>2 DEF TurnIsAt, TurnInv, OneHolder, NoLostSignal
<1>4. loop[p][k] \in Turn /\ loop' = [loop EXCEPT ![p][k] = @ + 1]
  BY <1>1, InTurn DEF Set
<1>5. /\ TurnsAt(k)' = TurnsAt(k) \cup {<<p, loop[p][k]>>}
      /\ <<p, loop[p][k]>> \notin TurnsAt(k)
      /\ \A j \in Thread : j # k => TurnsAt(j)' = TurnsAt(j)
  <2>1. \A q \in Procs, j \in Thread :
          loop'[q][j] = IF q = p /\ j = k THEN loop[p][k] + 1 ELSE loop[q][j]
    BY <1>4 DEF TypeInv, TypeOK
  <2>2. \A i \in Turn : i < loop[p][k] + 1 <=> i < loop[p][k] \/ i = loop[p][k]
    BY <1>4 DEF Turn
  <2>3. ~ (loop[p][k] < loop[p][k])
    BY <1>4 DEF Turn
  <2> QED BY <1>4, <2>1, <2>2, <2>3 DEF TurnsAt
<1>6. /\ Cardinality(TurnsAt(k)') = Cardinality(TurnsAt(k)) + 1
      /\ \A j \in Thread : j # k => Cardinality(TurnsAt(j)') = Cardinality(TurnsAt(j))
  BY <1>5, TurnsFinite, FS_AddElement
<1>7. \A j \in Thread : Cardinality(TurnsAt(j)') = IF j <= k THEN r + 1 ELSE r
  BY <1>2, <1>3, <1>6 DEF Round, Thread
<1>8. (k + 1) % N \in Thread /\ ev'[(k + 1) % N]
  BY NextThread DEF Set, TypeInv, TypeOK
<1>9. CASE k + 1 < N
  <2>1. (k + 1) % N = k + 1
    <3>1. k + 1 \in Nat /\ N \in Nat \ {0}
      BY RingAssumption DEF Thread
    <3>2. \A m \in Nat, n \in Nat \ {0} : m < n => m % n = m
      OBVIOUS
    <3> QED BY <1>9, <3>1, <3>2
  <2>2. \A j \in Thread : j <= k <=> j < k + 1
    BY DEF Thread
  <2> QED BY <1>7, <1>8, <2>1, <2>2 DEF Round, TurnIsAt
<1>10. CASE k + 1 = N
  <2>1. (k + 1) % N = 0
    BY <1>10, RingAssumption
  <2>2. \A j \in Thread : j <= k /\ ~ (j < 0)
    BY <1>10, RingAssumption DEF Thread
  <2>3. \A j \in Thread : Cardinality(TurnsAt(j)') = r + 1
    BY <1>7, <2>2
  <2> QED BY <1>8, <2>1, <2>2, <2>3 DEF Round, TurnIsAt
<1> QED BY <1>9, <1>10, RingAssumption DEF Thread

LEMMA RingStep ==
  ASSUME TypeInv, TurnInv, ExitInv, RingInv, [Next]_vars
  PROVE  RingInv'
<1> USE DEF TypeInv, TypeOK
<1>1. ASSUME NEW p \in Procs, Start(p) PROVE RingInv'
  <2>1. UNCHANGED <<loop, pc, kills>> /\ \A k \in Thread : TurnsAt(k)' = TurnsAt(k)
    BY <1>1 DEF Start, TurnsAt
  <2>2. ASSUME kills = 0
        PROVE  \A q \in Procs : /\ proc'[q] # "killed"
                                /\ proc'[q] = "new" => \A k \in Thread : loop[q][k] = 0
    BY <1>1, <2>2 DEF Start, RingInv
  <2>3. CASE \E q \in Procs : proc[q] = "running"
    <3>1. ASSUME NEW t \in Thread, TurnIsAt(t) PROVE TurnIsAt(t)'
      BY <1>1, <2>3, <3>1 DEF Start, TurnIsAt, Holds
    <3>2. ASSUME NEW t, NEW r, Round(t, r) PROVE Round(t, r)'
      BY <2>1, <3>2 DEF Round
    <3> QED BY <2>1, <2>2, <2>3, <3>1, <3>2 DEF RingInv
  <2>4. CASE ~ \E q \in Procs : proc[q] = "running"
    <3> SUFFICES ASSUME kills = 0 PROVE \E t \in Thread, r \in Nat : TurnIsAt(t)' /\ Round(t, r)'
      BY <2>1, <2>2 DEF RingInv
    <3>1. TurnIsAt(0)'
      BY <1>1, <2>4, FirstThread DEF Start, InitialEvents, TurnIsAt
    <3>2. \A k \in Thread : ~ (k < 0) /\ Cardinality(TurnsAt(k)) = Cardinality(TurnsAt(0))
      BY <2>4, FirstThread, AllEqual DEF Thread
    <3>3. Round(0, Cardinality(TurnsAt(0)))'
      BY <2>1, <3>2, FirstThread DEF Round
    <3>4. Cardinality(TurnsAt(0)') \in Nat
      BY <2>1, FirstThread, TurnsFinite
    <3> QED BY <3>1, <3>3, <3>4, FirstThread
  <2> QED BY <2>3, <2>4
<1>2. ASSUME NEW p \in Procs, NEW k \in Thread, Wait(p, k) \/ XorWords(p, k) PROVE RingInv'
  <2>1. /\ UNCHANGED <<loop, proc, kills>> /\ \A j \in Thread : TurnsAt(j)' = TurnsAt(j)
        /\ proc[p] = "running"
    BY <1>2 DEF Wait, XorWords, TurnsAt
  <2>2. ASSUME NEW t \in Thread, TurnIsAt(t) PROVE TurnIsAt(t)'
    <3>1. CASE Wait(p, k)
      <4>1. t = k
        BY <2>2, <3>1 DEF Wait, TurnIsAt, TurnInv, NoLostSignal
      <4>2. Holds(p, k)'
        BY <3>1 DEF Wait, Holds
      <4> QED BY <4>1, <4>2 DEF TurnIsAt
    <3>2. CASE XorWords(p, k)
      BY <2>2, <3>2 DEF XorWords, TurnIsAt, Holds
    <3> QED BY <1>2, <3>1, <3>2
  <2>3. ASSUME NEW t, NEW r, Round(t, r) PROVE Round(t, r)'
    BY <2>1, <2>3 DEF Round
  <2> QED BY <2>1, <2>2, <2>3 DEF RingInv
<1>3. ASSUME NEW p \in Procs, NEW k \in Thread, Set(p, k) PROVE RingInv'
  <2>1. UNCHANGED <<proc, kills>> /\ proc[p] = "running"
        /\ \A q \in Procs : q # p => loop'[q] = loop[q]
    BY <1>3 DEF Set
  <2>2. ASSUME kills = 0, NEW q \in Procs
        PROVE  /\ proc[q] # "killed"
               /\ proc[q] = "new" => \A j \in Thread : loop'[q][j] = 0
    BY <2>1, <2>2 DEF RingInv
  <2>3. kills = 0 => \E t \in Thread, r \in Nat : TurnIsAt(t)' /\ Round(t, r)'
    BY <1>3, RingSet
  <2> QED BY <2>1, <2>2, <2>3 DEF RingInv
<1>4. ASSUME NEW p \in Procs, Exit(p) PROVE RingInv'
  <2>1. /\ UNCHANGED <<loop, ev, pc, kills>> /\ \A j \in Thread : TurnsAt(j)' = TurnsAt(j)
        /\ proc' = [proc EXCEPT ![p] = "exited"] /\ \A k \in Thread : pc[p][k] = "done"
        /\ proc[p] = "running"
    BY <1>4 DEF Exit, TurnsAt
  <2>2. ASSUME NEW t \in Thread, TurnIsAt(t) PROVE TurnIsAt(t)'
    BY <2>1, <2>2 DEF TurnIsAt, Holds
  <2>3. ASSUME NEW t, NEW r, Round(t, r) PROVE Round(t, r)'
    BY <2>1, <2>3 DEF Round
  <2> QED BY <2>1, <2>2, <2>3 DEF RingInv
<1>5. ASSUME NEW p \in Procs, Kill(p) PROVE RingInv'
  <2>1. kills' # 0
    BY <1>5 DEF Kill
  <2> QED BY <2>1 DEF RingInv
<1>6. CASE UNCHANGED vars
  <2>1. UNCHANGED <<proc, ev, pc, loop, kills>> /\ \A j \in Thread : TurnsAt(j)' = TurnsAt(j)
    BY <1>6 DEF vars, TurnsAt
  <2>2. ASSUME NEW t \in Thread, TurnIsAt(t) PROVE TurnIsAt(t)'
    BY <2>1, <2>2 DEF TurnIsAt, Holds
  <2>3. ASSUME NEW t, NEW r, Round(t, r) PROVE Round(t, r)'
    BY <2>1, <2>3 DEF Round
  <2> QED BY <2>1, <2>2, <2>3 DEF RingInv
<1> QED BY <1>1, <1>2, <1>3, <1>4, <1>5, <1>6 DEF Next, ThreadStep

\* The threads at an earlier position of the ring are never more than one round ahead of
\* those at a later one, and never behind, over all processes that share the events.
THEOREM RingInStep == Spec => []InStep
<1>1. TypeInv /\ ExitInv /\ RingInv => InStep
  <2> SUFFICES ASSUME TypeInv, ExitInv, RingInv, kills = 0, NEW j \in Thread, NEW k \in Thread, j < k
               PROVE  Cardinality(TurnsAt(j)) - Cardinality(TurnsAt(k)) \in {0, 1}
    BY DEF InStep
  <2>1. Cardinality(TurnsAt(j)) \in Nat /\ Cardinality(TurnsAt(k)) \in Nat
    BY TurnsFinite
  <2>2. CASE \E p \in Procs : proc[p] = "running"
    <3>1. PICK t \in Thread, r \in Nat : Round(t, r)
      BY <2>2 DEF RingInv
    <3> QED BY <2>1, <3>1 DEF Round, Thread
  <2>3. CASE ~ \E p \in Procs : proc[p] = "running"
    BY <2>1, <2>3, AllEqual
  <2> QED BY <2>2, <2>3
<1> QED
  BY <1>1, RingInit, RingStep, TypeInvariant, TurnInvariant, DataInvariant, PTL DEF Spec, DataInv

-----------------------------------------------------------------------------
(* The refinement: one process, its threads, and TestDecrypt.              *)

\* How many turns each thread of the only process has xored.
Counters == [k \in Thread |-> Turns(TheProc, k)]

\* TestDecrypt would execute the lines of thread t in iteration r: the threads before t
\* have xored in this round, and t has the turn or gets it by the event that is set next.
Row(t, r) == [k \in Thread |-> IF k < t THEN r + 1 ELSE r]
NextIs(t) ==
  \/ ev[t] \/ pc[TheProc][t] = "xor"
  \/ \E k \in Thread : pc[TheProc][k] = "set" /\ (k + 1) % N = t

SequentialInv ==
  /\ proc[TheProc] = "new" => Counters = Row(0, 0)
  /\ proc[TheProc] = "running" => \E t \in Thread, r \in Nat : NextIs(t) /\ Counters = Row(t, r)

\* TestDecrypt's counters.
SeqI == LastTurns
SeqK == Cardinality({t \in Thread : Turns(TheProc, t) > LastTurns})

LEMMA OneProc ==
  ASSUME Cardinality(Procs) = 1
  PROVE  Procs = {TheProc}
<1>1. PICK q : Procs = {q}
  BY FS_Singleton, RingAssumption
<1> QED BY <1>1 DEF TheProc

LEMMA LastThread == N - 1 \in Thread
  BY RingAssumption DEF Thread

\* The counters of TestDecrypt are those of the ring.
LEMMA SeqOfCounters ==
  /\ SeqI = Counters[N - 1]
  /\ SeqK = Cardinality({k \in Thread : Counters[k] > Counters[N - 1]})
<1>1. LastTurns = Counters[N - 1]
  BY LastThread DEF LastTurns, Counters
<1>2. {k \in Thread : Turns(TheProc, k) > LastTurns} = {k \in Thread : Counters[k] > Counters[N - 1]}
  BY <1>1 DEF Counters
<1> QED BY <1>1, <1>2 DEF SeqI, SeqK

\* What a row of counters says of TestDecrypt's position.
LEMMA RowPosition ==
  ASSUME NEW t \in Thread, NEW r \in Nat, NEW c, c = Row(t, r)
  PROVE  c[N - 1] = r /\ Cardinality({k \in Thread : c[k] > c[N - 1]}) = t
<1>1. N - 1 \in Thread /\ ~ (N - 1 < t)
  BY RingAssumption DEF Thread
<1>2. c[N - 1] = r
  BY <1>1 DEF Row
<1>3. {k \in Thread : c[k] > r} = 0 .. t - 1
  <2>1. \A k \in Thread : (IF k < t THEN r + 1 ELSE r) > r <=> k < t
    OBVIOUS
  <2>2. \A k \in Thread : c[k] > r <=> k < t
    BY <2>1 DEF Row
  <2>3. 0 .. t - 1 = {k \in Thread : k < t}
    BY RingAssumption DEF Thread
  <2> QED BY <2>2, <2>3
<1>4. Cardinality(0 .. t - 1) = t
  <2>1. t \in Nat
    BY DEF Thread
  <2>2. CASE t = 0
    <3>1. 0 .. t - 1 = {}
      BY <2>2
    <3> QED BY <2>2, <3>1, FS_EmptySet
  <2>3. CASE t > 0
    <3>1. 0 \in Int /\ t - 1 \in Int /\ 0 <= t - 1
      BY <2>1, <2>3
    <3> QED BY <2>1, <3>1, FS_Interval
  <2> QED BY <2>1, <2>2, <2>3
<1> QED BY <1>2, <1>3, <1>4

\* After thread k's turn the row is that of the next thread, in the next round after the last.
LEMMA NextRow ==
  ASSUME NEW k \in Thread, NEW r \in Nat
  PROVE  [Row(k, r) EXCEPT ![k] = r + 1] =
           Row((k + 1) % N, IF k = N - 1 THEN r + 1 ELSE r)
<1> DEFINE c == [Row(k, r) EXCEPT ![k] = r + 1]
<1>1. c = [j \in Thread |-> IF j <= k THEN r + 1 ELSE r]
  <2>1. \A j \in Thread : (j = k \/ j < k) <=> j <= k
    BY DEF Thread
  <2>2. c = [j \in Thread |-> IF j = k \/ j < k THEN r + 1 ELSE r]
    BY DEF Row
  <2> QED BY <2>1, <2>2
<1>2. CASE k + 1 < N
  <2>1. (k + 1) % N = k + 1
    BY <1>2, Successor
  <2>2. k # N - 1
    BY <1>2, RingAssumption DEF Thread
  <2>3. \A j \in Thread : j <= k <=> j < k + 1
    BY DEF Thread
  <2>4. Row(k + 1, r) = [j \in Thread |-> IF j <= k THEN r + 1 ELSE r]
    BY <2>3 DEF Row
  <2> QED BY <1>1, <2>1, <2>2, <2>4
<1>3. CASE k + 1 = N
  <2>1. (k + 1) % N = 0 /\ k = N - 1
    BY <1>3, Successor DEF Thread
  <2>2. \A j \in Thread : j <= k /\ ~ (j < 0)
    BY <1>3, RingAssumption DEF Thread
  <2>3. Row(0, r + 1) = [j \in Thread |-> IF j <= k THEN r + 1 ELSE r]
    BY <2>2 DEF Row
  <2> QED BY <1>1, <2>1, <2>3
<1> QED BY <1>2, <1>3, RingAssumption DEF Thread

\* What the counters are next.
LEMMA CountersAfter ==
  ASSUME TypeInv, Procs = {TheProc}, NEW k \in Thread
  PROVE  /\ Wait(TheProc, k) \/ Set(TheProc, k) => Counters' = Counters
         /\ XorWords(TheProc, k) =>
              Counters' = [Counters EXCEPT ![k] = loop[TheProc][k] + 1]
         /\ XorWords(TheProc, k) => Counters[k] = loop[TheProc][k]
<1> DEFINE P == TheProc
<1>0. P \in Procs
  OBVIOUS
<1> HIDE DEF P
<1> USE DEF TypeInv, TypeOK, Turns
<1>1. ASSUME Wait(P, k), NEW j \in Thread PROVE Turns(P, j)' = Turns(P, j)
  BY <1>0, <1>1 DEF Wait
<1>2. ASSUME Set(P, k), NEW j \in Thread PROVE Turns(P, j)' = Turns(P, j)
  <2>1. loop[P][k] \in Nat
    BY <1>0, <1>2, InTurn DEF Set, Turn
  <2> QED BY <1>0, <1>2, <2>1 DEF Set
<1>3. ASSUME XorWords(P, k), NEW j \in Thread
      PROVE  Turns(P, j)' = IF j = k THEN loop[P][k] + 1 ELSE Turns(P, j)
  BY <1>0, <1>3 DEF XorWords
<1>4. ASSUME XorWords(P, k) PROVE Turns(P, k) = loop[P][k]
  <2>1. loop[P][k] \in Nat
    BY <1>0, <1>4, InTurn DEF XorWords, Turn
  <2> QED BY <1>0, <1>4, <2>1 DEF XorWords
<1> QED BY <1>1, <1>2, <1>3, <1>4 DEF Counters, P

\* Only the thread at the position can be woken or xor.
LEMMA AtPosition ==
  ASSUME TypeInv, TurnInv, NEW t \in Thread, NextIs(t), NEW k \in Thread, TheProc \in Procs,
         proc[TheProc] = "running",
         ev[k] \/ pc[TheProc][k] = "xor"
  PROVE  k = t
<1>1. pc[TheProc][k] = "xor" => Holds(TheProc, k)
  BY DEF Holds
<1>2. pc[TheProc][t] = "xor" => Holds(TheProc, t)
  BY DEF Holds
<1>3. \A j \in Thread : pc[TheProc][j] = "set" => Holds(TheProc, j) /\ pc[TheProc][j] # "xor"
  BY DEF Holds
<1> QED BY <1>1, <1>2, <1>3 DEF NextIs, TurnInv, OneHolder, NoLostSignal

\* The thread at the position xors: one step of TestDecrypt.
LEMMA XorStep ==
  ASSUME TypeInv, TurnInv, SequentialInv, Procs = {TheProc}, NEW k \in Thread, XorWords(TheProc, k)
  PROVE  Sequential!Step /\ SequentialInv'
<1>1. /\ proc[TheProc] = "running" /\ pc[TheProc][k] = "xor" /\ TheProc \in Procs
      /\ proc' = proc /\ pc' = [pc EXCEPT ![TheProc][k] = "set"]
  BY DEF XorWords
<1>2. PICK t \in Thread, r \in Nat : NextIs(t) /\ Counters = Row(t, r)
  BY <1>1 DEF SequentialInv
<1>3. t = k
  BY <1>1, <1>2, AtPosition
<1>4. loop[TheProc][k] = r
  <2>1. Row(k, r)[k] = r
    BY DEF Row, Thread
  <2> QED BY <1>2, <1>3, <2>1, CountersAfter
<1>5. r < Loops
  BY <1>1, <1>4 DEF TypeInv, LoopInv
<1> DEFINE u == (k + 1) % N
           s == IF k = N - 1 THEN r + 1 ELSE r
<1>6. u \in Thread /\ s \in Nat
  BY NextThread
<1>7. Counters' = Row(u, s)
  BY <1>2, <1>3, <1>4, CountersAfter, NextRow
<1>8. LastTurns = r /\ SeqK = k
  <2>1. SeqI = r /\ SeqK = k
    BY <1>2, <1>3, RowPosition, SeqOfCounters
  <2> QED BY <2>1 DEF SeqI
<1>9. LastTurns' = s /\ SeqK' = u
  <2> HIDE DEF u, s
  <2>1. Counters'[N - 1] = s /\ Cardinality({j \in Thread : Counters'[j] > Counters'[N - 1]}) = u
    BY <1>6, <1>7, RowPosition
  <2>2. LastTurns' = Counters'[N - 1]
    BY LastThread DEF LastTurns, Counters, Turns
  <2>3. SeqK' = Cardinality({j \in Thread : Counters'[j] > Counters'[N - 1]})
    BY <2>2 DEF SeqK, Counters, Turns
  <2> QED BY <2>1, <2>2, <2>3
<1>10. word[TheProc]' = [word[TheProc] EXCEPT ![k] = [w \in Word |-> Xor(word[TheProc][k][w], r)]]
  BY <1>1, <1>4 DEF XorWords, TypeInv, TypeOK
<1>11. seen[TheProc]' = [seen[TheProc] EXCEPT ![k] =
          [w \in Word |-> IF r = Reveal[k][w] THEN seen[TheProc][k][w] \cup {word[TheProc]'[k][w]}
                                              ELSE seen[TheProc][k][w]]]
  <2>1. \A w \in Word : word[TheProc]'[k][w] = Xor(word[TheProc][k][w], r)
    BY <1>1, <1>10 DEF TypeInv, TypeOK
  <2>2. seen[TheProc]' = [seen[TheProc] EXCEPT ![k] =
          [w \in Word |-> IF r = Reveal[k][w]
                          THEN seen[TheProc][k][w] \cup {Xor(word[TheProc][k][w], r)}
                          ELSE seen[TheProc][k][w]]]
    BY <1>1, <1>4 DEF XorWords, TypeInv, TypeOK
  <2> QED BY <2>1, <2>2
<1>12. Sequential!Step
  BY <1>5, <1>8, <1>9, <1>10, <1>11
     DEF Sequential!Step, Sequential!Xor, Sequential!Word, Sequential!Thread, Xor, Word, SeqK
<1>13. SequentialInv'
  <2>1. pc[TheProc]'[k] = "set"
    BY <1>1 DEF TypeInv, TypeOK
  <2>2. NextIs(u)'
    BY <2>1 DEF NextIs
  <2> HIDE DEF u, s
  <2> QED BY <1>1, <1>6, <1>7, <2>2 DEF SequentialInv
<1> QED BY <1>12, <1>13

\* TestDecrypt's variables are unchanged: a stutter of the sequential loop.
LEMMA Stutter ==
  ASSUME Counters' = Counters, word[TheProc]' = word[TheProc], seen[TheProc]' = seen[TheProc]
  PROVE  UNCHANGED Sequential!vars
<1>1. LastTurns' = LastTurns
  <2>1. LastTurns = Counters[N - 1] /\ LastTurns' = Counters'[N - 1]
    BY LastThread DEF LastTurns, Counters, Turns
  <2> QED BY <2>1
<1>2. SeqK' = SeqK
  <2>1. SeqK = Cardinality({j \in Thread : Counters[j] > LastTurns})
    BY DEF SeqK, Counters, Turns
  <2>2. SeqK' = Cardinality({j \in Thread : Counters'[j] > LastTurns'})
    BY DEF SeqK, Counters, Turns
  <2> QED BY <1>1, <2>1, <2>2
<1> QED BY <1>1, <1>2 DEF Sequential!vars, SeqK

\* A thread of the ring waits or signals: a stutter that keeps the position.
LEMMA TurnStutter ==
  ASSUME TypeInv, TurnInv, SequentialInv, Procs = {TheProc}, NEW k \in Thread,
         Wait(TheProc, k) \/ Set(TheProc, k)
  PROVE  UNCHANGED Sequential!vars /\ SequentialInv'
<1>1. proc[TheProc] = "running" /\ TheProc \in Procs /\ proc' = proc /\ UNCHANGED <<word, seen>>
  BY DEF Wait, Set
<1>2. PICK t \in Thread, r \in Nat : NextIs(t) /\ Counters = Row(t, r)
  BY <1>1 DEF SequentialInv
<1>3. Counters' = Counters
  BY CountersAfter
<1>4. NextIs(t)'
  <2>1. CASE Wait(TheProc, k)
    <3>1. k = t
      BY <1>1, <1>2, <2>1, AtPosition DEF Wait
    <3>2. pc[TheProc]'[t] = "xor"
      BY <1>1, <2>1, <3>1 DEF Wait, TypeInv, TypeOK
    <3> QED BY <3>2 DEF NextIs
  <2>2. CASE Set(TheProc, k)
    <3>1. pc[TheProc][k] = "set" /\ Holds(TheProc, k)
      BY <2>2 DEF Set, Holds
    <3>2. ~ ev[t]
      BY <1>1, <3>1 DEF TurnInv, NoLostSignal
    <3>3. \A j \in Thread : pc[TheProc][j] \in {"xor", "set"} => j = k
      BY <1>1, <3>1 DEF TurnInv, OneHolder, Holds
    <3>4. (k + 1) % N = t
      BY <1>2, <3>1, <3>2, <3>3 DEF NextIs
    <3>5. ev'[t]
      BY <2>2, <3>4 DEF Set, TypeInv, TypeOK
    <3> QED BY <3>5 DEF NextIs
  <2> QED BY <2>1, <2>2
<1>5. SequentialInv'
  BY <1>1, <1>2, <1>3, <1>4 DEF SequentialInv
<1> QED BY <1>1, <1>3, <1>5, Stutter

\* The process starts, leaves or is killed, or nothing happens.
LEMMA ProcessStutter ==
  ASSUME TypeInv, TurnInv, SequentialInv, Procs = {TheProc},
         Start(TheProc) \/ Exit(TheProc) \/ Kill(TheProc) \/ UNCHANGED vars
  PROVE  UNCHANGED Sequential!vars /\ SequentialInv'
<1>1. UNCHANGED <<pc, loop, word, seen>> /\ TheProc \in Procs
  BY DEF Start, Exit, Kill, vars
<1>2. Counters' = Counters
  BY <1>1 DEF Counters, Turns
<1>3. SequentialInv'
  <2>1. CASE Start(TheProc)
    <3>1. proc[TheProc] = "new" /\ proc[TheProc]' = "running" /\ ev'[0]
      BY <1>1, <2>1, FirstThread DEF Start, InitialEvents, TypeInv, TypeOK
    <3>2. NextIs(0)' /\ Counters' = Row(0, 0)
      BY <1>2, <3>1 DEF NextIs, SequentialInv
    <3> QED BY <3>1, <3>2, FirstThread DEF SequentialInv
  <2>2. CASE Exit(TheProc) \/ Kill(TheProc)
    <3>1. proc[TheProc]' \in {"exited", "killed"}
      BY <1>1, <2>2 DEF Exit, Kill, TypeInv, TypeOK
    <3> QED BY <3>1 DEF SequentialInv
  <2>3. CASE UNCHANGED vars
    <3>1. UNCHANGED <<proc, ev, pc>>
      BY <2>3 DEF vars
    <3>2. ASSUME NEW t \in Thread, NextIs(t) PROVE NextIs(t)'
      BY <3>1, <3>2 DEF NextIs
    <3> QED BY <1>2, <3>1, <3>2 DEF SequentialInv
  <2> QED BY <2>1, <2>2, <2>3
<1> QED BY <1>1, <1>2, <1>3, Stutter

\* Before anything runs, the ring is at TestDecrypt's first line.
LEMMA SequentialStart ==
  ASSUME Init, Procs = {TheProc}
  PROVE  Sequential!Init /\ SequentialInv
<1>1. TheProc \in Procs
  OBVIOUS
<1>2. Counters = Row(0, 0)
  <2>1. \A k \in Thread : Turns(TheProc, k) = 0
    BY <1>1 DEF Init, Turns
  <2>2. \A k \in Thread : ~ (k < 0)
    BY DEF Thread
  <2> QED BY <2>1, <2>2 DEF Counters, Row
<1>3. LastTurns = 0 /\ SeqK = 0
  <2>1. SeqI = 0 /\ SeqK = 0
    BY <1>2, FirstThread, RowPosition, SeqOfCounters
  <2> QED BY <2>1 DEF SeqI
<1>4. /\ word[TheProc] = [k \in Thread |-> [w \in Word |-> EncWord(k, w)]]
      /\ seen[TheProc] = [k \in Thread |-> [w \in Word |-> {}]]
      /\ proc[TheProc] = "new"
  BY <1>1 DEF Init
<1>5. Sequential!Init
  BY <1>3, <1>4 DEF Sequential!Init, Sequential!Thread, Sequential!Word, Sequential!Turn,
                    Thread, Word, Turn, EncWord, SeqK
<1> QED BY <1>2, <1>4, <1>5 DEF SequentialInv

\* One process of five threads computes what TestDecrypt's single loop computes: every
\* step of the ring is a step of the loop or leaves its variables alone.
THEOREM RingRefines ==
  ASSUME Cardinality(Procs) = 1
  PROVE  Spec => RefinesSequential
<1>1. Procs = {TheProc}
  BY OneProc
<1>2. Init => Sequential!Init /\ SequentialInv
  BY <1>1, SequentialStart
<1>3. TypeInv /\ TurnInv /\ SequentialInv /\ [Next]_vars
        => [Sequential!Step]_(Sequential!vars) /\ SequentialInv'
  <2> SUFFICES ASSUME TypeInv, TurnInv, SequentialInv, [Next]_vars
               PROVE  (Sequential!Step \/ UNCHANGED Sequential!vars) /\ SequentialInv'
    OBVIOUS
  <2>1. ASSUME NEW p \in Procs, NEW k \in Thread, XorWords(p, k)
        PROVE  Sequential!Step /\ SequentialInv'
    <3>1. p = TheProc
      BY <1>1
    <3> QED BY <1>1, <2>1, <3>1, XorStep
  <2>2. ASSUME NEW p \in Procs, NEW k \in Thread, Wait(p, k) \/ Set(p, k)
        PROVE  UNCHANGED Sequential!vars /\ SequentialInv'
    <3>1. p = TheProc
      BY <1>1
    <3> QED BY <1>1, <2>2, <3>1, TurnStutter
  <2>3. ASSUME NEW p \in Procs, Start(p) \/ Exit(p) \/ Kill(p)
        PROVE  UNCHANGED Sequential!vars /\ SequentialInv'
    <3>1. p = TheProc
      BY <1>1
    <3> QED BY <1>1, <2>3, <3>1, ProcessStutter
  <2>4. CASE UNCHANGED vars
    BY <1>1, <2>4, ProcessStutter
  <2> QED BY <2>1, <2>2, <2>3, <2>4 DEF Next, ThreadStep
<1> QED
  BY <1>2, <1>3, TypeInvariant, TurnInvariant, PTL DEF Spec, RefinesSequential, Sequential!Spec
=============================================================================
