----------------------------- MODULE EventRing -----------------------------
(***************************************************************************)
(* The thread ring of ctf_bin2: N threads per process take turns by        *)
(* auto-reset events hEvents[0..N-1] (N = 5 in the code), each one xors    *)
(* its two words of bEncArray with its own table once per turn, for Loops  *)
(* turns (dwLoopCounter).  A word shows its plaintext only after one known *)
(* turn, when it is copied to cEvilArray.                                  *)
(*                                                                         *)
(* The events are NAMED kernel objects ("T0".."T4"): every process of the  *)
(* session that runs the program shares them, so the model has a set of    *)
(* processes, and a process may be killed.                                 *)
(*                                                                         *)
(* Data: a word is the set of table indices xored into it, on top of the   *)
(* plaintext; xor with entry i is symmetric difference with {i}.  {} is    *)
(* therefore the plaintext, for every table.                               *)
(***************************************************************************)
EXTENDS Integers, FiniteSets

CONSTANTS
  Procs,      \* the processes running the program in one session
  N,          \* number of threads (and events) of a process
  Loops,      \* dwLoopCounter
  Reveal,     \* Reveal[k][w]: the turn after which word w of thread k is plain
  KillBound   \* how many processes may be killed

Thread == 0 .. N-1
Turn   == 0 .. Loops-1
Word   == {0, 1}          \* dwp_Tk0 and dwp_Tk1

ASSUME RingAssumption ==
  /\ N \in Nat \ {0}
  /\ Loops \in Nat \ {0}
  /\ Reveal \in [Thread -> [Word -> Turn]]
  /\ IsFiniteSet(Procs) /\ KillBound \in Nat

VARIABLES
  proc,    \* proc[p]: where the process is in its life
  ev,      \* ev[k]: event k is signalled
  pc,      \* pc[p][k]: where thread k of process p is in its loop body
  loop,    \* loop[p][k]: its i
  word,    \* word[p][k][w]: table indices still xored into the word
  seen,    \* seen[p][k][w]: the values copied to its place in cEvilArray
  kills
vars == <<proc, ev, pc, loop, word, seen, kills>>

\* The values the variables range over.
TypeOK ==
  /\ proc \in [Procs -> {"new", "running", "exited", "killed"}]
  /\ ev \in [Thread -> BOOLEAN]
  /\ pc \in [Procs -> [Thread -> {"wait", "xor", "set", "done"}]]
  /\ loop \in [Procs -> [Thread -> 0 .. Loops]]
  /\ word \in [Procs -> [Thread -> [Word -> SUBSET Turn]]]
  /\ seen \in [Procs -> [Thread -> [Word -> SUBSET SUBSET Turn]]]
  /\ kills \in 0 .. KillBound

-----------------------------------------------------------------------------
Xor(s, i) == (s \ {i}) \cup ({i} \ s)

\* Mutant of EncWord: an off-by-one in the encoder's comparison.
EncWordMutant(k, w) == {i \in Turn : i < Reveal[k][w]}

\* MakeEncMessage xors entries Reveal, .., 0 into the plaintext.
EncWord(k, w) == {i \in Turn : i <= Reveal[k][w]}

\* CreateEvent: manual reset FALSE, only the first event is created signalled.
InitialEvents == [k \in Thread |-> k = 0]

Init ==
  /\ proc = [p \in Procs |-> "new"]
  /\ ev = InitialEvents
  /\ pc = [p \in Procs |-> [k \in Thread |-> "wait"]]
  /\ loop = [p \in Procs |-> [k \in Thread |-> 0]]
  /\ word = [p \in Procs |-> [k \in Thread |-> [w \in Word |-> EncWord(k, w)]]]
  /\ seen = [p \in Procs |-> [k \in Thread |-> [w \in Word |-> {}]]]
  /\ kills = 0

\* Mutant of Start: CreateEvent is taken to reset an event that exists already.
StartMutant(p) ==
  /\ proc[p] = "new"
  /\ proc' = [proc EXCEPT ![p] = "running"]
  /\ ev' = InitialEvents
  /\ UNCHANGED <<pc, loop, word, seen, kills>>

\* _tmain: CreateEvent opens an event that another process holds and leaves its
\* state alone; otherwise it creates it.  Then the threads are created.
Start(p) ==
  /\ proc[p] = "new"
  /\ proc' = [proc EXCEPT ![p] = "running"]
  /\ ev' = IF \E q \in Procs : proc[q] = "running" THEN ev ELSE InitialEvents
  /\ UNCHANGED <<pc, loop, word, seen, kills>>

\* Mutant of Wait: the event is created with manual reset and stays signalled.
WaitMutant(p, k) ==
  /\ proc[p] = "running" /\ pc[p][k] = "wait" /\ ev[k]
  /\ pc' = [pc EXCEPT ![p][k] = "xor"]
  /\ UNCHANGED <<proc, ev, loop, word, seen, kills>>

\* WaitForSingleObject(hEvents[k], INFINITE): an auto-reset event releases one
\* waiter and is reset by that.
Wait(p, k) ==
  /\ proc[p] = "running" /\ pc[p][k] = "wait" /\ ev[k]
  /\ ev' = [ev EXCEPT ![k] = FALSE]
  /\ pc' = [pc EXCEPT ![p][k] = "xor"]
  /\ UNCHANGED <<proc, loop, word, seen, kills>>

\* Both words are xored with table entry i; the one whose turn it is is copied.
XorWords(p, k) ==
  /\ proc[p] = "running" /\ pc[p][k] = "xor"
  /\ LET i == loop[p][k]
         new == [w \in Word |-> Xor(word[p][k][w], i)]
     IN /\ word' = [word EXCEPT ![p][k] = new]
        /\ seen' = [seen EXCEPT ![p][k] =
                      [w \in Word |-> IF i = Reveal[k][w] THEN @[w] \cup {new[w]} ELSE @[w]]]
  /\ pc' = [pc EXCEPT ![p][k] = "set"]
  /\ UNCHANGED <<proc, ev, loop, kills>>

\* Mutant of Set: the last thread does not wrap round to the first event.
SetMutant(p, k) ==
  /\ proc[p] = "running" /\ pc[p][k] = "set"
  /\ ev' = [e \in Thread |-> e = k + 1 \/ ev[e]]
  /\ loop' = [loop EXCEPT ![p][k] = @ + 1]
  /\ pc' = [pc EXCEPT ![p][k] = IF loop[p][k] + 1 < Loops THEN "wait" ELSE "done"]
  /\ UNCHANGED <<proc, word, seen, kills>>

\* Mutant of Set: the loop runs once too often (i<=dwLoopCounter).
SetOnceMore(p, k) ==
  /\ proc[p] = "running" /\ pc[p][k] = "set"
  /\ ev' = [ev EXCEPT ![(k + 1) % N] = TRUE]
  /\ loop' = [loop EXCEPT ![p][k] = @ + 1]
  /\ pc' = [pc EXCEPT ![p][k] = IF loop[p][k] < Loops THEN "wait" ELSE "done"]
  /\ UNCHANGED <<proc, word, seen, kills>>

\* SetEvent on the next event of the ring, then the loop condition.
Set(p, k) ==
  /\ proc[p] = "running" /\ pc[p][k] = "set"
  /\ ev' = [ev EXCEPT ![(k + 1) % N] = TRUE]
  /\ loop' = [loop EXCEPT ![p][k] = @ + 1]
  /\ pc' = [pc EXCEPT ![p][k] = IF loop[p][k] + 1 < Loops THEN "wait" ELSE "done"]
  /\ UNCHANGED <<proc, word, seen, kills>>

\* WaitForMultipleObjects(5, .., TRUE, INFINITE) returns: main leaves.
Exit(p) ==
  /\ proc[p] = "running"
  /\ \A k \in Thread : pc[p][k] = "done"
  /\ proc' = [proc EXCEPT ![p] = "exited"]
  /\ UNCHANGED <<ev, pc, loop, word, seen, kills>>

\* The process is terminated from outside, anywhere.
Kill(p) ==
  /\ proc[p] = "running" /\ kills < KillBound
  /\ proc' = [proc EXCEPT ![p] = "killed"]
  /\ kills' = kills + 1
  /\ UNCHANGED <<ev, pc, loop, word, seen>>

ThreadStep(p, k) == Wait(p, k) \/ XorWords(p, k) \/ Set(p, k)

Next ==
  \E p \in Procs :
    \/ Start(p)
    \/ \E k \in Thread : ThreadStep(p, k)
    \/ Exit(p)
    \/ Kill(p)

Spec == Init /\ [][Next]_vars

\* The operating system runs every runnable thread; nobody has to start a process.
FairSpec ==
  /\ Spec
  /\ \A p \in Procs : WF_vars(Exit(p))
  /\ \A p \in Procs : \A k \in Thread : WF_vars(ThreadStep(p, k))

-----------------------------------------------------------------------------
\* Thread k of p is between its WaitForSingleObject and its SetEvent.
Holds(p, k) == proc[p] = "running" /\ pc[p][k] \in {"xor", "set"}

\* At most one thread of all processes is past its wait (ThreadProc_0..4 take
\* turns), so no two words are ever xored at the same time.
OneHolder ==
  \A p, q \in Procs : \A j, k \in Thread :
    Holds(p, j) /\ Holds(q, k) => p = q /\ j = k

\* While a thread holds the turn no event is signalled, and never two at once:
\* SetEvent never falls on an event that is already signalled, which an
\* auto-reset event would swallow.
NoLostSignal ==
  /\ \A p \in Procs : \A j, k \in Thread : Holds(p, j) => ~ev[k]
  /\ \A j, k \in Thread : ev[j] /\ ev[k] => j = k

\* One turn goes round all processes of the session, through the shared events
\* and across processes that start late, leave or are killed.
SingleTurn == OneHolder /\ NoLostSignal

\* What cEvilArray receives is the plaintext, whatever the interleaving with other
\* threads and processes, and a process that leaves _tmain has received every word.
CapturedIsPlain ==
  \A p \in Procs : \A k \in Thread : \A w \in Word :
    /\ seen[p][k][w] \subseteq {{}}
    /\ proc[p] = "exited" => seen[p][k][w] = {{}}

\* The threads at one position of the ring have together done as many turns as
\* those at any later position, or one more: the single turn goes round all the
\* processes of the session, and no thread gets two turns for one round.
TurnsAt(k) == {t \in Procs \X Turn : t[2] < loop[t[1]][k]}
InStep ==
  kills = 0 =>
    \A j, k \in Thread : j < k => Cardinality(TurnsAt(j)) - Cardinality(TurnsAt(k)) \in {0, 1}

\* TestDecrypt's position, read off the loop counters of the only process's threads.
Turns(p, k) == loop[p][k] + IF pc[p][k] = "set" THEN 1 ELSE 0
TheProc == CHOOSE p \in Procs : TRUE
LastTurns == Turns(TheProc, N - 1)

Sequential ==
  INSTANCE SequentialDecrypt WITH
    i       <- LastTurns,
    k       <- Cardinality({t \in Thread : Turns(TheProc, t) > LastTurns}),
    text    <- word[TheProc],
    decoded <- seen[TheProc]

\* The five threads of one process compute what TestDecrypt computes, step by step.
RefinesSequential == Sequential!Spec

\* Every process that runs leaves _tmain, unless one is killed (which may take the
\* turn with it): no turn is lost between the processes that share the events.
Termination ==
  \A p \in Procs : proc[p] = "running" ~> (proc[p] = "exited" \/ kills > 0)
=============================================================================
