---------------------------- MODULE MCEventRing ----------------------------
(* EventRing with the ring of five threads of the code and few turns. *)
EXTENDS EventRing, FiniteSets, TLC

CONSTANTS p1, p2

\* Both ends of the loop are reveal turns of some word, as 0483 and 4987 nearly are.
MCReveal == [k \in Thread |-> [w \in Word |-> IF w = 0 THEN k % Loops ELSE Loops - 1]]

ProcSymmetry == Permutations(Procs)
=============================================================================
