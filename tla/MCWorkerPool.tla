---------------------------- MODULE MCWorkerPool ----------------------------
(* Instances of WorkerPool for TLC.                                        *)
EXTENDS WorkerPool, TLC

CONSTANTS w1, w2, r1, p1

\* One process runs every loop (the default deployment).
HomeTogether == [c \in Actors |-> p1]

NoFaults == [f \in Faults |-> 0]
OneCrash == [NoFaults EXCEPT !["crash"] = 1]
LateAndStop == [NoFaults EXCEPT !["late"] = 1, !["stop"] = 1]
CrashAndError == [NoFaults EXCEPT !["crash"] = 1, !["error"] = 1]
AnyFault == [f \in Faults |-> 1]

JobSymmetry == Permutations(Jobs)
=============================================================================
