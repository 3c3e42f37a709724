--------------------------- MODULE MCProjectQueue ---------------------------
(* Instances of ProjectQueue for TLC. *)
EXTENDS ProjectQueue, TLC

CONSTANTS r1, r2, r3, p1, p2, w1, w2

OneProject == [r \in Runs |-> p1]

\* r1 and r3 share a project, r2 has one of its own.
TwoProjects == [r \in Runs |-> IF r = r2 THEN p2 ELSE p1]

WorkerSymmetry == Permutations(Workers)
RunAndWorkerSymmetry == Permutations(Runs) \cup Permutations(Workers)
=============================================================================
