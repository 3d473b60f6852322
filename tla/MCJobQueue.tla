----------------------------- MODULE MCJobQueue -----------------------------
(* Instances of JobQueue for TLC: workers are interchangeable. *)
EXTENDS JobQueue, TLC

WorkerSymmetry == Permutations(Workers)
=============================================================================
