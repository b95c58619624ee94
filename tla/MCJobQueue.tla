----------------------------- MODULE MCJobQueue -----------------------------
(***************************************************************************)
(* Small instances of JobQueue for TLC.                                    *)
(***************************************************************************)
EXTENDS JobQueue, TLC

\* Ids of jobs and threads are interchangeable.
Symmetry == Permutations(Jobs) \cup Permutations(Threads)
=============================================================================
