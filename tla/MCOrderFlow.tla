---------------------------- MODULE MCOrderFlow -----------------------------
(***************************************************************************)
(* Small instances of OrderFlow for TLC.                                   *)
(***************************************************************************)
EXTENDS OrderFlow, TLC

AllOps == Endpoints \cup {"manual_wash"}

\* Request slots are interchangeable.
Symmetry == Permutations(Requests)
=============================================================================
