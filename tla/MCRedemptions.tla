--------------------------- MODULE MCRedemptions ----------------------------
(***************************************************************************)
(* Small instances of Redemptions for TLC.                                 *)
(***************************************************************************)
EXTENDS Redemptions, TLC

AllOps == Endpoints
OpsWithoutExpiry == Endpoints \ {"expire"}

\* Request slots are interchangeable.
Symmetry == Permutations(Requests)
=============================================================================
