--------------------------- MODULE MCTenantConfig ---------------------------
(***************************************************************************)
(* Small instances of TenantConfig for TLC.                                *)
(***************************************************************************)
EXTENDS TenantConfig, TLC

Symmetry == Permutations(Requests) \cup Permutations(Plans)
=============================================================================
