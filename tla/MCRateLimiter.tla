--------------------------- MODULE MCRateLimiter ---------------------------
(***************************************************************************)
(* Small instances of RateLimiter for TLC.                                 *)
(***************************************************************************)
EXTENDS RateLimiter

Per(cap, per) == [cap |-> cap, per |-> per]

TwoInThree == Per(2, 3)

ClosedOrEndless == {Per(0, 3), Per(1, 0)}
=============================================================================
