---------------------------- MODULE WashProgress ----------------------------
(***************************************************************************)
(* What the wash lifecycle promises the staff dashboard, whatever the      *)
(* status column of an order says: a wash waits, is under way, is over,    *)
(* and never goes back.  /active-washes reads exactly this from the two    *)
(* timestamps of an order (payments/routes.py:613-649).                    *)
(***************************************************************************)
CONSTANT Orders

VARIABLE stage   \* stage[o]: how far the wash of order o has come

TypeOK == stage \in [Orders -> {"waiting", "washing", "over"}]

Init == stage = [o \in Orders |-> "waiting"]

Begin(o) == /\ stage[o] = "waiting"
            /\ stage' = [stage EXCEPT ![o] = "washing"]

Finish(o) == /\ stage[o] = "washing"
             /\ stage' = [stage EXCEPT ![o] = "over"]

Next == \E o \in Orders : Begin(o) \/ Finish(o)

Spec == Init /\ [][Next]_stage
=============================================================================
