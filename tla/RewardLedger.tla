---------------------------- MODULE RewardLedger ----------------------------
(***************************************************************************)
(* What the loyalty programme promises a customer about each milestone:    *)
(* its reward is locked until it is earned, then open, and spent at most   *)
(* once.  An open reward may lapse (its voucher expired) and open again; a *)
(* spent one is gone: "Reward already claimed for this milestone"          *)
(* (plugins/loyalty/routes.py:328).                                        *)
(***************************************************************************)
CONSTANT Milestones

VARIABLE reward   \* reward[m]: the state of the reward of milestone m

TypeOK == reward \in [Milestones -> {"locked", "open", "spent"}]

Init == reward = [m \in Milestones |-> "locked"]

Open(m) == /\ reward[m] = "locked"
           /\ reward' = [reward EXCEPT ![m] = "open"]

Spend(m) == /\ reward[m] = "open"
            /\ reward' = [reward EXCEPT ![m] = "spent"]

\* Vouchers expire in batches.
Lapse(batch) ==
  /\ \A m \in batch : reward[m] = "open"
  /\ reward' = [m \in Milestones |-> IF m \in batch THEN "locked" ELSE reward[m]]

Next == \/ \E m \in Milestones : Open(m) \/ Spend(m)
        \/ \E batch \in SUBSET Milestones : Lapse(batch)

Spec == Init /\ [][Next]_reward
=============================================================================
