---------------------------- MODULE Redemptions -----------------------------
(***************************************************************************)
(* The loyalty rewards of one customer: how visits unlock milestones, how  *)
(* vouchers (rows of table redemptions) are issued, redeemed and expired   *)
(* by the handlers of plugins/loyalty and by /payments/verify-loyalty.     *)
(*                                                                         *)
(* A handler issues queries and commits one after the other; others run    *)
(* between them.  Nothing locks a row: the only guard against a race is    *)
(* the unique constraint on (user, milestone, status), checked when the    *)
(* commit writes.                                                          *)
(***************************************************************************)
EXTENDS Naturals, Sequences

CONSTANTS
  Requests,    \* request slots: how many handlers run at once
  Ops,         \* the endpoints in use
  Milestones,  \* the milestones whose rewards are followed
  Interval,    \* REWARD_INTERVAL: visits from one milestone to the next
  MaxVisits,   \* bound: no visit is accepted once this many are logged
  MaxFaults    \* bound: requests lost

ASSUME RedemptionsAssumption ==
  /\ Interval \in Nat \ {0}
  /\ Milestones \subseteq Nat
  /\ MaxVisits \in Nat /\ MaxFaults \in Nat

VARIABLES
  visits,      \* the customer's visit count
  rows,        \* table redemptions, in the order of their ids
  req,         \* the handlers in flight
  logged,      \* history: visits logged
  faults       \* history: requests lost

vars == <<visits, rows, req, logged, faults>>

Endpoints == {"visit", "me", "claim", "redeem", "verify", "expire"}

\* A voucher.  Milestone m stands for m * Interval visits; orders counts the
\* free orders made for it and accepted (history) the times it was honoured.
Row == [milestone : Nat, status : {"pending", "used", "expired"}, overdue : BOOLEAN,
        orders : Nat, linked : BOOLEAN, accepted : Nat]

Session == [op : Endpoints \cup {"idle"},
            phase : {"idle", "count", "used", "ensure", "insert", "requery",
                     "spend", "link", "expire"},
            count : Nat, todo : SUBSET Nat, row : Nat, batch : SUBSET Nat]

Idle == [op |-> "idle", phase |-> "idle", count |-> 0, todo |-> {}, row |-> 0, batch |-> {}]

TypeOK ==
  /\ visits \in Nat /\ logged \in Nat /\ faults \in Nat
  /\ rows \in Seq(Row)
  /\ req \in [Requests -> Session]

Init ==
  /\ visits = 0 /\ logged = 0 /\ faults = 0
  /\ rows = <<>>
  /\ req = [r \in Requests |-> Idle]

-----------------------------------------------------------------------------
(* Queries and steps of a handler *)

Ids == DOMAIN rows

Pending(m) == \E i \in Ids : rows[i].milestone = m /\ rows[i].status = "pending"

\* The set named used in loyalty_me, log_visit and claim_reward.
Used == {rows[i].milestone : i \in {j \in Ids : rows[j].status = "used"}}

\* The session of a handler of endpoint op.
New(op, phase) == [Idle EXCEPT !.op = op, !.phase = phase]

Enter(r, q) ==
  /\ q.op \in Ops /\ req[r].phase = "idle"
  /\ req' = [req EXCEPT ![r] = q]
  /\ UNCHANGED <<visits, rows, logged, faults>>

Goto(r, phase) == req' = [req EXCEPT ![r] = [req[r] EXCEPT !.phase = phase]]

Finish(r) == req' = [req EXCEPT ![r] = Idle]

Abort(r) ==
  /\ req[r].phase # "idle" /\ faults < MaxFaults
  /\ Finish(r) /\ faults' = faults + 1
  /\ UNCHANGED <<visits, rows, logged>>

-----------------------------------------------------------------------------
(* Issuing vouchers *)

\* Mutant of Reached: the milestone ahead instead of the one behind.
ReachedNext(n) == n \div Interval + 1

\* The milestone a count has reached; below the first interval the code
\* falls back to the first milestone ("or REWARD_INTERVAL").
Reached(n) == IF n \div Interval = 0 THEN 1 ELSE n \div Interval

\* POST /loyalty/visit
LogVisit(r) ==
  /\ logged < MaxVisits
  /\ Enter(r, [New("visit", "count") EXCEPT !.count = visits + 1])

\* GET /loyalty/me offers every milestone reached so far.
Me(r) == Enter(r, [New("me", "used") EXCEPT !.todo = 1 .. (visits \div Interval)])

\* POST /loyalty/reward
ClaimReward(r) == Enter(r, [New("claim", "used") EXCEPT !.todo = {Reached(visits)}])

\* The visit is committed before its reward is looked at.
CommitVisit(r) ==
  LET n == req[r].count IN
  /\ req[r].phase = "count"
  /\ visits' = n /\ logged' = logged + 1
  /\ IF n % Interval = 0
     THEN req' = [req EXCEPT ![r] = [req[r] EXCEPT !.phase = "used", !.todo = {Reached(n)}]]
     ELSE Finish(r)
  /\ UNCHANGED <<rows, faults>>

\* The milestones redeemed before are left out (claim_reward: 400).
ReadUsed(r) ==
  LET left == req[r].todo \ Used IN
  /\ req[r].phase = "used"
  /\ IF left = {} THEN Finish(r)
     ELSE req' = [req EXCEPT ![r] = [req[r] EXCEPT !.phase = "ensure", !.todo = left]]
  /\ UNCHANGED <<visits, rows, logged, faults>>

\* ensure_pending_redemption works for the smallest milestone left.
Current(r, m) == m \in req[r].todo /\ \A k \in req[r].todo : m <= k

\* It has returned the voucher of milestone m: on to the next one.
Ensured(r, m) ==
  IF req[r].todo = {m} THEN Finish(r)
  ELSE req' = [req EXCEPT ![r] = [req[r] EXCEPT !.phase = "ensure", !.todo = req[r].todo \ {m}]]

Look(r) ==
  /\ req[r].phase = "ensure"
  /\ \E m \in req[r].todo :
       /\ Current(r, m)
       /\ \/ Pending(m) /\ Ensured(r, m)
          \/ ~Pending(m) /\ Goto(r, "insert")
  /\ UNCHANGED <<visits, rows, logged, faults>>

\* Mutant of Voucher: issued in a status that no query asks for.
VoucherActive(m) == [milestone |-> m, status |-> "active", overdue |-> FALSE,
                     orders |-> 0, linked |-> FALSE, accepted |-> 0]

Voucher(m) == [milestone |-> m, status |-> "pending", overdue |-> FALSE,
               orders |-> 0, linked |-> FALSE, accepted |-> 0]

\* Mutant of Insert: the voucher is not added to the session.
InsertNothing(r) ==
  /\ req[r].phase = "insert"
  /\ \E m \in req[r].todo : Current(r, m) /\ Ensured(r, m)
  /\ UNCHANGED <<visits, rows, logged, faults>>

\* The commit violates the unique constraint when another handler has issued
\* a voucher for the milestone since the look.
Insert(r) ==
  /\ req[r].phase = "insert"
  /\ \E m \in req[r].todo :
       /\ Current(r, m)
       /\ \/ Pending(m) /\ Goto(r, "requery") /\ UNCHANGED rows
          \/ ~Pending(m) /\ rows' = Append(rows, Voucher(m)) /\ Ensured(r, m)
  /\ UNCHANGED <<visits, logged, faults>>

\* After the rollback: that voucher may be gone again, and the handler that
\* gets None for it fails.
Requery(r) ==
  /\ req[r].phase = "requery"
  /\ \E m \in req[r].todo :
       /\ Current(r, m)
       /\ \/ Pending(m) /\ Ensured(r, m)
          \/ ~Pending(m) /\ Finish(r)
  /\ UNCHANGED <<visits, rows, logged, faults>>

-----------------------------------------------------------------------------
(* Redeeming and expiring them *)

\* Mutant of Redeem: the token is not matched with a pending voucher.
RedeemAny(r, i) ==
  Enter(r, [New("redeem", "spend") EXCEPT !.row = i])

\* POST /loyalty/redeem with the token of a milestone.
Redeem(r, i) ==
  /\ rows[i].status = "pending"
  /\ Enter(r, [New("redeem", "spend") EXCEPT !.row = i])

\* Mutant of VerifyLoyalty: a voucher that has expired is honoured.
VerifyExpired(r, i) ==
  /\ rows[i].status # "used"
  /\ Enter(r, [New("verify", "spend") EXCEPT !.row = i])

\* GET /payments/verify-loyalty; a voucher that is not pending is answered
\* without a write.
VerifyLoyalty(r, i) ==
  /\ rows[i].status = "pending"
  /\ Enter(r, [New("verify", "spend") EXCEPT !.row = i])

\* Mutant of UsedElsewhere: the table has no unique constraint.
Unconstrained(i) == FALSE

\* The unique constraint lets one voucher of a milestone be used.
UsedElsewhere(i) ==
  \E j \in Ids \ {i} : rows[j].milestone = rows[i].milestone /\ rows[j].status = "used"

Honour(i, made) ==
  rows' = [rows EXCEPT ![i] =
            [rows[i] EXCEPT !.status = "used", !.orders = rows[i].orders + made,
                            !.accepted = rows[i].accepted + 1]]

\* The commit writes "used" whatever the status is by now.  verify_loyalty
\* commits a free order with it, if some service is eligible.
Spend(r) ==
  LET i == req[r].row IN
  /\ req[r].phase = "spend"
  /\ \/ UsedElsewhere(i) /\ Finish(r) /\ UNCHANGED rows
     \/ ~UsedElsewhere(i) /\ Honour(i, 0) /\ Finish(r)
     \/ /\ ~UsedElsewhere(i) /\ req[r].op = "verify"
        /\ Honour(i, 1) /\ Goto(r, "link")
  /\ UNCHANGED <<visits, logged, faults>>

\* Mutant of Link: the second commit is forgotten.
LinkForgotten(r) ==
  /\ req[r].phase = "link"
  /\ Finish(r)
  /\ UNCHANGED <<visits, rows, logged, faults>>

\* A second commit stores the id of that order in the voucher.
Link(r) ==
  LET i == req[r].row IN
  /\ req[r].phase = "link"
  /\ rows' = [rows EXCEPT ![i] = [rows[i] EXCEPT !.linked = TRUE]]
  /\ Finish(r)
  /\ UNCHANGED <<visits, logged, faults>>

\* Ten days pass (EXPIRY_DAYS) since the voucher was issued.
GrowOld(i) ==
  /\ rows[i].status = "pending" /\ ~rows[i].overdue
  /\ rows' = [rows EXCEPT ![i] = [rows[i] EXCEPT !.overdue = TRUE]]
  /\ UNCHANGED <<visits, req, logged, faults>>

\* POST /loyalty/expire-redemptions
ExpireOld(r) ==
  LET old == {i \in Ids : rows[i].status = "pending" /\ rows[i].overdue} IN
  /\ old # {}
  /\ Enter(r, [New("expire", "expire") EXCEPT !.batch = old])

ExpiredElsewhere(batch) ==
  \E i \in batch, j \in Ids \ batch :
    rows[j].milestone = rows[i].milestone /\ rows[j].status = "expired"

\* All of the batch, or, when the milestone of one of them has expired before,
\* none of it; again whatever the statuses are by now.
CommitExpired(r) ==
  LET batch == req[r].batch IN
  /\ req[r].phase = "expire"
  /\ IF ExpiredElsewhere(batch) THEN UNCHANGED rows
     ELSE rows' = [i \in Ids |-> IF i \in batch THEN [rows[i] EXCEPT !.status = "expired"]
                                 ELSE rows[i]]
  /\ Finish(r)
  /\ UNCHANGED <<visits, logged, faults>>

-----------------------------------------------------------------------------
Begin(r) ==
  \/ LogVisit(r) \/ Me(r) \/ ClaimReward(r) \/ ExpireOld(r)
  \/ \E i \in Ids : Redeem(r, i) \/ VerifyLoyalty(r, i)

Continue(r) ==
  \/ CommitVisit(r) \/ ReadUsed(r) \/ Look(r) \/ Insert(r) \/ Requery(r)
  \/ Spend(r) \/ Link(r) \/ CommitExpired(r)

Next == \/ \E r \in Requests : Begin(r) \/ Continue(r) \/ Abort(r)
        \/ \E i \in Ids : GrowOld(i)

Spec == Init /\ [][Next]_vars

\* A handler that was entered runs on.
FairSpec == Spec /\ \A r \in Requests : WF_vars(Continue(r))

-----------------------------------------------------------------------------
(* What is required, however many handlers overlap *)

\* No voucher without the visits it stands for, lost updates of the counter
\* included; the first milestone is given away by the fallback in claim_reward.
RewardsEarned ==
  \A i \in Ids : rows[i].milestone = 1 \/ rows[i].milestone * Interval <= logged

\* As long as nothing is expired meanwhile, of all vouchers of a milestone
\* only one is honoured, though a stale handler may issue a second one.
OneVoucherHonoured ==
  \A i, j \in Ids :
    rows[i].milestone = rows[j].milestone /\ rows[i].accepted > 0 /\ rows[j].accepted > 0
    => i = j

-----------------------------------------------------------------------------
(* What holds as long as requests do not overlap *)

\* "mark as used on first redemption" (payments/routes.py:439): a voucher is
\* honoured once, by /redeem or by /verify-loyalty but not by both.
HonouredOnce == \A i \in Ids : rows[i].accepted <= 1

\* What was redeemed is redeemed for good: no voucher is honoured a second time,
\* and its milestone is not on offer again.
RedeemedForGood ==
  /\ HonouredOnce
  /\ \A i, j \in Ids : rows[i].milestone = rows[j].milestone /\ rows[i].status = "used"
                       => rows[j].status # "pending"

\* The vouchers of a milestone, whatever expires between them, are one reward.
Reward == [m \in Milestones |-> IF m \in Used THEN "spent"
                               ELSE IF Pending(m) THEN "open" ELSE "locked"]

Ledger == INSTANCE RewardLedger WITH reward <- Reward
LedgerImplemented == Ledger!Spec

-----------------------------------------------------------------------------
(* Liveness *)

\* A milestone that a handler found earned and not yet redeemed gets its
\* voucher, unless a request is lost.
EarnedIsOffered ==
  \A r \in Requests, m \in Milestones :
    (req[r].phase = "ensure" /\ m \in req[r].todo)
      ~> ((\E i \in Ids : rows[i].milestone = m) \/ faults > 0)

\* The free order made for a voucher is found through the voucher in the end,
\* unless a request is lost between the two commits.
FreeOrdersLinked ==
  (\E i \in Ids : rows[i].orders > 0 /\ ~rows[i].linked)
    ~> ((\A i \in Ids : rows[i].orders > 0 => rows[i].linked) \/ faults > 0)
=============================================================================
