------------------------- MODULE Redemptions_proofs -------------------------
(***************************************************************************)
(* What TLAPS proves of Redemptions, for any milestones, any interval, any *)
(* number of overlapping requests and any value of the bounds.             *)
(***************************************************************************)
EXTENDS Redemptions, SequenceTheorems, TLAPS

(* The inductive invariant *)

\* Enough visits are logged for milestone m, or it is the first.
Earned(m) == m = 1 \/ m * Interval <= logged

\* What a handler read of the counter was true once, and visits are only added
\* to logged: neither the count it will commit nor the milestones it will issue
\* vouchers for run ahead of the visits logged.
SessionOK(q) ==
  /\ q.count <= logged + 1
  /\ \A m \in q.todo : Earned(m)

IInv ==
  /\ TypeOK
  /\ visits <= logged
  /\ \A r \in Requests : SessionOK(req[r])
  /\ RewardsEarned

-----------------------------------------------------------------------------
(* Lemmas about the helpers *)

\* The milestone reached by n visits takes no more than n visits.
LEMMA DivBound ==
  ASSUME NEW n \in Nat
  PROVE  /\ n \div Interval \in Nat
         /\ (n \div Interval) * Interval <= n
BY RedemptionsAssumption, SMT

\* So do the milestones below it.
LEMMA BelowReached ==
  ASSUME NEW n \in Nat, NEW m \in 1 .. (n \div Interval)
  PROVE  m \in Nat /\ m * Interval <= n
<1> DEFINE d == n \div Interval
<1>1. d \in Nat /\ d * Interval <= n
  BY DivBound
<1> HIDE DEF d
<1>2. m \in Nat /\ m <= d
  BY <1>1 DEF d
<1>3. m * Interval <= d * Interval
  BY <1>1, <1>2, RedemptionsAssumption, SMT
<1>4. m * Interval \in Nat /\ d * Interval \in Nat
  BY <1>1, <1>2, RedemptionsAssumption, SMT
<1> QED BY <1>1, <1>2, <1>3, <1>4

\* Sessions that a step leaves alone stay well typed.
LEMMA SessionStep ==
  ASSUME TypeOK, NEW r \in Requests, NEW q \in Session,
         req' = [req EXCEPT ![r] = q]
  PROVE  req' \in [Requests -> Session]
BY DEF TypeOK

LEMMA IdleOK ==
  ASSUME logged \in Nat
  PROVE  Idle \in Session /\ SessionOK(Idle)
BY DEF Idle, Session, Endpoints, SessionOK

\* What was earned stays earned when visits are added, and sessions stay in
\* order; one that is replaced has to be in order itself.
LEMMA SessionsKept ==
  ASSUME IInv, NEW r \in Requests, NEW q \in Session,
         logged' \in Nat, logged <= logged',
         req' = [req EXCEPT ![r] = q], SessionOK(q)'
  PROVE  \A x \in Requests : SessionOK(req[x])'
<1> SUFFICES ASSUME NEW x \in Requests PROVE SessionOK(req[x])'
  OBVIOUS
<1>1. CASE x = r
  <2>1. req'[x] = q
    BY <1>1 DEF IInv, TypeOK
  <2> QED BY <2>1 DEF SessionOK, Earned
<1>2. CASE x # r
  <2>1. req'[x] = req[x] /\ req[x] \in Session
    BY <1>2 DEF IInv, TypeOK
  <2>2. SessionOK(req[x]) /\ logged \in Nat
    BY DEF IInv, TypeOK
  <2>3. req[x].count \in Nat /\ req[x].todo \in SUBSET Nat
    BY <2>1 DEF Session
  <2>4. \A m \in Nat : Earned(m) => m = 1 \/ m * Interval <= logged'
    BY <2>2, RedemptionsAssumption, SMT DEF Earned
  <2> QED BY <2>1, <2>2, <2>3, <2>4 DEF SessionOK, Earned
<1> QED BY <1>1, <1>2

\* A step that leaves the tables alone and gives r a session that is in order.
LEMMA SessionOnly ==
  ASSUME IInv, NEW r \in Requests, NEW q \in Session, SessionOK(q),
         req' = [req EXCEPT ![r] = q],
         UNCHANGED <<visits, rows, logged>>, faults' \in Nat
  PROVE  IInv'
<1>1. TypeOK'
  BY SessionStep DEF IInv, TypeOK
<1>2. SessionOK(q)'
  BY DEF SessionOK, Earned
<1>3. logged' \in Nat /\ logged <= logged'
  BY DEF IInv, TypeOK
<1>4. \A x \in Requests : SessionOK(req[x])'
  BY <1>2, <1>3, SessionsKept
<1>5. (visits <= logged)' /\ RewardsEarned'
  BY DEF IInv, RewardsEarned, Ids
<1> QED BY <1>1, <1>4, <1>5 DEF IInv, SessionOK, Earned

\* The voucher insert, or any rewrite of rows that keeps the milestones.
LEMMA RowsStep ==
  ASSUME IInv, NEW r \in Requests, NEW q \in Session, SessionOK(q),
         req' = [req EXCEPT ![r] = q],
         UNCHANGED <<visits, logged, faults>>,
         rows' \in Seq(Row),
         \A i \in DOMAIN rows' : Earned(rows'[i].milestone)
  PROVE  IInv'
<1>1. TypeOK'
  BY SessionStep DEF IInv, TypeOK
<1>2. SessionOK(q)'
  BY DEF SessionOK, Earned
<1>3. logged' \in Nat /\ logged <= logged'
  BY DEF IInv, TypeOK
<1>4. \A x \in Requests : SessionOK(req[x])'
  BY <1>2, <1>3, SessionsKept
<1>5. (visits <= logged)' /\ RewardsEarned'
  BY DEF IInv, RewardsEarned, Ids, Earned
<1> QED BY <1>1, <1>4, <1>5 DEF IInv, SessionOK, Earned

\* What is known of the session of a handler.
LEMMA SessionFacts ==
  ASSUME IInv, NEW r \in Requests
  PROVE  /\ req[r] \in Session /\ SessionOK(req[r])
         /\ req[r].count \in Nat /\ req[r].todo \in SUBSET Nat
         /\ req[r].row \in Nat /\ req[r].batch \in SUBSET Nat
         /\ req[r].op \in Endpoints \cup {"idle"}
         /\ visits \in Nat /\ logged \in Nat /\ faults \in Nat /\ rows \in Seq(Row)
BY DEF IInv, TypeOK, Session

\* Going on in another phase, with fewer milestones to do.
LEMMA GotoOK ==
  ASSUME IInv, NEW r \in Requests,
         NEW phase \in {"idle", "count", "used", "ensure", "insert", "requery",
                        "spend", "link", "expire"},
         NEW todo \in SUBSET req[r].todo
  PROVE  /\ [req[r] EXCEPT !.phase = phase] \in Session
         /\ SessionOK([req[r] EXCEPT !.phase = phase])
         /\ [req[r] EXCEPT !.phase = phase, !.todo = todo] \in Session
         /\ SessionOK([req[r] EXCEPT !.phase = phase, !.todo = todo])
<1>1. req[r] \in Session /\ SessionOK(req[r])
  BY SessionFacts
<1>2. todo \in SUBSET Nat
  BY <1>1 DEF Session
<1> QED BY <1>1, <1>2 DEF Session, SessionOK

\* A milestone still to do is earned.
LEMMA TodoEarned ==
  ASSUME IInv, NEW r \in Requests, NEW m \in req[r].todo
  PROVE  m \in Nat /\ Earned(m)
BY SessionFacts DEF SessionOK

\* Leaving Ensured, a handler is in order.
LEMMA EnsuredOK ==
  ASSUME IInv, NEW r \in Requests, NEW m \in req[r].todo, Ensured(r, m)
  PROVE  \E q \in Session : SessionOK(q) /\ req' = [req EXCEPT ![r] = q]
<1>1. CASE req[r].todo = {m}
  BY <1>1, IdleOK, SessionFacts DEF Ensured, Finish
<1>2. CASE req[r].todo # {m}
  <2> DEFINE q == [req[r] EXCEPT !.phase = "ensure", !.todo = req[r].todo \ {m}]
  <2>1. q \in Session /\ SessionOK(q)
    BY GotoOK
  <2>2. req' = [req EXCEPT ![r] = q]
    BY <1>2 DEF Ensured
  <2> QED BY <2>1, <2>2
<1> QED BY <1>1, <1>2

-----------------------------------------------------------------------------
(* Every step preserves the invariant *)

\* Entering a handler with a session that is in order.
LEMMA EnterStep ==
  ASSUME IInv, NEW r \in Requests, NEW q \in Session, SessionOK(q), Enter(r, q)
  PROVE  IInv'
BY SessionFacts, SessionOnly DEF Enter

\* The session of a handler that has just been entered.
LEMMA NewFacts ==
  ASSUME NEW op \in Endpoints, NEW phase \in {"count", "used", "spend", "expire"}
  PROVE  /\ New(op, phase) \in Session
         /\ New(op, phase).count = 0 /\ New(op, phase).todo = {}
<1>1. New(op, phase) \in Session
  <2>1. Idle \in Session
    BY SMTT(30) DEF Idle, Session, Endpoints
  <2>2. \A q \in Session : [q EXCEPT !.op = op, !.phase = phase] \in Session
    BY DEF Session
  <2> QED BY <2>1, <2>2 DEF New
<1>2. New(op, phase).count = 0 /\ New(op, phase).todo = {}
  BY DEF New, Idle
<1> QED BY <1>1, <1>2

LEMMA BeginStep ==
  ASSUME IInv, NEW r \in Requests, Begin(r)
  PROVE  IInv'
<1>0. /\ visits \in Nat /\ logged \in Nat /\ visits <= logged
      /\ Ids \in SUBSET Nat
  BY SessionFacts DEF IInv, Ids
<1>1. CASE LogVisit(r)
  <2> DEFINE n == New("visit", "count")
             q == [n EXCEPT !.count = visits + 1]
  <2>1. n \in Session /\ n.todo = {}
    BY NewFacts DEF Endpoints
  <2> HIDE DEF n
  <2>2. q \in Session /\ SessionOK(q)
    BY <1>0, <2>1 DEF Session, SessionOK
  <2>3. Enter(r, q)
    BY <1>1 DEF LogVisit, n
  <2> QED BY <2>2, <2>3, EnterStep
<1>2. CASE Me(r)
  <2> DEFINE todo == 1 .. (visits \div Interval)
             n == New("me", "used")
             q == [n EXCEPT !.todo = todo]
  <2>1. \A m \in todo : m \in Nat /\ Earned(m)
    <3> SUFFICES ASSUME NEW m \in todo PROVE m \in Nat /\ Earned(m)
      OBVIOUS
    <3>1. m \in Nat /\ m * Interval <= visits
      BY <1>0, BelowReached
    <3>2. m * Interval \in Nat
      BY <3>1, RedemptionsAssumption, SMT
    <3> QED BY <1>0, <3>1, <3>2 DEF Earned
  <2>2. n \in Session /\ n.count = 0
    BY NewFacts DEF Endpoints
  <2> HIDE DEF n, todo
  <2>3. q \in Session /\ SessionOK(q)
    BY <1>0, <2>1, <2>2 DEF Session, SessionOK
  <2>4. Enter(r, q)
    BY <1>2 DEF Me, n, todo
  <2> QED BY <2>3, <2>4, EnterStep
<1>3. CASE ClaimReward(r)
  <2> DEFINE k == Reached(visits)
             n == New("claim", "used")
             q == [n EXCEPT !.todo = {k}]
  <2>1. k \in Nat /\ Earned(k)
    <3> DEFINE d == visits \div Interval
    <3>1. d \in Nat /\ d * Interval <= visits
      BY <1>0, DivBound
    <3>2. d * Interval \in Nat
      BY <3>1, RedemptionsAssumption, SMT
    <3>3. k = IF d = 0 THEN 1 ELSE d
      BY DEF Reached
    <3> HIDE DEF d, k
    <3> QED BY <1>0, <3>1, <3>2, <3>3 DEF Earned
  <2>2. n \in Session /\ n.count = 0
    BY NewFacts DEF Endpoints
  <2> HIDE DEF n, k
  <2>3. q \in Session /\ SessionOK(q)
    BY <1>0, <2>1, <2>2 DEF Session, SessionOK
  <2>4. Enter(r, q)
    BY <1>3 DEF ClaimReward, n, k
  <2> QED BY <2>3, <2>4, EnterStep
<1>4. CASE ExpireOld(r)
  <2> DEFINE old == {i \in Ids : rows[i].status = "pending" /\ rows[i].overdue}
             n == New("expire", "expire")
             q == [n EXCEPT !.batch = old]
  <2>1. old \in SUBSET Nat
    BY <1>0
  <2>2. n \in Session /\ n.count = 0 /\ n.todo = {}
    BY NewFacts DEF Endpoints
  <2> HIDE DEF n, old
  <2>3. q \in Session /\ SessionOK(q)
    BY <1>0, <2>1, <2>2 DEF Session, SessionOK
  <2>4. Enter(r, q)
    BY <1>4 DEF ExpireOld, n, old
  <2> QED BY <2>3, <2>4, EnterStep
<1>5. CASE \E i \in Ids : Redeem(r, i) \/ VerifyLoyalty(r, i)
  <2>1. PICK i \in Ids, op \in {"redeem", "verify"} :
          Enter(r, [New(op, "spend") EXCEPT !.row = i])
    BY <1>5 DEF Redeem, VerifyLoyalty
  <2> DEFINE n == New(op, "spend")
             q == [n EXCEPT !.row = i]
  <2>2. n \in Session /\ n.count = 0 /\ n.todo = {}
    BY NewFacts DEF Endpoints
  <2> HIDE DEF n
  <2>3. q \in Session /\ SessionOK(q)
    BY <1>0, <2>2 DEF Session, SessionOK
  <2>4. Enter(r, q)
    BY <2>1 DEF n
  <2> QED BY <2>3, <2>4, EnterStep
<1> QED BY <1>1, <1>2, <1>3, <1>4, <1>5 DEF Begin

\* The commit of a visit writes at most one more than were logged, and counts
\* as one more logged.
LEMMA CommitVisitStep ==
  ASSUME IInv, NEW r \in Requests, CommitVisit(r)
  PROVE  IInv'
<1> DEFINE n == req[r].count
<1>1. n \in Nat /\ n <= logged + 1 /\ logged \in Nat /\ faults \in Nat
  BY SessionFacts DEF SessionOK
<1>2. visits' = n /\ logged' = logged + 1 /\ UNCHANGED <<rows, faults>>
  BY DEF CommitVisit
<1>3. \E q \in Session :
        /\ q.count <= logged' + 1 /\ \A m \in q.todo : m = 1 \/ m * Interval <= logged'
        /\ req' = [req EXCEPT ![r] = q]
  <2>1. CASE n % Interval = 0
    <3> DEFINE k == Reached(n)
               q == [req[r] EXCEPT !.phase = "used", !.todo = {k}]
               d == n \div Interval
    <3>1. d \in Nat /\ d * Interval <= n
      BY <1>1, DivBound
    <3>2. d * Interval \in Nat
      BY <3>1, RedemptionsAssumption, SMT
    <3>3. k = IF d = 0 THEN 1 ELSE d
      BY DEF Reached
    <3>4. req' = [req EXCEPT ![r] = q]
      BY <2>1 DEF CommitVisit
    <3> HIDE DEF n, k, d
    <3>5. k \in Nat /\ (k = 1 \/ k * Interval <= logged')
      BY <1>1, <1>2, <3>1, <3>2, <3>3
    <3>6. req[r] \in Session
      BY SessionFacts
    <3>7. q \in Session /\ q.count = n /\ q.todo = {k}
      BY <3>5, <3>6 DEF Session, n
    <3>8. q.count <= logged' + 1
      BY <1>1, <1>2, <3>7
    <3> HIDE DEF q
    <3> QED BY <3>4, <3>5, <3>7, <3>8
  <2>2. CASE n % Interval # 0
    <3>1. req' = [req EXCEPT ![r] = Idle]
      BY <2>2 DEF CommitVisit, Finish
    <3>2. Idle \in Session
      BY <1>1, IdleOK
    <3>3. Idle.count = 0 /\ Idle.todo = {}
      BY DEF Idle
    <3>4. Idle.count <= logged' + 1
      BY <1>1, <1>2, <3>3
    <3> QED BY <3>1, <3>2, <3>3, <3>4
  <2> QED BY <2>1, <2>2
<1>4. PICK q \in Session :
        /\ q.count <= logged' + 1 /\ \A m \in q.todo : m = 1 \/ m * Interval <= logged'
        /\ req' = [req EXCEPT ![r] = q]
  BY <1>3
<1>5. TypeOK'
  BY <1>1, <1>2, <1>4, SessionStep DEF IInv, TypeOK
<1>6. logged' \in Nat /\ logged <= logged'
  BY <1>1, <1>2
<1>7. \A x \in Requests : SessionOK(req[x])'
  <2>1. SessionOK(q)'
    BY <1>4 DEF SessionOK, Earned
  <2> QED BY <1>4, <1>6, <2>1, SessionsKept
<1>8. RewardsEarned'
  <2> SUFFICES ASSUME NEW i \in DOMAIN rows
               PROVE  rows[i].milestone = 1 \/ rows[i].milestone * Interval <= logged'
    BY <1>2 DEF RewardsEarned, Ids
  <2>1. rows[i] \in Row
    BY SessionFacts
  <2>2. rows[i].milestone \in Nat
    BY <2>1 DEF Row
  <2>3. rows[i].milestone * Interval \in Nat
    BY <2>2, RedemptionsAssumption, SMT
  <2>4. rows[i].milestone = 1 \/ rows[i].milestone * Interval <= logged
    BY DEF IInv, RewardsEarned, Ids
  <2> QED BY <1>1, <1>2, <2>3, <2>4
<1>9. (visits <= logged)'
  BY <1>1, <1>2
<1> QED BY <1>5, <1>7, <1>8, <1>9 DEF IInv, SessionOK, Earned

\* A function on 1 .. n is a sequence.
LEMMA FunctionIsSeq ==
  ASSUME NEW S, NEW n \in Nat, NEW f \in [1 .. n -> S]
  PROVE  f \in Seq(S)
OBVIOUS

\* Replacing a row by one with an earned milestone.
LEMMA RowReplaced ==
  ASSUME rows \in Seq(Row), NEW i, NEW row,
         i \in DOMAIN rows => row \in Row /\ Earned(row.milestone),
         \A k \in DOMAIN rows : Earned(rows[k].milestone),
         rows' = [rows EXCEPT ![i] = row]
  PROVE  rows' \in Seq(Row) /\ \A k \in DOMAIN rows' : Earned(rows'[k].milestone)
<1>1. rows \in [1 .. Len(rows) -> Row] /\ Len(rows) \in Nat /\ DOMAIN rows = 1 .. Len(rows)
  BY LenProperties
<1>2. rows' \in [1 .. Len(rows) -> Row]
  BY <1>1
<1>3. rows' \in Seq(Row)
  BY <1>1, <1>2, FunctionIsSeq
<1>4. DOMAIN rows' = DOMAIN rows
  BY <1>1, <1>2
<1>5. ASSUME NEW k \in DOMAIN rows PROVE Earned(rows'[k].milestone)
  <2>1. CASE k = i
    BY <2>1, <1>5
  <2>2. CASE k # i
    <3>1. rows'[k] = rows[k]
      BY <2>2, <1>5
    <3> QED BY <3>1, <1>5
  <2> QED BY <2>1, <2>2
<1> QED BY <1>3, <1>4, <1>5

\* Honouring a voucher keeps its milestone.
LEMMA HonourStep ==
  ASSUME rows \in Seq(Row), \A k \in DOMAIN rows : Earned(rows[k].milestone),
         NEW i, NEW made \in {0, 1}, Honour(i, made)
  PROVE  rows' \in Seq(Row) /\ \A k \in DOMAIN rows' : Earned(rows'[k].milestone)
<1> DEFINE row == [rows[i] EXCEPT !.status = "used", !.orders = rows[i].orders + made,
                                  !.accepted = rows[i].accepted + 1]
<1>1. rows' = [rows EXCEPT ![i] = row]
  BY DEF Honour
<1>2. ASSUME i \in DOMAIN rows PROVE row \in Row /\ Earned(row.milestone)
  <2>1. rows[i] \in Row /\ rows[i].orders + made \in Nat /\ rows[i].accepted + 1 \in Nat
    <3>1. rows[i] \in Row
      BY <1>2
    <3>2. rows[i].orders \in Nat /\ rows[i].accepted \in Nat
      BY <3>1 DEF Row
    <3> QED BY <3>1, <3>2
  <2>2. row.milestone = rows[i].milestone
    BY <2>1 DEF Row
  <2> DEFINE o == rows[i].orders + made
             a == rows[i].accepted + 1
             old == rows[i]
             one == [old EXCEPT !.status = "used", !.orders = o]
  <2>3. old \in Row /\ o \in Nat /\ a \in Nat
    BY <2>1
  <2> HIDE DEF o, a, old
  <2>4. one \in Row
    BY <2>3 DEF Row
  <2> HIDE DEF one
  <2>5. [one EXCEPT !.accepted = a] \in Row
    BY <2>3, <2>4 DEF Row
  <2>6. row = [one EXCEPT !.accepted = a]
    BY DEF one, old, o, a
  <2> QED BY <1>2, <2>2, <2>5, <2>6
<1> HIDE DEF row
<1> QED BY <1>1, <1>2, RowReplaced

\* The other steps of a handler.
LEMMA ContinueStep ==
  ASSUME IInv, NEW r \in Requests, Continue(r)
  PROVE  IInv'
<1>0. /\ req[r] \in Session /\ SessionOK(req[r])
      /\ Idle \in Session /\ SessionOK(Idle)
      /\ faults \in Nat /\ rows \in Seq(Row)
      /\ \A i \in DOMAIN rows : rows[i] \in Row /\ Earned(rows[i].milestone)
  BY SessionFacts, IdleOK DEF IInv, RewardsEarned, Ids, Earned
<1>1. CASE CommitVisit(r)
  BY <1>1, CommitVisitStep
<1>2. CASE ReadUsed(r)
  <2> DEFINE left == req[r].todo \ Used
             q == [req[r] EXCEPT !.phase = "ensure", !.todo = left]
  <2>1. q \in Session /\ SessionOK(q)
    BY GotoOK
  <2>2. req' = [req EXCEPT ![r] = Idle] \/ req' = [req EXCEPT ![r] = q]
    BY <1>2 DEF ReadUsed, Finish
  <2>3. UNCHANGED <<visits, rows, logged, faults>>
    BY <1>2 DEF ReadUsed
  <2> HIDE DEF q
  <2> QED BY <1>0, <2>1, <2>2, <2>3, SessionOnly
<1>3. CASE Look(r)
  <2> DEFINE q == [req[r] EXCEPT !.phase = "insert"]
  <2>1. q \in Session /\ SessionOK(q)
    BY GotoOK
  <2>2. \E p \in Session : SessionOK(p) /\ req' = [req EXCEPT ![r] = p]
    BY <1>3, <2>1, EnsuredOK DEF Look, Goto
  <2>3. UNCHANGED <<visits, rows, logged, faults>>
    BY <1>3 DEF Look
  <2> QED BY <1>0, <2>2, <2>3, SessionOnly
<1>4. CASE Insert(r)
  <2> DEFINE q == [req[r] EXCEPT !.phase = "requery"]
  <2>1. q \in Session /\ SessionOK(q)
    BY GotoOK
  <2>2. PICK m \in req[r].todo :
          \/ Goto(r, "requery") /\ UNCHANGED rows
          \/ rows' = Append(rows, Voucher(m)) /\ Ensured(r, m)
    BY <1>4 DEF Insert
  <2>3. UNCHANGED <<visits, logged, faults>>
    BY <1>4 DEF Insert
  <2>4. CASE Goto(r, "requery") /\ UNCHANGED rows
    BY <1>0, <2>1, <2>3, <2>4, SessionOnly DEF Goto
  <2>5. CASE rows' = Append(rows, Voucher(m)) /\ Ensured(r, m)
    <3>1. m \in Nat /\ Earned(m)
      BY TodoEarned
    <3>2. Voucher(m) \in Row /\ Voucher(m).milestone = m
      BY <3>1 DEF Voucher, Row
    <3>3. rows' \in Seq(Row) /\ \A i \in DOMAIN rows' : Earned(rows'[i].milestone)
      <4> DEFINE v == Voucher(m)
      <4>1. v \in Row /\ Earned(v.milestone)
        BY <3>1, <3>2
      <4> HIDE DEF v
      <4>2. rows' = Append(rows, v)
        BY <2>5 DEF v
      <4> QED BY <1>0, <4>1, <4>2
    <3>4. \E p \in Session : SessionOK(p) /\ req' = [req EXCEPT ![r] = p]
      BY <2>5, EnsuredOK
    <3> QED BY <2>3, <3>3, <3>4, RowsStep
  <2> QED BY <2>2, <2>4, <2>5
<1>5. CASE Requery(r)
  <2>1. \E p \in Session : SessionOK(p) /\ req' = [req EXCEPT ![r] = p]
    BY <1>0, <1>5, EnsuredOK DEF Requery, Finish
  <2>2. UNCHANGED <<visits, rows, logged, faults>>
    BY <1>5 DEF Requery
  <2> QED BY <1>0, <2>1, <2>2, SessionOnly
<1>6. CASE Spend(r)
  <2> DEFINE q == [req[r] EXCEPT !.phase = "link"]
             i == req[r].row
  <2>1. q \in Session /\ SessionOK(q)
    BY GotoOK
  <2>2. UNCHANGED <<visits, logged, faults>>
    BY <1>6 DEF Spend
  <2>3. \E p \in Session : SessionOK(p) /\ req' = [req EXCEPT ![r] = p]
    BY <1>0, <1>6, <2>1 DEF Spend, Goto, Finish
  <2>4. rows' = rows \/ \E made \in {0, 1} : Honour(i, made)
    BY <1>6 DEF Spend
  <2>5. rows' \in Seq(Row) /\ \A k \in DOMAIN rows' : Earned(rows'[k].milestone)
    BY <1>0, <2>4, HonourStep
  <2> QED BY <2>2, <2>3, <2>5, RowsStep
<1>7. CASE Link(r)
  <2> DEFINE i == req[r].row
             row == [rows[i] EXCEPT !.linked = TRUE]
  <2>1. UNCHANGED <<visits, logged, faults>> /\ req' = [req EXCEPT ![r] = Idle]
    BY <1>7 DEF Link, Finish
  <2>2. rows' = [rows EXCEPT ![i] = row]
    BY <1>7 DEF Link
  <2>3. i \in DOMAIN rows => row \in Row /\ Earned(row.milestone)
    BY <1>0 DEF Row
  <2> HIDE DEF row, i
  <2>4. rows' \in Seq(Row) /\ \A k \in DOMAIN rows' : Earned(rows'[k].milestone)
    BY <1>0, <2>2, <2>3, RowReplaced
  <2> QED BY <1>0, <2>1, <2>4, RowsStep
<1>8. CASE CommitExpired(r)
  <2> DEFINE batch == req[r].batch
  <2>1. UNCHANGED <<visits, logged, faults>> /\ req' = [req EXCEPT ![r] = Idle]
    BY <1>8 DEF CommitExpired, Finish
  <2>2. \/ rows' = rows
        \/ rows' = [i \in Ids |-> IF i \in batch THEN [rows[i] EXCEPT !.status = "expired"]
                                 ELSE rows[i]]
    BY <1>8 DEF CommitExpired
  <2>3. \A i \in DOMAIN rows : /\ [rows[i] EXCEPT !.status = "expired"] \in Row
                              /\ Earned([rows[i] EXCEPT !.status = "expired"].milestone)
    BY <1>0 DEF Row
  <2>4. rows' \in Seq(Row) /\ \A k \in DOMAIN rows' : Earned(rows'[k].milestone)
    <3>1. CASE rows' = rows
      BY <1>0, <3>1
    <3>2. CASE rows' = [i \in Ids |-> IF i \in batch
                                     THEN [rows[i] EXCEPT !.status = "expired"] ELSE rows[i]]
      <4>1. Ids = 1 .. Len(rows) /\ Len(rows) \in Nat
        BY <1>0, LenProperties DEF Ids
      <4>2. rows' \in [1 .. Len(rows) -> Row]
        BY <1>0, <2>3, <3>2, <4>1 DEF Ids
      <4>3. DOMAIN rows' = Ids /\ \A k \in Ids : Earned(rows'[k].milestone)
        BY <1>0, <2>3, <3>2 DEF Ids
      <4> QED BY <4>1, <4>2, <4>3, FunctionIsSeq
    <3> QED BY <2>2, <3>1, <3>2
  <2> QED BY <1>0, <2>1, <2>4, RowsStep
<1> QED BY <1>1, <1>2, <1>3, <1>4, <1>5, <1>6, <1>7, <1>8 DEF Continue

-----------------------------------------------------------------------------
(* The theorems *)

LEMMA InitIInv == Init => IInv
<1> SUFFICES ASSUME Init PROVE IInv
  OBVIOUS
<1>1. Idle \in Session /\ SessionOK(Idle)
  BY IdleOK DEF Init
<1>2. TypeOK /\ visits <= logged /\ RewardsEarned
  BY <1>1 DEF Init, TypeOK, RewardsEarned, Ids
<1>3. \A r \in Requests : req[r] = Idle
  BY DEF Init
<1> QED BY <1>1, <1>2, <1>3 DEF IInv

LEMMA AbortStep ==
  ASSUME IInv, NEW r \in Requests, Abort(r)
  PROVE  IInv'
<1>1. Idle \in Session /\ SessionOK(Idle) /\ faults \in Nat
  BY SessionFacts, IdleOK
<1>2. /\ req' = [req EXCEPT ![r] = Idle]
      /\ UNCHANGED <<visits, rows, logged>> /\ faults' = faults + 1
  BY DEF Abort, Finish
<1>3. faults' \in Nat
  BY <1>1, <1>2
<1> QED BY <1>1, <1>2, <1>3, SessionOnly

LEMMA GrowOldStep ==
  ASSUME IInv, NEW i \in Ids, GrowOld(i)
  PROVE  IInv'
<1> DEFINE row == [rows[i] EXCEPT !.overdue = TRUE]
<1>1. rows \in Seq(Row) /\ \A k \in DOMAIN rows : rows[k] \in Row /\ Earned(rows[k].milestone)
  BY DEF IInv, TypeOK, RewardsEarned, Ids, Earned
<1>2. row \in Row /\ Earned(row.milestone)
  BY <1>1 DEF Row, Ids
<1>3. rows' = [rows EXCEPT ![i] = row] /\ UNCHANGED <<visits, req, logged, faults>>
  BY DEF GrowOld
<1> HIDE DEF row
<1>4. rows' \in Seq(Row) /\ \A k \in DOMAIN rows' : Earned(rows'[k].milestone)
  BY <1>1, <1>2, <1>3, RowReplaced
<1>5. TypeOK' /\ (visits <= logged)'
  BY <1>3, <1>4 DEF IInv, TypeOK
<1>6. RewardsEarned'
  BY <1>3, <1>4 DEF RewardsEarned, Ids, Earned
<1>7. \A r \in Requests : SessionOK(req[r])'
  BY <1>3 DEF IInv, SessionOK, Earned
<1> QED BY <1>5, <1>6, <1>7 DEF IInv, SessionOK, Earned

LEMMA NextIInv == IInv /\ [Next]_vars => IInv'
<1> SUFFICES ASSUME IInv, [Next]_vars PROVE IInv'
  OBVIOUS
<1>1. CASE UNCHANGED vars
  BY <1>1 DEF vars, IInv, TypeOK, RewardsEarned, Ids, SessionOK, Earned
<1>2. CASE Next
  BY <1>2, BeginStep, ContinueStep, AbortStep, GrowOldStep DEF Next
<1> QED BY <1>1, <1>2

\* The inductive invariant holds, however the handlers overlap.
THEOREM Invariance == Spec => []IInv
BY InitIInv, NextIInv, PTL DEF Spec

\* The tables and the sessions of plugins/loyalty keep their types.
THEOREM TypeCorrect == Spec => []TypeOK
<1>1. IInv => TypeOK
  BY DEF IInv
<1> QED BY <1>1, Invariance, PTL

\* No voucher is issued for a milestone the logged visits have not reached,
\* although the counter is read and written back without a lock and vouchers
\* are issued from stale reads.
THEOREM RewardsAreEarned == Spec => []RewardsEarned
<1>1. IInv => RewardsEarned
  BY DEF IInv
<1> QED BY <1>1, Invariance, PTL

-----------------------------------------------------------------------------
(* What a step does to the vouchers *)

Held(table, m, status) == \E i \in DOMAIN table : table[i].milestone = m /\ table[i].status = status

\* No voucher changes in milestone, status or the times it was honoured.
Quiet(old, new) ==
  /\ DOMAIN new = DOMAIN old
  /\ \A i \in DOMAIN old : /\ new[i].milestone = old[i].milestone
                           /\ new[i].status = old[i].status
                           /\ new[i].accepted = old[i].accepted

Issues(old, new, m) ==
  \E n : /\ n \notin DOMAIN old /\ DOMAIN new = DOMAIN old \cup {n}
         /\ new[n].milestone = m /\ new[n].status = "pending" /\ new[n].accepted = 0
         /\ \A i \in DOMAIN old : new[i] = old[i]

Honours(old, new, i) ==
  /\ DOMAIN new = DOMAIN old /\ i \in DOMAIN old
  /\ new[i].milestone = old[i].milestone
  /\ new[i].status = "used" /\ new[i].accepted = old[i].accepted + 1
  /\ \A j \in DOMAIN old : j # i => new[j] = old[j]

Lapses(old, new, batch) ==
  /\ DOMAIN new = DOMAIN old
  /\ \A i \in DOMAIN old :
       /\ new[i].milestone = old[i].milestone /\ new[i].accepted = old[i].accepted
       /\ new[i].status = IF i \in batch THEN "expired" ELSE old[i].status

LEMMA Rows == ASSUME IInv PROVE \A i \in Ids : rows[i] \in Row
BY DEF IInv, TypeOK, Ids

LEMMA FlagIsQuiet ==
  ASSUME IInv, NEW i, NEW row, rows' = [rows EXCEPT ![i] = row],
         i \in Ids => /\ row.milestone = rows[i].milestone
                      /\ row.status = rows[i].status /\ row.accepted = rows[i].accepted
  PROVE  Quiet(rows, rows')
BY DEF Quiet, Ids

LEMMA InsertIssues ==
  ASSUME IInv, NEW r \in Requests, Insert(r)
  PROVE  \/ UNCHANGED rows /\ Goto(r, "requery")
         \/ \E m \in req[r].todo : ~Pending(m) /\ Ensured(r, m) /\ Issues(rows, rows', m)
<1>1. PICK m \in req[r].todo :
        \/ UNCHANGED rows /\ Goto(r, "requery")
        \/ ~Pending(m) /\ Ensured(r, m) /\ rows' = Append(rows, Voucher(m))
  BY DEF Insert
<1>2. ASSUME rows' = Append(rows, Voucher(m))
      PROVE  Issues(rows, rows', m)
  <2>1. PICK v : v = Voucher(m)
    OBVIOUS
  <2>2. v.milestone = m /\ v.status = "pending" /\ v.accepted = 0 /\ v \in Row
    BY <2>1, TodoEarned DEF Voucher, Row
  <2>3. PICK n : n = Len(rows) + 1
    OBVIOUS
  <2>4. rows \in Seq(Row) /\ rows' = Append(rows, v)
    BY <1>2, <2>1 DEF IInv, TypeOK
  <2>5. /\ DOMAIN rows = 1 .. Len(rows) /\ DOMAIN rows' = 1 .. n /\ Len(rows) \in Nat
        /\ rows'[n] = v /\ \A i \in 1 .. Len(rows) : rows'[i] = rows[i]
    BY <2>2, <2>3, <2>4, AppendProperties, LenProperties
  <2> QED
    BY <2>2, <2>3, <2>5 DEF Issues
<1> QED
  BY <1>1, <1>2

LEMMA SpendHonours ==
  ASSUME IInv, NEW r \in Requests, Spend(r)
  PROVE  \/ Quiet(rows, rows')
         \/ ~UsedElsewhere(req[r].row) /\ Honours(rows, rows', req[r].row)
<1>1. PICK i : i = req[r].row
  OBVIOUS
<1>2. CASE UNCHANGED rows
  BY <1>2 DEF Quiet
<1>3. CASE ~UsedElsewhere(i) /\ \E made \in {0, 1} : Honour(i, made)
  <2>1. PICK made \in {0, 1} : Honour(i, made)
    BY <1>3
  <2>2. PICK row : row = [rows[i] EXCEPT !.status = "used", !.orders = rows[i].orders + made,
                                         !.accepted = rows[i].accepted + 1]
    OBVIOUS
  <2>3. rows' = [rows EXCEPT ![i] = row]
    BY <2>1, <2>2 DEF Honour
  <2>4. i \in Ids => /\ row.status = "used" /\ row.milestone = rows[i].milestone
                     /\ row.accepted = rows[i].accepted + 1
    BY <2>2, Rows DEF Row
  <2>5. CASE i \in Ids
    BY <1>1, <1>3, <2>3, <2>4, <2>5 DEF Honours, Ids
  <2>6. CASE i \notin Ids
    BY <2>3, <2>6 DEF Quiet, Ids
  <2> QED
    BY <2>5, <2>6
<1> QED
  BY <1>1, <1>2, <1>3 DEF Spend

LEMMA CommitLapses ==
  ASSUME IInv, NEW r \in Requests, CommitExpired(r)
  PROVE  Quiet(rows, rows') \/ Lapses(rows, rows', req[r].batch)
<1>1. PICK batch : batch = req[r].batch
  OBVIOUS
<1>2. CASE UNCHANGED rows
  BY <1>2 DEF Quiet
<1>3. CASE rows' = [i \in Ids |-> IF i \in batch THEN [rows[i] EXCEPT !.status = "expired"]
                                  ELSE rows[i]]
  <2>1. DOMAIN rows' = Ids
    BY <1>3
  <2>2. ASSUME NEW i \in Ids
        PROVE  /\ rows'[i].milestone = rows[i].milestone /\ rows'[i].accepted = rows[i].accepted
               /\ rows'[i].status = IF i \in batch THEN "expired" ELSE rows[i].status
    <3>1. rows[i] \in Row
      BY Rows
    <3>2. rows'[i] = IF i \in batch THEN [rows[i] EXCEPT !.status = "expired"] ELSE rows[i]
      BY <1>3
    <3> QED
      BY <3>1, <3>2 DEF Row
  <2> QED
    BY <1>1, <2>1, <2>2 DEF Lapses, Ids
<1> QED
  BY <1>1, <1>2, <1>3 DEF CommitExpired

\* What handler r may do to the vouchers in one step.
Changes(r) ==
  \/ Quiet(rows, rows')
  \/ /\ req[r].phase = "insert"
     /\ \E m \in req[r].todo : ~Pending(m) /\ Ensured(r, m) /\ Issues(rows, rows', m)
  \/ /\ req[r].phase = "spend"
     /\ ~UsedElsewhere(req[r].row) /\ Honours(rows, rows', req[r].row)
  \/ req[r].phase = "expire" /\ Lapses(rows, rows', req[r].batch)

LEMMA ContinueChanges ==
  ASSUME IInv, NEW r \in Requests, Continue(r) \/ Abort(r)
  PROVE  Changes(r)
<1>1. CASE CommitVisit(r) \/ ReadUsed(r) \/ Look(r) \/ Requery(r) \/ Abort(r)
  <2>1. UNCHANGED rows
    BY <1>1 DEF CommitVisit, ReadUsed, Look, Requery, Abort
  <2> QED
    BY <2>1 DEF Changes, Quiet
<1>2. CASE Insert(r)
  <2>1. req[r].phase = "insert"
    BY <1>2 DEF Insert
  <2> QED
    BY <1>2, <2>1, InsertIssues DEF Changes, Quiet
<1>3. CASE Spend(r)
  <2>1. req[r].phase = "spend"
    BY <1>3 DEF Spend
  <2> QED
    BY <1>3, <2>1, SpendHonours DEF Changes
<1>4. CASE CommitExpired(r)
  <2>1. req[r].phase = "expire"
    BY <1>4 DEF CommitExpired
  <2> QED
    BY <1>4, <2>1, CommitLapses DEF Changes
<1>5. CASE Link(r)
  <2>1. PICK i, row : i = req[r].row /\ row = [rows[i] EXCEPT !.linked = TRUE]
    OBVIOUS
  <2>2. rows' = [rows EXCEPT ![i] = row]
    BY <1>5, <2>1 DEF Link
  <2>3. i \in Ids => /\ row.milestone = rows[i].milestone
                     /\ row.status = rows[i].status /\ row.accepted = rows[i].accepted
    BY <2>1, Rows DEF Row
  <2> QED
    BY <2>2, <2>3, FlagIsQuiet DEF Changes
<1> QED
  BY <1>1, <1>2, <1>3, <1>4, <1>5 DEF Continue

\* A request that arrives and a voucher that grows old leave them as they are.
LEMMA OthersQuiet ==
  ASSUME IInv, \/ \E r \in Requests : Begin(r)
               \/ \E i \in Ids : GrowOld(i)
               \/ UNCHANGED vars
  PROVE  Quiet(rows, rows')
<1>1. CASE UNCHANGED rows
  BY <1>1 DEF Quiet
<1>2. ASSUME NEW r \in Requests, Begin(r)
      PROVE  UNCHANGED rows
  BY <1>2 DEF Begin, LogVisit, Me, ClaimReward, ExpireOld, Redeem, VerifyLoyalty, Enter
<1>3. ASSUME NEW i \in Ids, GrowOld(i)
      PROVE  Quiet(rows, rows')
  <2>1. PICK row : row = [rows[i] EXCEPT !.overdue = TRUE]
    OBVIOUS
  <2>2. rows' = [rows EXCEPT ![i] = row]
    BY <1>3, <2>1 DEF GrowOld
  <2>3. /\ row.milestone = rows[i].milestone
        /\ row.status = rows[i].status /\ row.accepted = rows[i].accepted
    BY <2>1, Rows DEF Row
  <2> QED
    BY <2>2, <2>3, FlagIsQuiet
<1> QED
  BY <1>1, <1>2, <1>3 DEF vars

-----------------------------------------------------------------------------
(* What a step does to the sessions *)

\* Only the handlers that redeem and those that expire enter their phases, and
\* what they are about was pending when they did.
Enters(r, q) ==
  /\ UNCHANGED rows
  /\ \/ q.phase = "spend" /\ q.row \in Ids /\ rows[q.row].status = "pending"
     \/ /\ "expire" \in Ops /\ q.phase = "expire" /\ q.batch \subseteq Ids
        /\ \A i \in q.batch : rows[i].status = "pending"

LEMMA BeginEnters ==
  ASSUME IInv, NEW r \in Requests, Begin(r)
  PROVE  \E q : /\ req' = [req EXCEPT ![r] = q]
                /\ q.phase \in {"count", "used"} \/ Enters(r, q)
<1>0. Idle \in Session
  BY IdleOK DEF IInv, TypeOK
<1>1. CASE LogVisit(r) \/ Me(r) \/ ClaimReward(r)
  <2>1. \E q : q.phase \in {"count", "used"} /\ Enter(r, q)
    <3>1. CASE LogVisit(r)
      <4>1. PICK q : q = [New("visit", "count") EXCEPT !.count = visits + 1]
        OBVIOUS
      <4>2. q.phase = "count"
        BY <4>1 DEF New, Idle
      <4>3. Enter(r, q)
        BY <3>1, <4>1 DEF LogVisit
      <4> QED
        BY <4>2, <4>3
    <3>2. CASE Me(r)
      <4>1. PICK q : q = [New("me", "used") EXCEPT !.todo = 1 .. (visits \div Interval)]
        OBVIOUS
      <4>2. q.phase = "used"
        BY <4>1 DEF New, Idle
      <4>3. Enter(r, q)
        BY <3>2, <4>1 DEF Me
      <4> QED
        BY <4>2, <4>3
    <3>3. CASE ClaimReward(r)
      <4>1. PICK q : q = [New("claim", "used") EXCEPT !.todo = {Reached(visits)}]
        OBVIOUS
      <4>2. q.phase = "used"
        BY <4>1 DEF New, Idle
      <4>3. Enter(r, q)
        BY <3>3, <4>1 DEF ClaimReward
      <4> QED
        BY <4>2, <4>3
    <3> QED
      BY <1>1, <3>1, <3>2, <3>3
  <2> QED
    BY <2>1 DEF Enter
<1>2. CASE \E i \in Ids : Redeem(r, i) \/ VerifyLoyalty(r, i)
  <2>1. PICK i \in Ids, op \in Endpoints :
          rows[i].status = "pending" /\ Enter(r, [New(op, "spend") EXCEPT !.row = i])
    BY <1>2 DEF Redeem, VerifyLoyalty, Endpoints
  <2>2. PICK q : q = [New(op, "spend") EXCEPT !.row = i]
    OBVIOUS
  <2>3. q.phase = "spend" /\ q.row = i
    BY <2>2 DEF New, Idle
  <2> QED
    BY <2>1, <2>2, <2>3 DEF Enter, Enters
<1>3. CASE ExpireOld(r)
  <2>1. PICK old : old = {i \in Ids : rows[i].status = "pending" /\ rows[i].overdue}
    OBVIOUS
  <2>2. PICK q : q = [New("expire", "expire") EXCEPT !.batch = old]
    OBVIOUS
  <2>3. q.op = "expire" /\ q.phase = "expire" /\ q.batch = old
    BY <2>2 DEF New, Idle
  <2>4. Enter(r, q)
    BY <1>3, <2>1, <2>2 DEF ExpireOld
  <2> QED
    BY <2>1, <2>3, <2>4 DEF Enter, Enters
<1> QED
  BY <1>1, <1>2, <1>3 DEF Begin

LEMMA ContinueLeaves ==
  ASSUME IInv, NEW r \in Requests, Continue(r) \/ Abort(r)
  PROVE  \E q : req' = [req EXCEPT ![r] = q] /\ q.phase \notin {"spend", "expire"}
<1> DEFINE Left(q) == q.phase \notin {"spend", "expire"}
<1>1. /\ Left(Idle)
      /\ \A phase \in {"used", "ensure", "insert", "requery", "link"} : \A todo :
           /\ Left([req[r] EXCEPT !.phase = phase])
           /\ Left([req[r] EXCEPT !.phase = phase, !.todo = todo])
  <2>1. req[r] \in Session
    BY SessionFacts
  <2> QED
    BY <2>1 DEF Session, Idle
<1> HIDE DEF Left
<1> SUFFICES \E q : req' = [req EXCEPT ![r] = q] /\ Left(q)
  BY DEF Left
<1>2. CASE CommitVisit(r) \/ ReadUsed(r)
  BY <1>1, <1>2 DEF CommitVisit, ReadUsed, Finish
<1>3. CASE Look(r)
  BY <1>1, <1>3 DEF Look, Ensured, Goto, Finish
<1>4. CASE Insert(r)
  BY <1>1, <1>4 DEF Insert, Ensured, Goto, Finish
<1>5. CASE Requery(r)
  BY <1>1, <1>5 DEF Requery, Ensured, Finish
<1>6. CASE Spend(r) \/ Link(r) \/ CommitExpired(r)
  BY <1>1, <1>6 DEF Spend, Link, CommitExpired, Goto, Finish
<1>7. CASE Abort(r)
  BY <1>1, <1>7 DEF Abort, Finish
<1> QED
  BY <1>2, <1>3, <1>4, <1>5, <1>6, <1>7 DEF Continue

-----------------------------------------------------------------------------
(* One voucher of a milestone is honoured, while nothing is expired *)

\* What the unique constraint keeps of the table.
OneUsed(table) ==
  \A i, j \in DOMAIN table :
    /\ table[i].milestone = table[j].milestone
    /\ table[i].status = "used" /\ table[j].status = "used"
    => i = j

\* An honoured voucher stays used as long as no handler expires vouchers.
HonouredUsed(table) == \A i \in DOMAIN table : table[i].accepted > 0 => table[i].status = "used"

NoExpiry == \A r \in Requests : req[r].phase # "expire"

OInv == IInv /\ NoExpiry /\ OneUsed(rows) /\ HonouredUsed(rows)

LEMMA QuietOnce ==
  ASSUME NEW old, NEW new, Quiet(old, new) \/ \E m : Issues(old, new, m),
         OneUsed(old), HonouredUsed(old)
  PROVE  OneUsed(new) /\ HonouredUsed(new)
<1>1. CASE Quiet(old, new)
  BY <1>1 DEF Quiet, OneUsed, HonouredUsed
<1>2. CASE \E m : Issues(old, new, m)
  <2>1. PICK n : /\ DOMAIN new = DOMAIN old \cup {n}
                 /\ new[n].status = "pending" /\ new[n].accepted = 0
                 /\ \A i \in DOMAIN old : new[i] = old[i]
    BY <1>2 DEF Issues
  <2> QED
    BY <2>1 DEF OneUsed, HonouredUsed
<1> QED
  BY <1>1, <1>2

LEMMA HonourOnce ==
  ASSUME NEW i, Honours(rows, rows', i), ~UsedElsewhere(i), OneUsed(rows), HonouredUsed(rows)
  PROVE  OneUsed(rows') /\ HonouredUsed(rows')
BY DEF Honours, UsedElsewhere, OneUsed, HonouredUsed, Ids

LEMMA NextOInv ==
  ASSUME "expire" \notin Ops
  PROVE  OInv /\ [Next]_vars => OInv'
<1> SUFFICES ASSUME OInv, [Next]_vars PROVE OInv'
  OBVIOUS
<1>0. IInv /\ IInv' /\ OneUsed(rows) /\ HonouredUsed(rows) /\ req \in [Requests -> Session]
  BY NextIInv DEF OInv, IInv, TypeOK
<1>1. ASSUME NEW r \in Requests, Begin(r)
      PROVE  NoExpiry' /\ Quiet(rows, rows')
  <2>1. PICK q : /\ req' = [req EXCEPT ![r] = q]
                 /\ q.phase \in {"count", "used"} \/ Enters(r, q)
    BY <1>0, <1>1, BeginEnters
  <2>2. q.phase # "expire"
    BY <2>1 DEF Enters
  <2> QED
    BY <1>0, <1>1, <2>1, <2>2, OthersQuiet DEF OInv, NoExpiry
<1>2. ASSUME NEW r \in Requests, Continue(r) \/ Abort(r)
      PROVE  NoExpiry' /\ OneUsed(rows') /\ HonouredUsed(rows')
  <2>1. NoExpiry'
    BY <1>0, <1>2, ContinueLeaves DEF OInv, NoExpiry
  <2>2. \/ Quiet(rows, rows')
        \/ \E m : Issues(rows, rows', m)
        \/ ~UsedElsewhere(req[r].row) /\ Honours(rows, rows', req[r].row)
    BY <1>0, <1>2, ContinueChanges DEF Changes, OInv, NoExpiry
  <2> QED
    BY <1>0, <2>1, <2>2, QuietOnce, HonourOnce
<1>3. ASSUME (\E i \in Ids : GrowOld(i)) \/ UNCHANGED vars
      PROVE  NoExpiry' /\ Quiet(rows, rows')
  <2>1. UNCHANGED req
    BY <1>3 DEF GrowOld, vars
  <2> QED
    BY <1>0, <1>3, <2>1, OthersQuiet DEF OInv, NoExpiry
<1>4. NoExpiry' /\ OneUsed(rows') /\ HonouredUsed(rows')
  BY <1>0, <1>1, <1>2, <1>3, QuietOnce DEF Next
<1> QED
  BY <1>0, <1>4 DEF OInv

\* As long as nothing is expired, of all vouchers of a milestone only one is
\* honoured: the unique constraint lets one be used, and it stays used.
THEOREM OneHonoured ==
  ASSUME "expire" \notin Ops
  PROVE  Spec => []OneVoucherHonoured
<1>1. Init => OInv
  <2> SUFFICES ASSUME Init PROVE OInv
    OBVIOUS
  <2>1. \A r \in Requests : req[r].phase = "idle"
    BY DEF Init, Idle
  <2> QED
    BY <2>1, InitIInv DEF Init, OInv, NoExpiry, OneUsed, HonouredUsed
<1>2. OInv => OneVoucherHonoured
  BY DEF OInv, OneUsed, HonouredUsed, OneVoucherHonoured, Ids
<1> QED
  BY <1>1, <1>2, NextOInv, PTL DEF Spec

-----------------------------------------------------------------------------
(* The reward ledger *)

OneByOne == \A r, s \in Requests : r = s

\* The voucher that a handler is about to honour is pending or honoured by
\* now, and none that it is about to expire has been honoured.
AboutOK(table, q) ==
  /\ q.phase = "spend" => q.row \in DOMAIN table /\ table[q.row].status \in {"pending", "used"}
  /\ q.phase = "expire" =>
       "expire" \in Ops /\ q.batch \subseteq DOMAIN table /\ \A i \in q.batch : table[i].status # "used"

LInv == IInv /\ \A r \in Requests : AboutOK(rows, req[r])

LEMMA AboutKept ==
  ASSUME NEW old, NEW new, NEW q, AboutOK(old, q),
         Quiet(old, new) \/ \E m : Issues(old, new, m)
  PROVE  AboutOK(new, q)
BY DEF AboutOK, Quiet, Issues

LEMMA LInvStep ==
  ASSUME OneByOne \/ "expire" \notin Ops, LInv, [Next]_vars
  PROVE  LInv'
<1>0. IInv' /\ IInv
  BY NextIInv DEF LInv
<1>1. SUFFICES ASSUME NEW s \in Requests
               PROVE  AboutOK(rows', req'[s])
  BY <1>0 DEF LInv
<1>2. AboutOK(rows, req[s]) /\ req \in [Requests -> Session]
  BY DEF LInv, IInv, TypeOK
<1>3. ASSUME NEW r \in Requests, Begin(r)
      PROVE  AboutOK(rows', req'[s])
  <2>1. PICK q : /\ req' = [req EXCEPT ![r] = q]
                 /\ q.phase \in {"count", "used"} \/ Enters(r, q)
    BY <1>0, <1>3, BeginEnters
  <2>2. AboutOK(rows, q)
    BY <2>1 DEF AboutOK, Enters, Ids
  <2>3. req'[s] = q \/ req'[s] = req[s]
    BY <1>2, <2>1
  <2> QED
    BY <1>0, <1>2, <1>3, <2>2, <2>3, OthersQuiet, AboutKept
<1>4. ASSUME NEW r \in Requests, Continue(r) \/ Abort(r)
      PROVE  AboutOK(rows', req'[s])
  <2>1. PICK q : req' = [req EXCEPT ![r] = q] /\ q.phase \notin {"spend", "expire"}
    BY <1>0, <1>4, ContinueLeaves
  <2>2. CASE s = r
    <3>1. req'[s] = q
      BY <1>2, <2>1, <2>2
    <3> QED
      BY <2>1, <3>1 DEF AboutOK
  <2>3. CASE s # r
    <3>1. req'[s] = req[s] /\ "expire" \notin Ops
      BY <1>2, <2>1, <2>3 DEF OneByOne
    <3>2. req[r].phase # "expire" /\ req[s].phase # "expire"
      BY <1>2, <3>1 DEF LInv, AboutOK
    <3>3. \/ Quiet(rows, rows')
          \/ \E m : Issues(rows, rows', m)
          \/ Honours(rows, rows', req[r].row)
      BY <1>0, <1>4, <3>2, ContinueChanges DEF Changes
    <3>4. CASE Honours(rows, rows', req[r].row)
      BY <1>2, <3>1, <3>2, <3>4 DEF Honours, AboutOK
    <3> QED
      BY <1>2, <3>1, <3>3, <3>4, AboutKept
  <2> QED
    BY <2>2, <2>3
<1>5. ASSUME (\E i \in Ids : GrowOld(i)) \/ UNCHANGED vars
      PROVE  AboutOK(rows', req'[s])
  <2>1. UNCHANGED req
    BY <1>5 DEF GrowOld, vars
  <2> QED
    BY <1>0, <1>2, <1>5, <2>1, OthersQuiet, AboutKept
<1> QED
  BY <1>3, <1>4, <1>5 DEF Next

\* The rewards that a table of vouchers stands for.
RewardIn(table) ==
  [m \in Milestones |-> IF Held(table, m, "used") THEN "spent"
                        ELSE IF Held(table, m, "pending") THEN "open" ELSE "locked"]

LEMMA RewardIsIn == Reward = RewardIn(rows) /\ Reward' = RewardIn(rows')
<1>1. \A m : (m \in Used <=> Held(rows, m, "used")) /\ (Pending(m) <=> Held(rows, m, "pending"))
  BY DEF Used, Pending, Held, Ids
<1>2. \A m : (m \in Used' <=> Held(rows', m, "used")) /\ (Pending(m)' <=> Held(rows', m, "pending"))
  BY DEF Used, Pending, Held, Ids
<1> QED
  BY <1>1, <1>2 DEF Reward, RewardIn

\* Rewards that are as they were, one that opens or is spent, some that lapse.
Moves(old, new) ==
  \/ new = old
  \/ \E m \in Milestones : old[m] = "locked" /\ new = [old EXCEPT ![m] = "open"]
  \/ \E m \in Milestones : old[m] = "open" /\ new = [old EXCEPT ![m] = "spent"]
  \/ \E batch \in SUBSET Milestones :
       /\ \A m \in batch : old[m] = "open"
       /\ new = [m \in Milestones |-> IF m \in batch THEN "locked" ELSE old[m]]

LEMMA QuietMoves ==
  ASSUME NEW old, NEW new, Quiet(old, new)
  PROVE  RewardIn(new) = RewardIn(old)
<1>1. \A m, status : Held(new, m, status) <=> Held(old, m, status)
  BY DEF Quiet, Held
<1> QED
  BY <1>1 DEF RewardIn

LEMMA IssueMoves ==
  ASSUME NEW old, NEW new, NEW k, Issues(old, new, k), ~Held(old, k, "pending")
  PROVE  Moves(RewardIn(old), RewardIn(new))
<1>1. \A m : Held(new, m, "used") <=> Held(old, m, "used")
  BY DEF Issues, Held
<1>2. \A m : Held(new, m, "pending") <=> (m = k \/ Held(old, m, "pending"))
  BY DEF Issues, Held
<1>3. CASE k \in Milestones /\ ~Held(old, k, "used")
  <2>1. RewardIn(old)[k] = "locked"
    BY <1>3 DEF RewardIn
  <2>2. RewardIn(new) = [RewardIn(old) EXCEPT ![k] = "open"]
    BY <1>1, <1>2, <1>3 DEF RewardIn
  <2> QED
    BY <1>3, <2>1, <2>2 DEF Moves
<1>4. CASE k \notin Milestones \/ Held(old, k, "used")
  <2>1. RewardIn(new) = RewardIn(old)
    BY <1>1, <1>2, <1>4 DEF RewardIn
  <2> QED
    BY <2>1 DEF Moves
<1> QED
  BY <1>3, <1>4

LEMMA HonourMoves ==
  ASSUME NEW old, NEW new, NEW i, Honours(old, new, i), old[i].status \in {"pending", "used"},
         \A j \in DOMAIN old : j # i => ~(old[j].milestone = old[i].milestone /\ old[j].status = "used")
  PROVE  Moves(RewardIn(old), RewardIn(new))
<1>1. PICK k : k = old[i].milestone
  OBVIOUS
<1>2. \A m : Held(new, m, "used") <=> (m = k \/ Held(old, m, "used"))
  BY <1>1 DEF Honours, Held
<1>3. \A m : m # k => (Held(new, m, "pending") <=> Held(old, m, "pending"))
  BY <1>1 DEF Honours, Held
<1>4. CASE k \in Milestones /\ old[i].status = "pending"
  <2>1. ~Held(old, k, "used") /\ Held(old, k, "pending")
    BY <1>1, <1>4 DEF Held, Honours
  <2>2. RewardIn(old)[k] = "open"
    BY <1>4, <2>1 DEF RewardIn
  <2>3. RewardIn(new) = [RewardIn(old) EXCEPT ![k] = "spent"]
    BY <1>2, <1>3, <1>4 DEF RewardIn
  <2> QED
    BY <1>4, <2>2, <2>3 DEF Moves
<1>5. CASE k \notin Milestones
  <2>1. RewardIn(new) = RewardIn(old)
    BY <1>2, <1>3, <1>5 DEF RewardIn
  <2> QED
    BY <2>1 DEF Moves
<1>6. CASE old[i].status = "used"
  <2>1. Held(old, k, "used")
    BY <1>1, <1>6 DEF Held, Honours
  <2>2. RewardIn(new) = RewardIn(old)
    BY <1>2, <1>3, <2>1 DEF RewardIn
  <2> QED
    BY <2>2 DEF Moves
<1> QED
  BY <1>4, <1>5, <1>6

LEMMA LapseMoves ==
  ASSUME NEW old, NEW new, NEW batch, Lapses(old, new, batch),
         \A i \in batch : old[i].status # "used"
  PROVE  Moves(RewardIn(old), RewardIn(new))
<1>1. \A m : Held(new, m, "used") <=> Held(old, m, "used")
  BY DEF Lapses, Held
<1>2. \A m : Held(new, m, "pending") => Held(old, m, "pending")
  BY DEF Lapses, Held
<1>3. PICK S : S = {m \in Milestones : RewardIn(old)[m] = "open" /\ RewardIn(new)[m] # "open"}
  OBVIOUS
<1>4. \A m \in S : RewardIn(old)[m] = "open"
  BY <1>3
<1>5. ASSUME NEW m \in Milestones
      PROVE  RewardIn(new)[m] = IF m \in S THEN "locked" ELSE RewardIn(old)[m]
  BY <1>1, <1>2, <1>3 DEF RewardIn
<1>6. RewardIn(new) = [m \in Milestones |-> IF m \in S THEN "locked" ELSE RewardIn(old)[m]]
  BY <1>5 DEF RewardIn
<1> QED
  BY <1>3, <1>4, <1>6 DEF Moves

\* Every step of the handlers is a step of the ledger or leaves it alone.
LEMMA LedgerStep ==
  ASSUME LInv, [Next]_vars
  PROVE  [Ledger!Next]_Reward
<1>1. Moves(RewardIn(rows), RewardIn(rows'))
  <2>1. CASE Quiet(rows, rows')
    BY <2>1, QuietMoves DEF Moves
  <2>2. ASSUME NEW r \in Requests, Continue(r) \/ Abort(r)
        PROVE  Moves(RewardIn(rows), RewardIn(rows'))
    <3>1. Changes(r) /\ AboutOK(rows, req[r])
      BY <2>2, ContinueChanges DEF LInv
    <3>2. ASSUME NEW m, ~Pending(m), Issues(rows, rows', m)
          PROVE  Moves(RewardIn(rows), RewardIn(rows'))
      BY <3>2, IssueMoves DEF Pending, Held, Ids
    <3>3. CASE req[r].phase = "spend" /\ ~UsedElsewhere(req[r].row) /\ Honours(rows, rows', req[r].row)
      <4>1. PICK i : i = req[r].row
        OBVIOUS
      <4>2. \A j \in DOMAIN rows : j # i =>
              ~(rows[j].milestone = rows[i].milestone /\ rows[j].status = "used")
        BY <3>3, <4>1 DEF UsedElsewhere, Ids
      <4>3. Honours(rows, rows', i) /\ rows[i].status \in {"pending", "used"}
        BY <3>1, <3>3, <4>1 DEF AboutOK
      <4> QED
        BY <4>2, <4>3, HonourMoves
    <3>4. CASE req[r].phase = "expire" /\ Lapses(rows, rows', req[r].batch)
      BY <3>1, <3>4, LapseMoves DEF AboutOK
    <3> QED
      BY <2>1, <3>1, <3>2, <3>3, <3>4 DEF Changes
  <2> QED
    BY <2>1, <2>2, OthersQuiet DEF Next, LInv
<1>2. Moves(Reward, Reward')
  BY <1>1, RewardIsIn
<1> QED
  BY <1>2 DEF Moves, Ledger!Next, Ledger!Open, Ledger!Spend, Ledger!Lapse

\* One handler at a time, or any number as long as none expires vouchers: the
\* vouchers of a milestone are one reward, locked, open or spent for good.
THEOREM LedgerKept ==
  ASSUME OneByOne \/ "expire" \notin Ops
  PROVE  Spec => LedgerImplemented
<1>1. Init => LInv
  <2> SUFFICES ASSUME Init PROVE LInv
    OBVIOUS
  <2>1. \A r \in Requests : req[r].phase = "idle"
    BY DEF Init, Idle
  <2> QED
    BY <2>1, InitIInv DEF LInv, AboutOK
<1>2. Init => Ledger!Init
  BY DEF Init, Ledger!Init, Reward, Used, Pending, Ids
<1>3. LInv /\ [Next]_vars => LInv'
  BY LInvStep
<1>4. LInv /\ [Next]_vars => [Ledger!Next]_Reward
  BY LedgerStep
<1> QED
  BY <1>1, <1>2, <1>3, <1>4, PTL DEF Spec, LedgerImplemented, Ledger!Spec

-----------------------------------------------------------------------------
(* One handler at a time: redeemed for good *)

\* A voucher is honoured once, and only a used one is; beside a pending voucher
\* there is no other of its milestone that is pending or used.
VouchersOK(table) ==
  /\ \A i \in DOMAIN table :
       /\ table[i].accepted \in {0, 1}
       /\ table[i].status # "used" => table[i].accepted = 0
  /\ \A i, j \in DOMAIN table :
       /\ table[i].milestone = table[j].milestone
       /\ table[i].status = "pending" /\ table[j].status \in {"pending", "used"}
       => i = j

\* A handler issues vouchers for milestones that are not redeemed.
IssuingOK(table, q) ==
  q.phase \in {"ensure", "insert", "requery"} => \A m \in q.todo : ~Held(table, m, "used")

\* What a handler is about to honour, or to expire, is pending still.
CurrentOK(table, q) ==
  /\ q.phase = "spend" => q.row \in DOMAIN table /\ table[q.row].status = "pending"
  /\ q.phase = "expire" =>
       q.batch \subseteq DOMAIN table /\ \A i \in q.batch : table[i].status = "pending"

SInv ==
  /\ IInv /\ VouchersOK(rows)
  /\ \A r \in Requests : IssuingOK(rows, req[r]) /\ CurrentOK(rows, req[r])

LEMMA QuietKeeps ==
  ASSUME NEW old, NEW new, Quiet(old, new), VouchersOK(old)
  PROVE  VouchersOK(new)
BY DEF Quiet, VouchersOK

LEMMA IssueKeeps ==
  ASSUME NEW old, NEW new, NEW m, Issues(old, new, m), VouchersOK(old),
         ~Held(old, m, "pending"), ~Held(old, m, "used")
  PROVE  VouchersOK(new)
<1>1. PICK n : /\ n \notin DOMAIN old /\ DOMAIN new = DOMAIN old \cup {n}
               /\ new[n].milestone = m /\ new[n].status = "pending" /\ new[n].accepted = 0
               /\ \A i \in DOMAIN old : new[i] = old[i]
  BY DEF Issues
<1>2. \A i \in DOMAIN old : old[i].milestone = m => old[i].status \notin {"pending", "used"}
  BY DEF Held
<1>3. \A i \in DOMAIN new : /\ new[i].accepted \in {0, 1}
                            /\ new[i].status # "used" => new[i].accepted = 0
  BY <1>1 DEF VouchersOK
<1>4. ASSUME NEW i \in DOMAIN new, NEW j \in DOMAIN new, new[i].milestone = new[j].milestone,
             new[i].status = "pending", new[j].status \in {"pending", "used"}
      PROVE  i = j
  BY <1>1, <1>2, <1>4 DEF VouchersOK
<1> QED
  BY <1>3, <1>4 DEF VouchersOK

LEMMA HonourKeeps ==
  ASSUME NEW old, NEW new, NEW i, Honours(old, new, i), VouchersOK(old), old[i].status = "pending"
  PROVE  VouchersOK(new)
<1>1. \A k \in DOMAIN new : /\ new[k].accepted \in {0, 1}
                            /\ new[k].status # "used" => new[k].accepted = 0
  <2>1. new[i].accepted = 1
    BY DEF Honours, VouchersOK
  <2> QED
    BY <2>1 DEF Honours, VouchersOK
<1>2. ASSUME NEW k \in DOMAIN new, NEW j \in DOMAIN new, new[k].milestone = new[j].milestone,
             new[k].status = "pending", new[j].status \in {"pending", "used"}
      PROVE  k = j
  BY <1>2 DEF Honours, VouchersOK
<1> QED
  BY <1>1, <1>2 DEF VouchersOK

LEMMA LapseKeeps ==
  ASSUME NEW old, NEW new, NEW batch, Lapses(old, new, batch), VouchersOK(old),
         \A i \in batch : i \in DOMAIN old /\ old[i].status = "pending"
  PROVE  VouchersOK(new)
<1>1. \A k \in DOMAIN new : /\ new[k].accepted \in {0, 1}
                            /\ new[k].status # "used" => new[k].accepted = 0
  BY DEF Lapses, VouchersOK
<1>2. ASSUME NEW k \in DOMAIN new, NEW j \in DOMAIN new, new[k].milestone = new[j].milestone,
             new[k].status = "pending", new[j].status \in {"pending", "used"}
      PROVE  k = j
  BY <1>2 DEF Lapses, VouchersOK
<1> QED
  BY <1>1, <1>2 DEF VouchersOK

\* Issuing goes on with some of the milestones that are left.
Goes(r, q) ==
  /\ \/ Quiet(rows, rows')
     \/ \E m \in req[r].todo : Issues(rows, rows', m)
  /\ q.todo \subseteq req[r].todo
  /\ req[r].phase \in {"ensure", "insert", "requery"} \/ \A m \in q.todo : ~Held(rows, m, "used")

LEMMA EnsuredGoes ==
  ASSUME IInv, NEW r \in Requests, NEW m, Ensured(r, m),
         req[r].phase \in {"ensure", "insert", "requery"},
         Quiet(rows, rows') \/ \E k \in req[r].todo : Issues(rows, rows', k)
  PROVE  \E q : req' = [req EXCEPT ![r] = q] /\ (q.phase = "idle" \/ Goes(r, q))
<1>1. CASE req[r].todo = {m}
  <2>1. req' = [req EXCEPT ![r] = Idle] /\ Idle.phase = "idle"
    BY <1>1 DEF Ensured, Finish, Idle
  <2> QED
    BY <2>1
<1>2. CASE req[r].todo # {m}
  <2>1. PICK q : q = [req[r] EXCEPT !.phase = "ensure", !.todo = req[r].todo \ {m}]
    OBVIOUS
  <2>2. q.todo = req[r].todo \ {m}
    BY <2>1, SessionFacts DEF Session
  <2>3. req' = [req EXCEPT ![r] = q]
    BY <1>2, <2>1 DEF Ensured
  <2> QED
    BY <2>2, <2>3 DEF Goes
<1> QED
  BY <1>1, <1>2

LEMMA GotoGoes ==
  ASSUME IInv, NEW r \in Requests, NEW phase, Goto(r, phase),
         req[r].phase \in {"ensure", "insert", "requery"}, UNCHANGED rows
  PROVE  \E q : req' = [req EXCEPT ![r] = q] /\ Goes(r, q)
<1>1. PICK q : q = [req[r] EXCEPT !.phase = phase]
  OBVIOUS
<1>2. q.todo = req[r].todo
  BY <1>1, SessionFacts DEF Session
<1> QED
  BY <1>1, <1>2 DEF Goto, Goes, Quiet

LEMMA IssuingGoes ==
  ASSUME IInv, NEW r \in Requests, Continue(r) \/ Abort(r)
  PROVE  \E q : /\ req' = [req EXCEPT ![r] = q]
                /\ q.phase \notin {"ensure", "insert", "requery"} \/ Goes(r, q)
<1>1. req[r] \in Session
  BY SessionFacts
<1>2. ASSUME Finish(r)
      PROVE  \E q : req' = [req EXCEPT ![r] = q] /\ q.phase = "idle"
  <2>1. req' = [req EXCEPT ![r] = Idle] /\ Idle.phase = "idle"
    BY <1>2 DEF Finish, Idle
  <2> QED
    BY <2>1
<1>3. CASE CommitVisit(r)
  <2>1. ASSUME NEW todo
        PROVE  [req[r] EXCEPT !.phase = "used", !.todo = todo].phase = "used"
    BY <1>1 DEF Session
  <2> QED
    BY <1>2, <1>3, <2>1 DEF CommitVisit
<1>4. CASE ReadUsed(r)
  <2>1. PICK left : left = req[r].todo \ Used
    OBVIOUS
  <2>2. CASE Finish(r)
    BY <1>2, <2>2
  <2>3. CASE req' = [req EXCEPT ![r] = [req[r] EXCEPT !.phase = "ensure", !.todo = left]]
    <3>1. PICK q : q = [req[r] EXCEPT !.phase = "ensure", !.todo = left]
      OBVIOUS
    <3>2. q.todo = left
      BY <1>1, <3>1 DEF Session
    <3>3. \A m \in left : ~Held(rows, m, "used")
      BY <2>1 DEF Used, Held, Ids
    <3>4. Quiet(rows, rows')
      BY <1>4 DEF ReadUsed, Quiet
    <3> QED
      BY <2>1, <2>3, <3>1, <3>2, <3>3, <3>4 DEF Goes
  <2> QED
    BY <1>4, <2>1, <2>2, <2>3 DEF ReadUsed
<1>5. CASE Look(r) \/ Requery(r)
  <2>1. UNCHANGED rows /\ req[r].phase \in {"ensure", "insert", "requery"} /\ Quiet(rows, rows')
    BY <1>5 DEF Look, Requery, Quiet
  <2>2. Goto(r, "insert") \/ Finish(r) \/ \E m : Ensured(r, m)
    BY <1>5 DEF Look, Requery
  <2> QED
    BY <1>2, <2>1, <2>2, EnsuredGoes, GotoGoes
<1>6. CASE Insert(r)
  <2>1. req[r].phase \in {"ensure", "insert", "requery"}
    BY <1>6 DEF Insert
  <2> QED
    BY <1>6, <2>1, InsertIssues, EnsuredGoes, GotoGoes
<1>7. CASE Spend(r) \/ Link(r) \/ CommitExpired(r) \/ Abort(r)
  <2>1. Finish(r) \/ Goto(r, "link")
    BY <1>7 DEF Spend, Link, CommitExpired, Abort
  <2>2. [req[r] EXCEPT !.phase = "link"].phase = "link"
    BY <1>1 DEF Session
  <2> QED
    BY <1>2, <2>1, <2>2 DEF Goto
<1> QED
  BY <1>3, <1>4, <1>5, <1>6, <1>7 DEF Continue

LEMMA IssuingKept ==
  ASSUME NEW old, NEW new, NEW q, IssuingOK(old, q), Quiet(old, new)
  PROVE  IssuingOK(new, q)
BY DEF IssuingOK, Quiet, Held

LEMMA CurrentKept ==
  ASSUME NEW old, NEW new, NEW q, CurrentOK(old, q), Quiet(old, new)
  PROVE  CurrentOK(new, q)
BY DEF CurrentOK, Quiet

LEMMA SInvStep ==
  ASSUME OneByOne, SInv, [Next]_vars
  PROVE  SInv'
<1>0. IInv /\ IInv' /\ VouchersOK(rows) /\ req \in [Requests -> Session]
  BY NextIInv DEF SInv, IInv, TypeOK
<1>1. ASSUME NEW r \in Requests, Begin(r)
      PROVE  SInv'
  <2>1. Quiet(rows, rows')
    BY <1>0, <1>1, OthersQuiet
  <2>2. PICK q : /\ req' = [req EXCEPT ![r] = q]
                 /\ q.phase \in {"count", "used"} \/ Enters(r, q)
    BY <1>0, <1>1, BeginEnters
  <2>3. IssuingOK(rows, q) /\ CurrentOK(rows, q)
    BY <2>2 DEF IssuingOK, CurrentOK, Enters, Ids
  <2>4. \A s \in Requests : req'[s] = q \/ req'[s] = req[s]
    BY <1>0, <2>2
  <2>5. \A s \in Requests : IssuingOK(rows', req'[s]) /\ CurrentOK(rows', req'[s])
    BY <2>1, <2>3, <2>4, IssuingKept, CurrentKept DEF SInv
  <2> QED
    BY <1>0, <2>1, <2>5, QuietKeeps DEF SInv
<1>2. ASSUME NEW r \in Requests, Continue(r) \/ Abort(r)
      PROVE  SInv'
  <2>1. Changes(r) /\ IssuingOK(rows, req[r]) /\ CurrentOK(rows, req[r])
    BY <1>0, <1>2, ContinueChanges DEF SInv
  <2>2. VouchersOK(rows')
    <3>1. CASE Quiet(rows, rows')
      BY <1>0, <3>1, QuietKeeps
    <3>2. ASSUME NEW m \in req[r].todo, req[r].phase = "insert", ~Pending(m), Issues(rows, rows', m)
          PROVE  VouchersOK(rows')
      <4>1. ~Held(rows, m, "pending") /\ ~Held(rows, m, "used")
        BY <2>1, <3>2 DEF Pending, Held, Ids, IssuingOK
      <4> QED
        BY <1>0, <3>2, <4>1, IssueKeeps
    <3>3. CASE req[r].phase = "spend" /\ Honours(rows, rows', req[r].row)
      BY <1>0, <2>1, <3>3, HonourKeeps DEF CurrentOK
    <3>4. CASE req[r].phase = "expire" /\ Lapses(rows, rows', req[r].batch)
      BY <1>0, <2>1, <3>4, LapseKeeps DEF CurrentOK
    <3> QED
      BY <2>1, <3>1, <3>2, <3>3, <3>4 DEF Changes
  <2>3. CurrentOK(rows', req'[r])
    <3>1. req'[r].phase \notin {"spend", "expire"}
      BY <1>0, <1>2, ContinueLeaves
    <3> QED
      BY <3>1 DEF CurrentOK
  <2>4. IssuingOK(rows', req'[r])
    <3>1. PICK q : /\ req' = [req EXCEPT ![r] = q]
                   /\ q.phase \notin {"ensure", "insert", "requery"} \/ Goes(r, q)
      BY <1>0, <1>2, IssuingGoes
    <3>2. req'[r] = q
      BY <1>0, <3>1
    <3>3. ASSUME Goes(r, q), NEW m \in q.todo
          PROVE  ~Held(rows', m, "used")
      <4>1. ~Held(rows, m, "used")
        BY <2>1, <3>3 DEF Goes, IssuingOK
      <4>2. Held(rows', m, "used") => Held(rows, m, "used")
        BY <3>3 DEF Goes, Quiet, Issues, Held
      <4> QED
        BY <4>1, <4>2
    <3> QED
      BY <3>1, <3>2, <3>3 DEF IssuingOK
  <2>5. \A s \in Requests : s = r
    BY DEF OneByOne
  <2> QED
    BY <1>0, <2>2, <2>3, <2>4, <2>5 DEF SInv
<1>3. ASSUME (\E i \in Ids : GrowOld(i)) \/ UNCHANGED vars
      PROVE  SInv'
  <2>1. Quiet(rows, rows') /\ UNCHANGED req
    BY <1>0, <1>3, OthersQuiet DEF GrowOld, vars
  <2>2. \A s \in Requests : IssuingOK(rows', req'[s]) /\ CurrentOK(rows', req'[s])
    BY <2>1, IssuingKept, CurrentKept DEF SInv
  <2> QED
    BY <1>0, <2>1, <2>2, QuietKeeps DEF SInv
<1> QED
  BY <1>1, <1>2, <1>3 DEF Next

\* One handler at a time: no voucher is honoured twice, and a milestone that
\* was redeemed has no pending voucher again (redeem_reward, verify_loyalty,
\* claim_reward), though vouchers expire and are issued anew.
THEOREM RedeemedStays ==
  ASSUME OneByOne
  PROVE  Spec => []RedeemedForGood
<1>1. Init => SInv
  <2> SUFFICES ASSUME Init PROVE SInv
    OBVIOUS
  <2>1. \A r \in Requests : req[r].phase = "idle"
    BY DEF Init, Idle
  <2> QED
    BY <2>1, InitIInv DEF Init, SInv, VouchersOK, IssuingOK, CurrentOK
<1>2. SInv /\ [Next]_vars => SInv'
  BY SInvStep
<1>3. SInv => RedeemedForGood
  BY DEF SInv, VouchersOK, RedeemedForGood, HonouredOnce, Ids
<1> QED
  BY <1>1, <1>2, <1>3, PTL DEF Spec
=============================================================================
