-------------------------- MODULE OrderFlow_proofs --------------------------
(***************************************************************************)
(* What TLAPS proves of OrderFlow, for any number of orders, charges,      *)
(* receipts and overlapping requests, and any value of the bounds.         *)
(***************************************************************************)
EXTENDS OrderFlow, SequenceTheorems, TLAPS

(* The inductive invariant *)

\* Where there is no order there are no timestamps either, and a payment row
\* belongs to an order that exists.
TablesOK ==
  /\ \A o \in Orders : ~Exists(o) => order[o].started = 0 /\ order[o].ended = 0
  /\ \A p \in Charges \cup Receipts :
       payment[p].status # "none" => payment[p].order \in Orders /\ Exists(payment[p].order)

\* What a session has loaded of its order: the row may have moved on since,
\* but a timestamp that was set is still set, and the handler never clears one.
LoadedOK(q) ==
  /\ q.o \in Orders =>
       /\ Exists(q.o) /\ q.new.status # "none"
       /\ q.snap.started # 0 => order[q.o].started # 0
       /\ q.snap.ended # 0 => order[q.o].ended # 0
  /\ q.snap.started # 0 => q.new.started # 0
  /\ q.snap.ended # 0 => q.new.ended # 0

\* A session that writes ended_at has seen started_at.
EndingOK(q) ==
  /\ q.phase = "stamp" /\ q.op = "end" => q.snap.started # 0
  /\ q.new.ended # q.snap.ended => q.snap.started # 0

\* A session about to store a successful payment logs a visit in the same
\* commit, or has no need to.
PayingOK(q) ==
  /\ q.op \notin {"idle", "visit"} => q.o \in Orders
  /\ q.p \in Charges \/ q.settled # "none" => q.o \in Orders
  /\ q.phase \in {"stamp", "post"} => q.settled = "none" /\ q.o \in Orders
  /\ q.phase = "dirty" /\ q.settled = "success" =>
       q.count # 0 \/ order[q.o].ended # 0 \/ counted[q.o] > 0

SessionsOK == \A r \in Requests :
  LoadedOK(req[r]) /\ EndingOK(req[r]) /\ PayingOK(req[r])

IInv == TypeOK /\ TablesOK /\ EndedImpliesStarted /\ PaymentsCounted /\ SessionsOK

-----------------------------------------------------------------------------
(* Lemmas about the helpers *)

\* An UPDATE built from well-typed rows is a well-typed row.
LEMMA FlushType ==
  ASSUME NEW cur \in Row, NEW old \in Row, NEW new \in Row
  PROVE  Flush(cur, old, new) \in Row
BY DEF Flush, Changed, Row

\* A session that has just loaded an order is well typed.
LEMMA LoadedType ==
  ASSUME TypeOK, NEW o \in Orders, NEW op \in Endpoints,
         NEW phase \in {"post", "stamp", "visit", "dirty"}, NEW new \in Row
  PROVE  Loaded(op, phase, o, new) \in Session
BY DEF Loaded, Session, TypeOK

\* Changing the status in memory changes nothing else.
LEMMA WithStatusType ==
  ASSUME TypeOK, NEW o \in Orders, NEW status \in Statuses
  PROVE  /\ WithStatus(o, status) \in Row
         /\ WithStatus(o, status).status = status
         /\ WithStatus(o, status).started = order[o].started
         /\ WithStatus(o, status).ended = order[o].ended
BY DEF WithStatus, TypeOK, Row

\* A session that has loaded an existing order, and keeps its timestamps,
\* satisfies the requirements as long as it settles no charge.
LEMMA LoadedIsOK ==
  ASSUME IInv, NEW o \in Orders, Exists(o), NEW op \in Endpoints,
         NEW phase \in {"post", "stamp", "visit", "dirty"}, NEW new \in Row,
         new.status # "none", new.started = order[o].started, new.ended = order[o].ended,
         phase = "stamp" /\ op = "end" => order[o].started # 0
  PROVE  LET q == Loaded(op, phase, o, new) IN
         q \in Session /\ LoadedOK(q) /\ EndingOK(q) /\ PayingOK(q)
<1>1. Loaded(op, phase, o, new) \in Session
  BY LoadedType DEF IInv
<1> QED
  BY <1>1, OrderFlowAssumption DEF Loaded, LoadedOK, EndingOK, PayingOK, Exists

\* The session of a slot that is free satisfies every requirement.
LEMMA IdleOK ==
  Idle \in Session /\ LoadedOK(Idle) /\ EndingOK(Idle) /\ PayingOK(Idle)
BY OrderFlowAssumption DEF Idle, Session, NoRow, Row, Statuses, LoadedOK, EndingOK, PayingOK

\* Replacing the session of one request by one that satisfies the
\* requirements, with the tables as they were, preserves the invariant.
LEMMA SessionStep ==
  ASSUME IInv, NEW r \in Requests, NEW q \in Session,
         LoadedOK(q), EndingOK(q), PayingOK(q),
         req' = [req EXCEPT ![r] = q], UNCHANGED <<tables, history>>,
         charge' \in [Charges -> {"none", "pending", "successful", "failed"}],
         clock' \in Nat, faults' \in Nat
  PROVE  IInv'
<1> USE DEF IInv
<1>1. TypeOK'
  BY DEF TypeOK, tables, history
<1>2. TablesOK' /\ EndedImpliesStarted' /\ PaymentsCounted'
  BY DEF TablesOK, Exists, EndedImpliesStarted, PaymentsCounted, tables, history
<1>3. SessionsOK'
  <2> SUFFICES ASSUME NEW s \in Requests
               PROVE  (LoadedOK(req[s]) /\ EndingOK(req[s]) /\ PayingOK(req[s]))'
    BY DEF SessionsOK
  <2>1. req'[s] = IF s = r THEN q ELSE req[s]
    BY DEF TypeOK
  <2> QED
    BY <2>1 DEF SessionsOK, LoadedOK, EndingOK, PayingOK, Exists, tables, history
<1> QED
  BY <1>1, <1>2, <1>3

-----------------------------------------------------------------------------
(* A request enters a handler *)

\* Entering a handler replaces one session and nothing else.
LEMMA EnterStep ==
  ASSUME IInv, NEW r \in Requests, NEW q \in Session,
         LoadedOK(q), EndingOK(q), PayingOK(q), Enter(r, q)
  PROVE  IInv'
BY SessionStep DEF Enter, tables, history, IInv, TypeOK

\* The handlers of the wash: each loads an order that exists and changes its
\* status in memory; only the end handler will set ended_at, after its check.
LEMMA WashEnters ==
  ASSUME IInv, NEW r \in Requests, NEW o \in Orders,
         \/ StartWash(r, o) \/ EndWash(r, o) \/ LegacyStartWash(r, o)
         \/ CompleteWash(r, o) \/ RedeemOrder(r, o)
  PROVE  IInv'
<1>0. TypeOK
  BY DEF IInv
<1>1. CASE StartWash(r, o)
  BY <1>1, EnterStep, LoadedIsOK, WithStatusType, <1>0 DEF StartWash, Statuses, Endpoints
<1>2. CASE EndWash(r, o)
  BY <1>2, EnterStep, LoadedIsOK, WithStatusType, <1>0 DEF EndWash, Statuses, Endpoints
<1>3. CASE LegacyStartWash(r, o)
  BY <1>3, EnterStep, LoadedIsOK, WithStatusType, <1>0 DEF LegacyStartWash, Statuses, Endpoints
<1>4. CASE CompleteWash(r, o)
  BY <1>4, EnterStep, LoadedIsOK, WithStatusType, <1>0 DEF CompleteWash, Statuses, Endpoints
<1>5. CASE RedeemOrder(r, o)
  BY <1>5, EnterStep, LoadedIsOK, WithStatusType, <1>0 DEF RedeemOrder, Statuses, Endpoints
<1> QED
  BY <1>1, <1>2, <1>3, <1>4, <1>5

\* The handlers of payments: the webhook is the one that may be about to store
\* a success without logging a visit, and then the success was there already.
LEMMA PaymentEnters ==
  ASSUME IInv, NEW r \in Requests,
         \/ \E o \in Orders : ChargeOrder(r, o) \/ VerifyPayment(r, o)
         \/ \E c \in Charges : Webhook(r, c)
         \/ \E p \in Receipts : VerifyPos(r, p)
         \/ LogManualVisit(r)
  PROVE  IInv'
<1>0. TypeOK /\ \A o \in Orders : order[o] \in Row
  BY DEF IInv, TypeOK
<1>1. ASSUME NEW o \in Orders, ChargeOrder(r, o)
      PROVE  IInv'
  BY <1>0, <1>1, EnterStep, LoadedIsOK DEF ChargeOrder, Exists, Endpoints
<1>2. ASSUME NEW o \in Orders, VerifyPayment(r, o)
      PROVE  IInv'
  <2> DEFINE new == [order[o] EXCEPT !.verified = TRUE]
  <2>1. /\ new \in Row /\ new.status = order[o].status
        /\ new.started = order[o].started /\ new.ended = order[o].ended
    BY <1>0 DEF Row
  <2> QED
    BY <1>2, <2>1, EnterStep, LoadedIsOK DEF VerifyPayment, Exists, Endpoints
<1>3. ASSUME NEW c \in Charges, Webhook(r, c)
      PROVE  IInv'
  <2> DEFINE o == payment[c].order
             delivery(phase, new) == [Loaded("webhook", phase, o, new) EXCEPT
                                        !.p = c, !.settled = StatusOf(charge[c])]
  <2>1. o \in Orders /\ Exists(o)
    BY <1>3 DEF Webhook, IInv, TablesOK
  <2>2. ASSUME NEW phase \in {"dirty", "visit"}, NEW new \in Row,
               new.status # "none", new.started = order[o].started, new.ended = order[o].ended,
               phase = "dirty" /\ charge[c] = "successful" =>
                 order[o].ended # 0 \/ counted[o] > 0,
               Enter(r, delivery(phase, new))
        PROVE  IInv'
    <3>1. delivery(phase, new) \in Session
      BY <1>0, <2>1 DEF Loaded, Session, StatusOf, Endpoints
    <3>2. LoadedOK(delivery(phase, new)) /\ EndingOK(delivery(phase, new))
      BY <2>1, <2>2 DEF Loaded, LoadedOK, EndingOK, Exists
    <3>3. PayingOK(delivery(phase, new))
      BY <2>1, <2>2 DEF Loaded, PayingOK, StatusOf
    <3> QED
      BY <2>2, <3>1, <3>2, <3>3, EnterStep
  <2>3. CASE charge[c] = "failed" /\ Enter(r, delivery("dirty", order[o]))
    BY <1>0, <2>1, <2>2, <2>3 DEF Exists
  <2>4. CASE /\ charge[c] = "successful"
             /\ Enter(r, delivery(IF payment[c].status = "success" THEN "dirty"
                                  ELSE VisitPhase(order[o]), WithStatus(o, "paid")))
    <3>1. payment[c].status = "success" => counted[o] > 0 \/ order[o].ended # 0
      BY DEF IInv, PaymentsCounted
    <3> QED
      BY <1>0, <2>1, <2>2, <2>4, <3>1, WithStatusType DEF VisitPhase, Statuses
  <2> QED
    BY <1>3, <2>3, <2>4 DEF Webhook
<1>4. ASSUME NEW p \in Receipts, VerifyPos(r, p)
      PROVE  IInv'
  <2> DEFINE o == payment[p].order
             new == [WithStatus(o, "paid") EXCEPT !.verified = TRUE]
  <2>1. o \in Orders /\ Exists(o)
    BY <1>4 DEF VerifyPos, IInv, TablesOK
  <2>2. /\ new \in Row /\ new.status = "paid"
        /\ new.started = order[o].started /\ new.ended = order[o].ended
    BY <1>0, <2>1, WithStatusType DEF Row, Statuses
  <2> QED
    BY <1>4, <2>1, <2>2, EnterStep, LoadedIsOK DEF VerifyPos, VisitPhase, Endpoints
<1>5. CASE LogManualVisit(r)
  <2> DEFINE q == [Idle EXCEPT !.op = "visit", !.phase = "visit"]
  <2>1. q \in Session /\ LoadedOK(q) /\ EndingOK(q) /\ PayingOK(q)
    BY OrderFlowAssumption
    DEF Session, Row, NoRow, Statuses, Endpoints, Idle, LoadedOK, EndingOK, PayingOK
  <2> QED
    BY <1>5, <2>1, EnterStep DEF LogManualVisit
<1> QED
  BY <1>1, <1>2, <1>3, <1>4, <1>5

-----------------------------------------------------------------------------
(* A request goes on, or is lost *)

\* What the requirements say of the session of a given request.
LEMMA SessionFacts ==
  ASSUME IInv, NEW r \in Requests
  PROVE  /\ req[r] \in Session /\ req[r].new \in Row /\ req[r].snap \in Row
         /\ LoadedOK(req[r]) /\ EndingOK(req[r]) /\ PayingOK(req[r])
BY DEF IInv, TypeOK, SessionsOK, Session

\* The time is taken for a timestamp that the session found NULL.
LEMMA TakeStampStep ==
  ASSUME IInv, NEW r \in Requests, TakeStamp(r)
  PROVE  IInv'
<1> DEFINE q == req[r]
           now == clock + 1
           new == IF q.op = "end" THEN [q.new EXCEPT !.ended = now]
                  ELSE IF q.snap.started = 0 THEN [q.new EXCEPT !.started = now]
                  ELSE q.new
           stamped == [q EXCEPT !.phase = "dirty", !.new = new]
<1>1. /\ now \in Nat /\ now # 0 /\ clock' \in Nat
      /\ req' = [req EXCEPT ![r] = stamped]
      /\ UNCHANGED <<tables, history, charge, faults>>
  BY DEF IInv, TypeOK, TakeStamp, tables, history
<1>2. /\ new \in Row /\ new.status = q.new.status
      /\ q.new.started # 0 => new.started # 0
      /\ q.new.ended # 0 => new.ended # 0
      /\ new.ended # q.new.ended => q.op = "end"
  BY <1>1, SessionFacts DEF Row
<1> HIDE DEF new
<1>3. stamped \in Session
  BY <1>2, SessionFacts DEF Session
<1>4. LoadedOK(stamped)
  BY <1>2, SessionFacts DEF Session, LoadedOK
<1>5. EndingOK(stamped)
  BY <1>2, SessionFacts DEF Session, EndingOK, TakeStamp
<1>6. PayingOK(stamped)
  BY SessionFacts DEF Session, PayingOK, TakeStamp
<1> QED
  BY <1>1, <1>3, <1>4, <1>5, <1>6, SessionStep DEF tables, history, IInv, TypeOK

\* Adding one to a counter makes the session log a visit.
LEMMA LoadVisitsStep ==
  ASSUME IInv, NEW r \in Requests, LoadVisits(r)
  PROVE  IInv'
<1> DEFINE with(i, n) == [req[r] EXCEPT !.phase = "dirty", !.row = i, !.count = n]
<1>1. \E i \in Nat, n \in Nat : n # 0 /\ req' = [req EXCEPT ![r] = with(i, n)]
  <2> HIDE DEF with
  <2>1. visits \in Seq(Nat)
    BY DEF IInv, TypeOK
  <2>2. ASSUME NEW i \in DOMAIN visits, req' = [req EXCEPT ![r] = with(i, visits[i] + 1)]
        PROVE  <1>1
    <3>1. i \in Nat /\ visits[i] + 1 \in Nat /\ visits[i] + 1 # 0
      BY <2>1, <2>2
    <3> QED
      BY <2>2, <3>1
  <2>3. ASSUME req' = [req EXCEPT ![r] = with(0, 1)]
        PROVE  <1>1
    <3>1. 0 \in Nat /\ 1 \in Nat /\ 1 # 0
      OBVIOUS
    <3> QED
      BY <2>3, <3>1, Zenon
  <2> QED
    BY <2>2, <2>3 DEF LoadVisits, with
<1>2. PICK i \in Nat, n \in Nat : n # 0 /\ req' = [req EXCEPT ![r] = with(i, n)]
  BY <1>1
<1>3. with(i, n) \in Session
  BY SessionFacts DEF Session
<1>4. LoadedOK(with(i, n)) /\ EndingOK(with(i, n)) /\ PayingOK(with(i, n))
  BY <1>2, SessionFacts DEF Session, LoadedOK, EndingOK, PayingOK
<1> QED
  BY <1>2, <1>3, <1>4, SessionStep DEF LoadVisits, tables, history, IInv, TypeOK

\* The answer "successful" leads to a visit, unless the wash has ended.
LEMMA PostChargeStep ==
  ASSUME IInv, NEW r \in Requests, NEW c \in Charges, PostCharge(r, c)
  PROVE  IInv'
<1>1. PICK result \in {"successful", "pending", "failed"} :
        /\ charge' = [charge EXCEPT ![c] = result]
        /\ LET q == [req[r] EXCEPT !.p = c, !.settled = StatusOf(result)] IN
           req' = [req EXCEPT ![r] =
             IF result = "successful"
             THEN [q EXCEPT !.new = [q.new EXCEPT !.status = "paid"], !.phase = VisitPhase(q.snap)]
             ELSE [q EXCEPT !.phase = "dirty"]]
  BY DEF PostCharge
<1>2. charge' \in [Charges -> {"none", "pending", "successful", "failed"}]
  BY <1>1 DEF IInv, TypeOK
<1> DEFINE q == [req[r] EXCEPT !.p = c, !.settled = StatusOf(result)]
           paid == [q EXCEPT !.new = [q.new EXCEPT !.status = "paid"], !.phase = VisitPhase(q.snap)]
           refused == [q EXCEPT !.phase = "dirty"]
<1>3. paid \in Session /\ refused \in Session
  <2>1. q \in Session /\ q.new = req[r].new
    BY SessionFacts DEF Session, StatusOf
  <2>2. [q.new EXCEPT !.status = "paid"] \in Row
    BY <2>1, SessionFacts DEF Row, Statuses
  <2> HIDE DEF q
  <2> QED
    BY <2>1, <2>2 DEF Session, VisitPhase
<1>4. LoadedOK(paid) /\ EndingOK(paid) /\ PayingOK(paid)
  BY SessionFacts DEF Session, Row, LoadedOK, EndingOK, PayingOK, PostCharge, VisitPhase
<1>5. ASSUME result # "successful"
      PROVE  LoadedOK(refused) /\ EndingOK(refused) /\ PayingOK(refused)
  BY <1>5, SessionFacts DEF Session, LoadedOK, EndingOK, PayingOK, PostCharge, StatusOf
<1>6. CASE result = "successful"
  BY <1>1, <1>2, <1>3, <1>4, <1>6, SessionStep DEF PostCharge, tables, history, IInv, TypeOK
<1>7. CASE result # "successful"
  BY <1>1, <1>2, <1>3, <1>5, <1>7, SessionStep DEF PostCharge, tables, history, IInv, TypeOK
<1> QED
  BY <1>6, <1>7

\* A request that is lost leaves the tables as they were.
LEMMA LostStep ==
  ASSUME IInv, NEW r \in Requests,
         Abort(r) \/ \E c \in Charges : LoseReply(r, c)
  PROVE  IInv'
<1>1. ASSUME req' = [req EXCEPT ![r] = Idle], UNCHANGED tables, UNCHANGED history,
             UNCHANGED clock, faults' = faults + 1,
             charge' \in [Charges -> {"none", "pending", "successful", "failed"}]
      PROVE  IInv'
  <2>1. clock' \in Nat /\ faults' \in Nat
    BY <1>1 DEF IInv, TypeOK
  <2> QED
    BY <1>1, <2>1, IdleOK, SessionStep
<1>2. CASE Abort(r)
  BY <1>1, <1>2 DEF Abort, IInv, TypeOK
<1>3. ASSUME NEW c \in Charges, LoseReply(r, c)
      PROVE  IInv'
  <2>1. charge' \in [Charges -> {"none", "pending", "successful", "failed"}]
    BY <1>3 DEF LoseReply, IInv, TypeOK
  <2> QED
    BY <1>1, <1>3, <2>1 DEF LoseReply
<1> QED
  BY <1>2, <1>3

-----------------------------------------------------------------------------
(* The actions that change the tables *)

\* A step that ends the session of at most one request and keeps every order
\* existing, its timestamps and its visits, preserves what the sessions know.
LEMMA SessionsKept ==
  ASSUME IInv, NEW r \in Requests, req' \in {req, [req EXCEPT ![r] = Idle]},
         \A o \in Orders :
           /\ Exists(o) => Exists(o)'
           /\ order[o].started # 0 => order'[o].started # 0
           /\ order[o].ended # 0 => order'[o].ended # 0
           /\ counted[o] > 0 => counted'[o] > 0
  PROVE  SessionsOK'
<1> SUFFICES ASSUME NEW s \in Requests
             PROVE  (LoadedOK(req[s]) /\ EndingOK(req[s]) /\ PayingOK(req[s]))'
  BY DEF SessionsOK
<1>1. req'[s] = req[s] \/ req'[s] = Idle
  BY DEF IInv, TypeOK
<1>2. CASE req'[s] = req[s]
  BY <1>2, SessionFacts DEF LoadedOK, EndingOK, PayingOK, Session
<1>3. CASE req'[s] = Idle
  BY <1>3, OrderFlowAssumption DEF Idle, NoRow, LoadedOK, EndingOK, PayingOK
<1> QED
  BY <1>1, <1>2, <1>3

\* An UPDATE never clears a timestamp and never makes an order disappear; and
\* it sets ended_at only where started_at was set before.
LEMMA CommitOrders ==
  ASSUME IInv, NEW r \in Requests, Commit(r), NEW o \in Orders
  PROVE  /\ order'[o] \in Row
         /\ Exists(o) => Exists(o)'
         /\ ~Exists(o) => order'[o] = order[o]
         /\ order[o].started # 0 => order'[o].started # 0
         /\ order[o].ended # 0 => order'[o].ended # 0
         /\ order'[o].ended # 0 /\ order[o].ended = 0 => order[o].started # 0
<1> DEFINE q == req[r]
<1>1. order[o] \in Row
  BY DEF IInv, TypeOK
<1>2. order'[o] = IF o = q.o THEN Flush(order[o], q.snap, q.new) ELSE order[o]
  BY DEF Commit
<1>3. CASE o = q.o
  BY <1>1, <1>2, <1>3, SessionFacts, FlushType
  DEF Flush, Changed, Row, LoadedOK, EndingOK, Exists
<1>4. CASE o # q.o
  BY <1>1, <1>2, <1>4 DEF Exists
<1> QED
  BY <1>3, <1>4

\* Committing a visit leaves the counters a sequence of numbers.
LEMMA CommitVisits ==
  ASSUME IInv, NEW r \in Requests, Commit(r)
  PROVE  visits' \in Seq(Nat)
<1> DEFINE q == req[r]
<1>1. visits \in Seq(Nat) /\ q.count \in Nat /\ q.row \in Nat
  BY SessionFacts DEF IInv, TypeOK, Session
<1>2. Append(visits, q.count) \in Seq(Nat)
  BY <1>1, AppendProperties
<1>3. CASE q.row \in 1 .. Len(visits)
  BY <1>1, <1>2, <1>3, ExceptSeq DEF Commit
<1>4. CASE q.row \notin 1 .. Len(visits)
  <2>1. [visits EXCEPT ![q.row] = q.count] = visits
    BY <1>1, <1>4, LenProperties
  <2> QED
    BY <1>1, <1>2, <2>1 DEF Commit
<1> QED
  BY <1>3, <1>4

\* A commit preserves the invariant.
LEMMA CommitStep ==
  ASSUME IInv, NEW r \in Requests, Commit(r)
  PROVE  IInv'
<1> DEFINE q == req[r]
<1>1. \A o \in Orders :
        /\ counted'[o] = IF o = q.o /\ q.count # 0 THEN counted[o] + 1 ELSE counted[o]
        /\ counted[o] \in Nat /\ counted'[o] \in Nat
        /\ counted[o] > 0 => counted'[o] > 0
  BY DEF Commit, IInv, TypeOK
<1>2. \A p \in Charges \cup Receipts :
        payment'[p] = IF p = q.p THEN [order |-> q.o, status |-> q.settled] ELSE payment[p]
  BY DEF Commit
<1>3. TypeOK'
  <2>1. order' \in [Orders -> Row]
    BY CommitOrders DEF Commit
  <2>2. linked' \subseteq Orders
    BY SessionFacts DEF Commit, AddsLink, PayingOK, IInv, TypeOK
  <2>3. payment' \in [Charges \cup Receipts ->
          [order : Orders \cup {NoOrder}, status : {"none", "success", "failed"}]]
    BY SessionFacts DEF Commit, Session, IInv, TypeOK
  <2>4. counted' \in [Orders -> Nat] /\ logged' \in Nat
    BY <1>1 DEF Commit, IInv, TypeOK
  <2>5. req' \in [Requests -> Session]
    BY IdleOK DEF Commit, IInv, TypeOK
  <2> QED
    BY <2>1, <2>2, <2>3, <2>4, <2>5, CommitVisits DEF Commit, IInv, TypeOK
<1>4. TablesOK'
  <2>1. ASSUME NEW o \in Orders, ~Exists(o)'
        PROVE  order'[o].started = 0 /\ order'[o].ended = 0
    BY <2>1, CommitOrders DEF IInv, TablesOK
  <2>2. ASSUME NEW p \in Charges \cup Receipts, payment'[p].status # "none"
        PROVE  payment'[p].order \in Orders /\ order'[payment'[p].order].status # "none"
    <3>1. CASE p = q.p
      <4>1. q.o \in Orders /\ Exists(q.o) /\ payment'[p].order = q.o
        BY <1>2, <2>2, <3>1, SessionFacts DEF PayingOK, LoadedOK
      <4> QED
        BY <4>1, CommitOrders DEF Exists
    <3>2. CASE p # q.p
      <4>1. payment[p].order \in Orders /\ Exists(payment[p].order) /\ payment'[p] = payment[p]
        BY <1>2, <2>2, <3>2 DEF IInv, TablesOK
      <4> QED
        BY <4>1, CommitOrders DEF Exists
    <3> QED
      BY <3>1, <3>2
  <2> QED
    BY <2>1, <2>2 DEF TablesOK, Exists
<1>5. EndedImpliesStarted'
  BY CommitOrders DEF EndedImpliesStarted, IInv
<1>6. PaymentsCounted'
  <2> SUFFICES ASSUME NEW c \in Charges, payment'[c].status = "success"
               PROVE  \/ counted'[payment'[c].order] > 0
                      \/ order'[payment'[c].order].ended # 0
    BY DEF PaymentsCounted
  <2>1. CASE c = q.p
    <3>1. /\ q.o \in Orders /\ payment'[c].order = q.o
          /\ q.count # 0 \/ order[q.o].ended # 0 \/ counted[q.o] > 0
      BY <1>2, <2>1, SessionFacts DEF PayingOK, Commit
    <3> QED
      BY <1>1, <3>1, CommitOrders
  <2>2. CASE c # q.p
    <3>1. /\ payment[c].order \in Orders /\ payment'[c] = payment[c]
          /\ counted[payment[c].order] > 0 \/ order[payment[c].order].ended # 0
      BY <1>2, <2>2 DEF IInv, TablesOK, PaymentsCounted
    <3> QED
      BY <1>1, <3>1, CommitOrders
  <2> QED
    BY <2>1, <2>2
<1>7. SessionsOK'
  BY <1>1, CommitOrders, SessionsKept DEF Commit
<1> QED
  BY <1>3, <1>4, <1>5, <1>6, <1>7 DEF IInv

\* A new order has no timestamps, or, started by hand, the first one.
LEMMA NewOrderStep ==
  ASSUME IInv, NEW o \in Orders,
         StartManualWash(o) \/ \E r \in Requests : CreateOrder(r, o)
  PROVE  IInv'
<1>1. ASSUME NEW row \in Row, row.status # "none", row.ended = 0, ~Exists(o),
             order' = [order EXCEPT ![o] = row],
             UNCHANGED <<linked, payment, visits, charge, history, faults>>, clock' \in Nat,
             req' \in [Requests -> Session],
             \A s \in Requests : req'[s] \in {req[s], Loaded("create", "dirty", o, row)'}
      PROVE  IInv'
  <2>1. \A x \in Orders : order'[x] = IF x = o THEN row ELSE order[x]
    BY <1>1 DEF IInv, TypeOK
  <2>2. TypeOK'
    BY <1>1 DEF IInv, TypeOK, history
  <2>3. TablesOK' /\ EndedImpliesStarted' /\ PaymentsCounted'
    BY <1>1, <2>1 DEF IInv, TablesOK, EndedImpliesStarted, PaymentsCounted, Exists, history
  <2>4. SessionsOK'
    <3> SUFFICES ASSUME NEW s \in Requests
                 PROVE  (LoadedOK(req[s]) /\ EndingOK(req[s]) /\ PayingOK(req[s]))'
      BY DEF SessionsOK
    <3>1. CASE req'[s] = req[s]
      BY <1>1, <2>1, <3>1, SessionFacts DEF LoadedOK, EndingOK, PayingOK, Exists, history
    <3>2. CASE req'[s] = Loaded("create", "dirty", o, row)'
      BY <1>1, <2>1, <3>2, OrderFlowAssumption
      DEF LoadedOK, EndingOK, PayingOK, Exists, Loaded, Row
    <3> QED
      BY <1>1, <3>1, <3>2
  <2> QED
    BY <2>2, <2>3, <2>4 DEF IInv
<1>2. ASSUME NEW r \in Requests, CreateOrder(r, o)
      PROVE  IInv'
  <2> DEFINE row == [NoRow EXCEPT !.status = "pending"]
  <2>1. row \in Row /\ row.status # "none" /\ row.ended = 0
    BY DEF Row, NoRow, Statuses
  <2>2. order'[o] = row
    BY <1>2 DEF CreateOrder, IInv, TypeOK
  <2>3. Loaded("create", "dirty", o, row)' \in Session
    BY <2>1, <2>2 DEF Loaded, Session, Endpoints
  <2>4. /\ req' \in [Requests -> Session]
        /\ \A s \in Requests : req'[s] \in {req[s], Loaded("create", "dirty", o, row)'}
    BY <1>2, <2>3 DEF CreateOrder, IInv, TypeOK
  <2> QED
    BY <1>1, <1>2, <2>1, <2>4 DEF CreateOrder, IInv, TypeOK
<1>3. CASE StartManualWash(o)
  <2> DEFINE row == [NoRow EXCEPT !.status = "started", !.started = clock + 1]
  <2>1. row \in Row /\ row.status # "none" /\ row.ended = 0 /\ clock' \in Nat
    <3>1. clock + 1 \in Nat /\ clock' = clock + 1
      BY <1>3 DEF StartManualWash, IInv, TypeOK
    <3> QED
      BY <3>1 DEF Row, NoRow, Statuses
  <2>2. /\ req' \in [Requests -> Session]
        /\ \A s \in Requests : req'[s] \in {req[s], Loaded("create", "dirty", o, row)'}
    BY <1>3 DEF StartManualWash, IInv, TypeOK
  <2> QED
    BY <1>1, <1>3, <2>1, <2>2 DEF StartManualWash
<1> QED
  BY <1>2, <1>3

\* Links, receipts and the processor's book do not touch orders or sessions.
LEMMA OtherStep ==
  ASSUME IInv,
         \/ \E o \in Orders : AssignVehicle(o)
         \/ \E c \in Charges : Settle(c)
         \/ \E p \in Receipts, o \in Orders : PosSale(p, o)
  PROVE  IInv'
<1>1. UNCHANGED <<order, req, counted>>
  BY DEF AssignVehicle, Settle, PosSale, tables, history
<1>2. TypeOK'
  BY DEF AssignVehicle, Settle, PosSale, tables, history, IInv, TypeOK
<1>3. \A p \in Charges \cup Receipts :
        \/ payment'[p] = payment[p]
        \/ payment'[p].order \in Orders /\ order[payment'[p].order].status # "none"
  <2>1. ASSUME NEW x \in Receipts, NEW o \in Orders, PosSale(x, o),
               NEW p \in Charges \cup Receipts
        PROVE  \/ payment'[p] = payment[p]
               \/ payment'[p].order \in Orders /\ order[payment'[p].order].status # "none"
    BY <2>1 DEF PosSale, IInv, TypeOK, Exists
  <2>2. CASE \E o \in Orders : AssignVehicle(o)
    BY <2>2 DEF AssignVehicle
  <2>3. CASE \E c \in Charges : Settle(c)
    BY <2>3 DEF Settle, tables
  <2> QED
    BY <2>1, <2>2, <2>3
<1>4. \A c \in Charges : payment'[c] = payment[c]
  BY OrderFlowAssumption DEF AssignVehicle, Settle, PosSale, tables, IInv, TypeOK
<1>5. TablesOK'
  BY <1>1, <1>3 DEF IInv, TablesOK, Exists
<1>6. EndedImpliesStarted' /\ PaymentsCounted' /\ SessionsOK'
  BY <1>1, <1>4
  DEF IInv, EndedImpliesStarted, PaymentsCounted, SessionsOK, LoadedOK, EndingOK, PayingOK, Exists
<1> QED
  BY <1>2, <1>5, <1>6 DEF IInv

-----------------------------------------------------------------------------
(* The theorems *)

LEMMA InitIInv == Init => IInv
<1> SUFFICES ASSUME Init PROVE IInv
  OBVIOUS
<1>1. TypeOK
  BY IdleOK DEF Init, TypeOK, Row, NoRow, Statuses
<1>2. TablesOK /\ EndedImpliesStarted /\ PaymentsCounted
  BY DEF Init, TablesOK, EndedImpliesStarted, PaymentsCounted, NoRow
<1>3. SessionsOK
  BY IdleOK DEF Init, SessionsOK
<1> QED
  BY <1>1, <1>2, <1>3 DEF IInv

LEMMA NextIInv == IInv /\ [Next]_vars => IInv'
<1> SUFFICES ASSUME IInv, [Next]_vars PROVE IInv'
  OBVIOUS
<1>1. ASSUME NEW r \in Requests, Begin(r)
      PROVE  IInv'
  BY <1>1, WashEnters, PaymentEnters, NewOrderStep DEF Begin
<1>2. ASSUME NEW r \in Requests, Continue(r) \/ Abort(r)
      PROVE  IInv'
  BY <1>2, TakeStampStep, LoadVisitsStep, CommitStep, PostChargeStep, LostStep DEF Continue
<1>3. ASSUME NEW o \in Orders, StartManualWash(o)
      PROVE  IInv'
  BY <1>3, NewOrderStep
<1>4. CASE \/ \E o \in Orders : AssignVehicle(o)
           \/ \E c \in Charges : Settle(c)
           \/ \E p \in Receipts, o \in Orders : PosSale(p, o)
  BY <1>4, OtherStep
<1>5. CASE UNCHANGED vars
  BY <1>5 DEF vars, tables, history, IInv, TypeOK, TablesOK, EndedImpliesStarted,
              PaymentsCounted, SessionsOK, LoadedOK, EndingOK, PayingOK, Exists
<1> QED
  BY <1>1, <1>2, <1>3, <1>4, <1>5 DEF Next

\* The inductive invariant holds in every reachable state.
THEOREM Invariance == Spec => []IInv
BY InitIInv, NextIInv, PTL DEF Spec

\* Rows, sessions and counters keep their types (the columns of models.py).
THEOREM TypeCorrect == Spec => []TypeOK
<1>1. IInv => TypeOK
  BY DEF IInv
<1> QED
  BY <1>1, Invariance, PTL

\* However many stale sessions overlap, a wash that has ended was started
\* (end_wash checks started_at only in what it loaded).
THEOREM EndedWashesStarted == Spec => []EndedImpliesStarted
<1>1. IInv => EndedImpliesStarted
  BY DEF IInv
<1> QED
  BY <1>1, Invariance, PTL

\* A successful card payment was counted as a visit, unless its wash had
\* ended, whichever of charge and webhook stored the success.
THEOREM SuccessCounted == Spec => []PaymentsCounted
<1>1. IInv => PaymentsCounted
  BY DEF IInv
<1> QED
  BY <1>1, Invariance, PTL

-----------------------------------------------------------------------------
(* The refinement *)

\* A step that changes at most one order, and that order by one stage.
LEMMA StageStep ==
  ASSUME NEW o \in Orders,
         \A x \in Orders \ {o} : order'[x] = order[x],
         order[o].started # 0 => order'[o].started # 0,
         order[o].ended # 0 => order'[o].ended # 0,
         order'[o].ended # 0 /\ order[o].ended = 0 => order[o].started # 0
  PROVE  [Wash!Next]_Stage
<1>1. \A x \in Orders \ {o} : Stage'[x] = Stage[x]
  BY DEF Stage
<1>2. CASE Stage'[o] = Stage[o]
  <2>1. Stage' = Stage
    BY <1>1, <1>2 DEF Stage
  <2> QED
    BY <2>1
<1>3. CASE Stage[o] = "waiting" /\ Stage'[o] = "washing"
  <2>1. Wash!Begin(o)
    BY <1>1, <1>3 DEF Wash!Begin, Stage
  <2> QED
    BY <2>1 DEF Wash!Next
<1>4. CASE Stage[o] = "washing" /\ Stage'[o] = "over"
  <2>1. Wash!Finish(o)
    BY <1>1, <1>4 DEF Wash!Finish, Stage
  <2> QED
    BY <2>1 DEF Wash!Next
<1>5. \/ Stage'[o] = Stage[o]
      \/ Stage[o] = "waiting" /\ Stage'[o] = "washing"
      \/ Stage[o] = "washing" /\ Stage'[o] = "over"
  BY DEF Stage
<1> QED
  BY <1>2, <1>3, <1>4, <1>5

\* The only steps that change an order.
LEMMA OrdersChange ==
  ASSUME [Next]_vars
  PROVE  \/ UNCHANGED order
         \/ \E r \in Requests, o \in Orders : CreateOrder(r, o)
         \/ \E o \in Orders : StartManualWash(o)
         \/ \E r \in Requests : Commit(r)
<1>1. ASSUME NEW r \in Requests, Begin(r)
      PROVE  UNCHANGED order \/ \E o \in Orders : CreateOrder(r, o)
  BY <1>1 DEF Begin, StartWash, EndWash, LegacyStartWash, CompleteWash, RedeemOrder,
              ChargeOrder, VerifyPayment, Webhook, VerifyPos, LogManualVisit, Enter, tables
<1>2. ASSUME NEW r \in Requests, Continue(r) \/ Abort(r)
      PROVE  UNCHANGED order \/ Commit(r)
  BY <1>2 DEF Continue, Abort, TakeStamp, LoadVisits, PostCharge, LoseReply, tables
<1>3. ASSUME \/ \E o \in Orders : AssignVehicle(o)
             \/ \E c \in Charges : Settle(c)
             \/ \E p \in Receipts, o \in Orders : PosSale(p, o)
      PROVE  UNCHANGED order
  BY <1>3 DEF AssignVehicle, Settle, PosSale, tables
<1>4. CASE UNCHANGED vars
  BY <1>4 DEF vars, tables
<1> QED
  BY <1>1, <1>2, <1>3, <1>4 DEF Next

\* Every step of the handlers is a step of the abstract wash or a stutter.
LEMMA NextRefines == IInv /\ [Next]_vars => [Wash!Next]_Stage
<1> SUFFICES ASSUME IInv, [Next]_vars PROVE [Wash!Next]_Stage
  OBVIOUS
<1>1. CASE UNCHANGED order
  BY <1>1 DEF Stage
<1>2. ASSUME NEW r \in Requests, NEW o \in Orders, CreateOrder(r, o)
      PROVE  [Wash!Next]_Stage
  <2>1. ~Exists(o) /\ order' = [order EXCEPT ![o] = [NoRow EXCEPT !.status = "pending"]]
    BY <1>2 DEF CreateOrder
  <2>2. order[o].started = 0 /\ order[o].ended = 0 /\ order'[o].ended = 0
    BY <2>1 DEF IInv, TablesOK, TypeOK, NoRow
  <2> QED
    BY <2>1, <2>2, StageStep DEF IInv, TypeOK
<1>3. ASSUME NEW o \in Orders, StartManualWash(o)
      PROVE  [Wash!Next]_Stage
  <2> DEFINE row == [NoRow EXCEPT !.status = "started", !.started = clock + 1]
  <2>1. ~Exists(o) /\ order' = [order EXCEPT ![o] = row] /\ row.ended = 0
    BY <1>3 DEF StartManualWash, NoRow
  <2> HIDE DEF row
  <2>2. order[o].started = 0 /\ order[o].ended = 0 /\ order'[o].ended = 0
    BY <2>1 DEF IInv, TablesOK, TypeOK
  <2> QED
    BY <2>1, <2>2, StageStep DEF IInv, TypeOK
<1>4. ASSUME NEW r \in Requests, Commit(r)
      PROVE  [Wash!Next]_Stage
  <2>1. CASE req[r].o \in Orders
    <3>1. \A x \in Orders \ {req[r].o} : order'[x] = order[x]
      BY <1>4 DEF Commit
    <3> QED
      BY <1>4, <2>1, <3>1, CommitOrders, StageStep
  <2>2. CASE req[r].o \notin Orders
    <3>1. order' = order
      BY <1>4, <2>2 DEF Commit, IInv, TypeOK
    <3> QED
      BY <3>1 DEF Stage
  <2> QED
    BY <2>1, <2>2
<1>5. \/ UNCHANGED order
      \/ \E r \in Requests, o \in Orders : CreateOrder(r, o)
      \/ \E o \in Orders : StartManualWash(o)
      \/ \E r \in Requests : Commit(r)
  BY OrdersChange
<1> QED
  BY <1>1, <1>2, <1>3, <1>4, <1>5

\* The two timestamps of an order implement the abstract wash: waiting, under
\* way, over, each reached once (start_wash, end_wash, start_manual_wash).
THEOREM WashRefined == Spec => WashImplemented
<1>1. Init => Wash!Init
  BY DEF Init, Wash!Init, Stage, NoRow
<1> QED
  BY <1>1, Invariance, NextRefines, PTL DEF Spec, WashImplemented, Wash!Spec

-----------------------------------------------------------------------------
(* Links and deliveries *)

\* Only start-wash sets started_at on an order that it has loaded.
StampOK(q) ==
  /\ q.phase = "stamp" => q.op \in {"start", "end"} /\ q.new.started = q.snap.started
  /\ q.new.started # q.snap.started => q.op = "start"

StampsOK == \A r \in Requests : StampOK(req[r])

\* A session with a charge of its own is the charge handler that made it, whose
\* row is still to be written, or a webhook that found the row there.
ChargingOK(q) ==
  /\ q.op = "webhook" => q.p \in Charges /\ payment[q.p].status # "none"
  /\ q.p \in Charges => q.settled # "none" /\ charge[q.p] # "none"
  /\ q.p \in Charges /\ q.op # "webhook" => payment[q.p].status = "none"
  /\ q.phase \in {"stamp", "post"} => q.op # "webhook"
  /\ q.op = "webhook" /\ (q.phase = "visit" \/ q.count # 0) => payment[q.p].status # "success"

\* No two charge handlers hold one charge, no two webhooks are in flight, and
\* a payment row stands for a charge that the processor has booked.
BookOK ==
  /\ \A r \in Requests : ChargingOK(req[r])
  /\ \A r, s \in Requests :
       req[r].p \in Charges /\ req[r].p = req[s].p
         /\ (req[r].op = "webhook" <=> req[s].op = "webhook") => r = s
  /\ \A r, s \in Requests : req[r].op = "webhook" /\ req[s].op = "webhook" => r = s
  /\ \A c \in Charges : payment[c].status # "none" => charge[c] # "none"

DInv == IInv /\ StampsOK /\ BookOK

\* The session of a free slot has taken no time and holds no charge.
LEMMA IdleBookOK == StampOK(Idle) /\ ChargingOK(Idle) /\ Idle.op # "webhook" /\ Idle.p \notin Charges
BY OrderFlowAssumption DEF Idle, StampOK, ChargingOK

\* A session that holds no charge, or the one it held before, replaces another
\* while the tables stay as they are.
LEMMA BookStep ==
  ASSUME DInv, NEW r \in Requests, NEW q, StampOK(q), ChargingOK(q),
         req' = [req EXCEPT ![r] = q], UNCHANGED <<payment, charge>>,
         \/ q.op # "webhook" /\ q.p \notin Charges
         \/ q.op = req[r].op /\ q.p = req[r].p
         \/ q.op = "webhook" /\ EventLoopFree
  PROVE  StampsOK' /\ BookOK'
<1>1. \A s \in Requests : req'[s] = IF s = r THEN q ELSE req[s]
  BY DEF DInv, IInv, TypeOK
<1>2. StampsOK'
  BY <1>1 DEF DInv, StampsOK, StampOK
<1>3. \A s \in Requests : ChargingOK(req[s])'
  BY <1>1 DEF DInv, BookOK, ChargingOK
<1>4. \A c \in Charges : payment'[c].status # "none" => charge'[c] # "none"
  BY DEF DInv, BookOK
<1>5. \A s, t \in Requests : req'[s].op = "webhook" /\ req'[t].op = "webhook" => s = t
  BY <1>1 DEF DInv, BookOK, EventLoopFree
<1>6. ASSUME NEW s \in Requests, NEW t \in Requests, req'[s].p \in Charges,
             req'[s].p = req'[t].p, req'[s].op = "webhook" <=> req'[t].op = "webhook"
      PROVE  s = t
  BY <1>1, <1>5, <1>6 DEF DInv, BookOK
<1> QED
  BY <1>2, <1>3, <1>4, <1>5, <1>6 DEF BookOK

\* The handlers that load an order and hold no charge yet.
LEMMA LoadedBookStep ==
  ASSUME DInv, NEW r \in Requests, NEW o \in Orders, NEW op \in Endpoints, op # "webhook",
         NEW phase \in {"post", "stamp", "visit", "dirty"}, NEW new \in Row,
         new.started = order[o].started, phase = "stamp" => op \in {"start", "end"},
         Enter(r, Loaded(op, phase, o, new))
  PROVE  StampsOK' /\ BookOK'
<1> DEFINE q == Loaded(op, phase, o, new)
<1>1. StampOK(q) /\ ChargingOK(q) /\ q.op # "webhook" /\ q.p \notin Charges
  BY OrderFlowAssumption DEF Loaded, StampOK, ChargingOK
<1>2. req' = [req EXCEPT ![r] = q] /\ UNCHANGED <<payment, charge>>
  BY DEF Enter, tables
<1> HIDE DEF q
<1> QED
  BY <1>1, <1>2, BookStep

\* A request enters a handler.
LEMMA BeginBook ==
  ASSUME DInv, NEW r \in Requests, Begin(r)
  PROVE  StampsOK' /\ BookOK'
<1>0. TypeOK /\ \A o \in Orders : order[o] \in Row
  BY DEF DInv, IInv, TypeOK
<1>1. ASSUME NEW o \in Orders, CreateOrder(r, o)
      PROVE  StampsOK' /\ BookOK'
  <2> DEFINE row == [NoRow EXCEPT !.status = "pending"]
             q == Loaded("create", "dirty", o, row)'
  <2>1. order'[o] = row /\ UNCHANGED <<payment, charge>>
    BY <1>0, <1>1 DEF CreateOrder, TypeOK
  <2>2. CASE UNCHANGED req
    BY <2>1, <2>2 DEF DInv, StampsOK, StampOK, BookOK, ChargingOK
  <2>3. CASE req' = [req EXCEPT ![r] = q]
    <3>1. StampOK(q) /\ ChargingOK(q) /\ q.op # "webhook" /\ q.p \notin Charges
      BY <2>1, OrderFlowAssumption DEF Loaded, StampOK, ChargingOK
    <3> HIDE DEF q
    <3> QED
      BY <2>1, <2>3, <3>1, BookStep
  <2> QED
    BY <1>1, <2>2, <2>3 DEF CreateOrder
<1>2. ASSUME NEW o \in Orders,
             \/ StartWash(r, o) \/ EndWash(r, o) \/ LegacyStartWash(r, o)
             \/ CompleteWash(r, o) \/ RedeemOrder(r, o)
      PROVE  StampsOK' /\ BookOK'
  <2>1. \A status \in Statuses :
         WithStatus(o, status) \in Row /\ WithStatus(o, status).started = order[o].started
    BY <1>0, WithStatusType
  <2>2. CASE StartWash(r, o)
    BY <2>1, <2>2, LoadedBookStep DEF StartWash, Statuses, Endpoints
  <2>3. CASE EndWash(r, o)
    BY <2>1, <2>3, LoadedBookStep DEF EndWash, Statuses, Endpoints
  <2>4. CASE LegacyStartWash(r, o)
    BY <2>1, <2>4, LoadedBookStep DEF LegacyStartWash, Statuses, Endpoints
  <2>5. CASE CompleteWash(r, o)
    BY <2>1, <2>5, LoadedBookStep DEF CompleteWash, Statuses, Endpoints
  <2>6. CASE RedeemOrder(r, o)
    BY <2>1, <2>6, LoadedBookStep DEF RedeemOrder, Statuses, Endpoints
  <2> QED
    BY <1>2, <2>2, <2>3, <2>4, <2>5, <2>6
<1>3. ASSUME NEW o \in Orders, ChargeOrder(r, o) \/ VerifyPayment(r, o)
      PROVE  StampsOK' /\ BookOK'
  <2> DEFINE new == [order[o] EXCEPT !.verified = TRUE]
  <2>1. new \in Row /\ new.started = order[o].started
    BY <1>0 DEF Row
  <2>2. CASE ChargeOrder(r, o)
    BY <1>0, <2>2, LoadedBookStep DEF ChargeOrder, Endpoints
  <2>3. CASE VerifyPayment(r, o)
    BY <2>1, <2>3, LoadedBookStep DEF VerifyPayment, Endpoints
  <2> QED
    BY <1>3, <2>2, <2>3
<1>4. ASSUME NEW c \in Charges, Webhook(r, c)
      PROVE  StampsOK' /\ BookOK'
  <2> DEFINE o == payment[c].order
             delivery(phase, new) == [Loaded("webhook", phase, o, new) EXCEPT
                                        !.p = c, !.settled = StatusOf(charge[c])]
  <2>1. o \in Orders /\ payment[c].status # "none" /\ EventLoopFree /\ charge[c] # "none"
    BY <1>4 DEF Webhook, DInv, IInv, TablesOK, BookOK
  <2>2. ASSUME NEW phase \in {"dirty", "visit"}, NEW new, new.started = order[o].started,
               phase = "visit" => payment[c].status # "success",
               Enter(r, delivery(phase, new))
        PROVE  StampsOK' /\ BookOK'
    <3> DEFINE q == delivery(phase, new)
    <3>1. StampOK(q) /\ ChargingOK(q) /\ q.op = "webhook"
      BY <2>1, <2>2 DEF Loaded, StampOK, ChargingOK, StatusOf
    <3>2. req' = [req EXCEPT ![r] = q] /\ UNCHANGED <<payment, charge>>
      BY <2>2 DEF Enter, tables
    <3> HIDE DEF q
    <3> QED
      BY <2>1, <3>1, <3>2, BookStep
  <2>3. CASE charge[c] = "failed" /\ Enter(r, delivery("dirty", order[o]))
    BY <2>2, <2>3
  <2>4. CASE /\ charge[c] = "successful"
             /\ Enter(r, delivery(IF payment[c].status = "success" THEN "dirty"
                                  ELSE VisitPhase(order[o]), WithStatus(o, "paid")))
    BY <1>0, <2>1, <2>2, <2>4, WithStatusType DEF VisitPhase, Statuses
  <2> QED
    BY <1>4, <2>3, <2>4 DEF Webhook
<1>5. ASSUME NEW p \in Receipts, VerifyPos(r, p)
      PROVE  StampsOK' /\ BookOK'
  <2> DEFINE o == payment[p].order
             new == [WithStatus(o, "paid") EXCEPT !.verified = TRUE]
  <2>1. o \in Orders
    BY <1>5 DEF VerifyPos, DInv, IInv, TablesOK
  <2>2. new \in Row /\ new.started = order[o].started
    BY <1>0, <2>1, WithStatusType DEF Row, Statuses
  <2> QED
    BY <1>5, <2>1, <2>2, LoadedBookStep DEF VerifyPos, VisitPhase, Endpoints
<1>6. CASE LogManualVisit(r)
  <2> DEFINE q == [Idle EXCEPT !.op = "visit", !.phase = "visit"]
  <2>1. StampOK(q) /\ ChargingOK(q) /\ q.op # "webhook" /\ q.p \notin Charges
    BY OrderFlowAssumption DEF Idle, StampOK, ChargingOK
  <2>2. req' = [req EXCEPT ![r] = q] /\ UNCHANGED <<payment, charge>>
    BY <1>6 DEF LogManualVisit, Enter, tables
  <2> HIDE DEF q
  <2> QED
    BY <2>1, <2>2, BookStep
<1> QED
  BY <1>1, <1>2, <1>3, <1>4, <1>5, <1>6 DEF Begin

\* A request goes on: the charge handler takes a fresh charge for its own.
LEMMA ContinueBook ==
  ASSUME DInv, NEW r \in Requests,
         \/ TakeStamp(r) \/ LoadVisits(r) \/ Abort(r)
         \/ \E c \in Charges : PostCharge(r, c) \/ LoseReply(r, c)
  PROVE  StampsOK' /\ BookOK'
<1>0. /\ StampOK(req[r]) /\ ChargingOK(req[r])
      /\ req[r] \in Session /\ req[r].new \in Row /\ req[r].snap \in Row
  BY SessionFacts DEF DInv, StampsOK, BookOK
<1>1. CASE TakeStamp(r)
  <2> DEFINE now == clock + 1
             new == IF req[r].op = "end" THEN [req[r].new EXCEPT !.ended = now]
                    ELSE IF req[r].snap.started = 0 THEN [req[r].new EXCEPT !.started = now]
                    ELSE req[r].new
             q == [req[r] EXCEPT !.phase = "dirty", !.new = new]
  <2>1. req[r].op = "end" => new.started = req[r].new.started
    BY <1>0 DEF Row
  <2> HIDE DEF new
  <2>2. StampOK(q) /\ ChargingOK(q) /\ q.op = req[r].op /\ q.p = req[r].p
    BY <1>0, <1>1, <2>1 DEF Session, StampOK, ChargingOK, TakeStamp
  <2>3. req' = [req EXCEPT ![r] = q] /\ UNCHANGED <<payment, charge>>
    BY <1>1 DEF TakeStamp, tables, new
  <2> HIDE DEF q
  <2> QED
    BY <2>2, <2>3, BookStep
<1>2. CASE LoadVisits(r)
  <2>1. PICK i, n : req' = [req EXCEPT ![r] = [req[r] EXCEPT !.phase = "dirty", !.row = i, !.count = n]]
    BY <1>2 DEF LoadVisits
  <2> DEFINE q == [req[r] EXCEPT !.phase = "dirty", !.row = i, !.count = n]
  <2>2. StampOK(q) /\ ChargingOK(q) /\ q.op = req[r].op /\ q.p = req[r].p
    BY <1>0, <1>2 DEF Session, StampOK, ChargingOK, LoadVisits
  <2>3. req' = [req EXCEPT ![r] = q] /\ UNCHANGED <<payment, charge>>
    BY <1>2, <2>1 DEF LoadVisits, tables
  <2> HIDE DEF q
  <2> QED
    BY <2>2, <2>3, BookStep
<1>3. CASE Abort(r)
  BY <1>3, IdleBookOK, BookStep DEF Abort, tables
<1>4. ASSUME NEW c \in Charges, NEW result \in {"successful", "pending", "failed"},
             Fresh(c), charge' = [charge EXCEPT ![c] = result], UNCHANGED payment
      PROVE  /\ \A x \in Charges : charge[x] # "none" => charge'[x] # "none"
             /\ charge'[c] # "none" /\ payment[c].status = "none"
             /\ \A s \in Requests : req[s].p # c
  <2>1. charge \in [Charges -> {"none", "pending", "successful", "failed"}]
    BY DEF DInv, IInv, TypeOK
  <2> QED
    BY <1>4, <2>1 DEF DInv, BookOK, ChargingOK, Fresh
<1>5. ASSUME NEW c \in Charges, PostCharge(r, c)
      PROVE  StampsOK' /\ BookOK'
  <2>1. PICK result \in {"successful", "pending", "failed"} :
          /\ charge' = [charge EXCEPT ![c] = result]
          /\ LET q == [req[r] EXCEPT !.p = c, !.settled = StatusOf(result)] IN
             req' = [req EXCEPT ![r] =
               IF result = "successful"
               THEN [q EXCEPT !.new = [q.new EXCEPT !.status = "paid"], !.phase = VisitPhase(q.snap)]
               ELSE [q EXCEPT !.phase = "dirty"]]
    BY <1>5 DEF PostCharge
  <2>2. /\ \A x \in Charges : charge[x] # "none" => charge'[x] # "none"
        /\ charge'[c] # "none" /\ payment[c].status = "none"
        /\ \A s \in Requests : req[s].p # c
        /\ UNCHANGED payment /\ req[r].phase = "post"
    BY <1>4, <1>5, <2>1 DEF PostCharge, tables
  <2>3. req'[r] \in Session /\ \A s \in Requests : s # r => req'[s] = req[s]
    BY <1>5, PostChargeStep, <2>1 DEF DInv, IInv, TypeOK
  <2>4. /\ req'[r].op = req[r].op /\ req'[r].op # "webhook" /\ req'[r].p = c
        /\ req'[r].settled # "none"
        /\ req'[r].phase \in {"dirty", "visit"}
        /\ req'[r].snap = req[r].snap /\ req'[r].new.started = req[r].new.started
    BY <1>0, <2>1, <2>2 DEF Session, Row, StatusOf, VisitPhase, ChargingOK, DInv, IInv, TypeOK
  <2>5. StampsOK'
    BY <1>0, <2>3, <2>4 DEF DInv, StampsOK, StampOK
  <2>6. \A s \in Requests : ChargingOK(req[s])'
    BY <2>2, <2>3, <2>4 DEF DInv, BookOK, ChargingOK
  <2>7. \A x \in Charges : payment'[x].status # "none" => charge'[x] # "none"
    BY <2>2 DEF DInv, BookOK
  <2>8. \A s, t \in Requests :
          /\ req'[s].op = "webhook" /\ req'[t].op = "webhook" => s = t
          /\ req'[s].p \in Charges /\ req'[s].p = req'[t].p
               /\ (req'[s].op = "webhook" <=> req'[t].op = "webhook") => s = t
    BY <2>2, <2>3, <2>4 DEF DInv, BookOK
  <2> QED
    BY <2>5, <2>6, <2>7, <2>8 DEF BookOK
<1>6. ASSUME NEW c \in Charges, LoseReply(r, c)
      PROVE  StampsOK' /\ BookOK'
  <2>1. PICK result \in {"successful", "pending", "failed"} : charge' = [charge EXCEPT ![c] = result]
    BY <1>6 DEF LoseReply
  <2>2. /\ \A x \in Charges : charge[x] # "none" => charge'[x] # "none"
        /\ UNCHANGED payment
        /\ \A s \in Requests : req'[s] = IF s = r THEN Idle ELSE req[s]
    BY <1>4, <1>6, <2>1 DEF LoseReply, tables, DInv, IInv, TypeOK
  <2>3. StampsOK'
    BY <2>2, IdleBookOK DEF DInv, StampsOK, StampOK
  <2>4. \A s \in Requests : ChargingOK(req[s])'
    BY <2>2, IdleBookOK DEF DInv, BookOK, ChargingOK
  <2> QED
    BY <2>2, <2>3, <2>4, IdleBookOK DEF DInv, BookOK
<1> QED
  BY <1>1, <1>2, <1>3, <1>5, <1>6

\* A commit writes the row of the charge its session held, which then holds
\* none: the others' charges have their rows, or still none, as before.
LEMMA CommitBook ==
  ASSUME DInv, NEW r \in Requests, Commit(r)
  PROVE  StampsOK' /\ BookOK'
<1> DEFINE q == req[r]
<1>1. /\ \A s \in Requests : req'[s] = IF s = r THEN Idle ELSE req[s]
      /\ \A c \in Charges : payment'[c] = IF c = q.p THEN [order |-> q.o, status |-> q.settled]
                                          ELSE payment[c]
      /\ UNCHANGED charge
  BY DEF Commit, DInv, IInv, TypeOK
<1>2. /\ \A s \in Requests : ChargingOK(req[s])
      /\ \A s, t \in Requests :
           /\ req[s].op = "webhook" /\ req[t].op = "webhook" => s = t
           /\ req[s].p \in Charges /\ req[s].p = req[t].p
                /\ (req[s].op = "webhook" <=> req[t].op = "webhook") => s = t
      /\ \A c \in Charges : payment[c].status # "none" => charge[c] # "none"
  BY DEF DInv, BookOK
<1>3. StampsOK'
  BY <1>1, IdleBookOK DEF DInv, StampsOK, StampOK
<1>4. ASSUME NEW s \in Requests
      PROVE  ChargingOK(req[s])'
  <2>1. CASE s = r
    BY <1>1, <2>1, IdleBookOK DEF ChargingOK
  <2>2. CASE s # r /\ req[s].p = q.p /\ q.p \in Charges
    BY <1>1, <1>2, <2>2 DEF ChargingOK
  <2>3. CASE s # r /\ ~(req[s].p = q.p /\ q.p \in Charges)
    <3>1. req'[s] = req[s] /\ (req[s].p \in Charges => payment'[req[s].p] = payment[req[s].p])
      BY <1>1, <2>3
    <3> QED
      BY <1>1, <1>2, <3>1 DEF ChargingOK
  <2> QED
    BY <2>1, <2>2, <2>3
<1>5. \A c \in Charges : payment'[c].status # "none" => charge'[c] # "none"
  BY <1>1, <1>2 DEF ChargingOK
<1>6. \A s, t \in Requests :
        /\ req'[s].op = "webhook" /\ req'[t].op = "webhook" => s = t
        /\ req'[s].p \in Charges /\ req'[s].p = req'[t].p
             /\ (req'[s].op = "webhook" <=> req'[t].op = "webhook") => s = t
  BY <1>1, <1>2, IdleBookOK
<1> QED
  BY <1>3, <1>4, <1>5, <1>6 DEF BookOK

\* Staff, tills and the processor touch no session and no charge's row.
LEMMA OtherBook ==
  ASSUME DInv,
         \/ \E o \in Orders : StartManualWash(o) \/ AssignVehicle(o)
         \/ \E c \in Charges : Settle(c)
         \/ \E p \in Receipts, o \in Orders : PosSale(p, o)
         \/ UNCHANGED vars
  PROVE  StampsOK' /\ BookOK'
<1>1. UNCHANGED req
  BY DEF StartManualWash, AssignVehicle, Settle, PosSale, vars
<1>2. \A c \in Charges : payment'[c] = payment[c]
  BY OrderFlowAssumption
  DEF StartManualWash, AssignVehicle, Settle, PosSale, vars, tables, DInv, IInv, TypeOK
<1>3. \A c \in Charges : charge[c] # "none" => charge'[c] # "none"
  BY DEF StartManualWash, AssignVehicle, Settle, PosSale, vars, tables, DInv, IInv, TypeOK
<1> QED
  BY <1>1, <1>2, <1>3 DEF DInv, StampsOK, StampOK, BookOK, ChargingOK

\* The strengthened invariant holds in every reachable state.
LEMMA DInvariance == Spec => []DInv
<1>1. Init => DInv
  <2> SUFFICES ASSUME Init PROVE DInv
    OBVIOUS
  <2>1. \A r \in Requests : req[r] = Idle
    BY DEF Init
  <2>2. \A c \in Charges : payment[c].status = "none"
    BY DEF Init
  <2> QED
    BY <2>1, <2>2, InitIInv, IdleBookOK DEF DInv, StampsOK, BookOK
<1>2. DInv /\ [Next]_vars => DInv'
  <2> SUFFICES ASSUME DInv, [Next]_vars PROVE DInv'
    OBVIOUS
  <2>1. IInv'
    BY NextIInv DEF DInv
  <2>2. StampsOK' /\ BookOK'
    BY BeginBook, ContinueBook, CommitBook, OtherBook DEF Next, Continue
  <2> QED
    BY <2>1, <2>2 DEF DInv
<1> QED
  BY <1>1, <1>2, PTL DEF Spec

\* However stale the session of start-wash, the commit in which a wash begins
\* links its vehicle.
THEOREM StartedWashesLinked == Spec => StartLinksVehicle
<1>1. DInv /\ [Next]_vars => [\A o \in Orders :
        order[o].status # "none" /\ order[o].started = 0 /\ order'[o].started # 0
        => o \in linked']_<<order, linked>>
  <2> SUFFICES ASSUME DInv, [Next]_vars, NEW o \in Orders, order[o].status # "none",
                      order[o].started = 0, order'[o].started # 0
               PROVE  o \in linked'
    OBVIOUS
  <2>1. order' # order
    BY DEF DInv, IInv, TypeOK
  <2>2. \/ \E r \in Requests, x \in Orders : CreateOrder(r, x)
        \/ \E x \in Orders : StartManualWash(x)
        \/ \E r \in Requests : Commit(r)
    BY <2>1, OrdersChange
  <2>3. ASSUME NEW r \in Requests, Commit(r)
        PROVE  o \in linked'
    <3>1. o = req[r].o /\ req[r].new.started # req[r].snap.started
      BY <2>3 DEF Commit, Flush, Changed
    <3>2. req[r].op = "start"
      BY <3>1 DEF DInv, StampsOK, StampOK
    <3> QED
      BY <2>3, <3>1, <3>2 DEF Commit, AddsLink
  <2>4. ASSUME NEW x \in Orders, ~Exists(x), NEW row, order' = [order EXCEPT ![x] = row]
        PROVE  FALSE
    BY <2>4 DEF Exists, DInv, IInv, TypeOK
  <2> QED
    BY <2>2, <2>3, <2>4 DEF CreateOrder, StartManualWash
<1> QED
  BY <1>1, DInvariance, PTL DEF Spec, StartLinksVehicle

\* Only a commit changes the visit counter or the number of visits logged.
LEMMA VisitsChange ==
  ASSUME [Next]_vars
  PROVE  UNCHANGED <<visits, logged>> \/ \E r \in Requests : Commit(r)
<1>1. ASSUME NEW r \in Requests, Begin(r)
      PROVE  UNCHANGED <<visits, logged>>
  BY <1>1 DEF Begin, CreateOrder, StartWash, EndWash, LegacyStartWash, CompleteWash, RedeemOrder,
              ChargeOrder, VerifyPayment, Webhook, VerifyPos, LogManualVisit, Enter, tables, history
<1>2. ASSUME NEW r \in Requests, Continue(r) \/ Abort(r)
      PROVE  UNCHANGED <<visits, logged>> \/ Commit(r)
  BY <1>2 DEF Continue, Abort, TakeStamp, LoadVisits, PostCharge, LoseReply, tables, history
<1>3. ASSUME \/ \E o \in Orders : StartManualWash(o) \/ AssignVehicle(o)
             \/ \E c \in Charges : Settle(c)
             \/ \E p \in Receipts, o \in Orders : PosSale(p, o)
             \/ UNCHANGED vars
      PROVE  UNCHANGED <<visits, logged>>
  BY <1>3 DEF StartManualWash, AssignVehicle, Settle, PosSale, vars, tables, history
<1> QED
  BY <1>1, <1>2, <1>3 DEF Next

\* A delivery of a webhook whose success was stored before logs no visit: what
\* it read of the payment is still true when it commits.
THEOREM DuplicatesAddNothing == Spec => DuplicateSuccessAddsNoVisit
<1>1. DInv /\ [Next]_vars => [\A r \in Requests :
        /\ req[r].op = "webhook" /\ req'[r] = Idle
        /\ payment[req[r].p].status = "success"
        => logged' = logged]_vars
  <2> SUFFICES ASSUME DInv, Next, NEW r \in Requests, req[r].op = "webhook", req'[r] = Idle,
                      payment[req[r].p].status = "success"
               PROVE  logged' = logged
    OBVIOUS
  <2>1. UNCHANGED logged \/ \E s \in Requests : Commit(s)
    BY VisitsChange
  <2>2. ASSUME NEW s \in Requests, Commit(s)
        PROVE  logged' = logged
    <3>1. s = r
      BY <2>2, IdleBookOK DEF Commit, DInv, IInv, TypeOK
    <3>2. req[r].count = 0
      BY DEF DInv, BookOK, ChargingOK
    <3> QED
      BY <2>2, <3>1, <3>2 DEF Commit
  <2> QED
    BY <2>1, <2>2
<1> QED
  BY <1>1, DInvariance, PTL DEF Spec, DuplicateSuccessAddsNoVisit

-----------------------------------------------------------------------------
(* One handler at a time: the timestamps *)

OneByOne == \A r, s \in Requests : r = s

\* Timestamps are taken from the clock, and the end after the start.
TimesOK == \A o \in Orders :
  /\ order[o].started <= clock /\ order[o].ended <= clock
  /\ order[o].ended # 0 => order[o].started < order[o].ended

\* What a session has loaded is still in the table, and a timestamp that it
\* changes was NULL there.
CurrentIn(rows, now, q) ==
  /\ q.phase = "idle" => q.o \notin Orders
  /\ q.o \in Orders =>
       /\ q.snap = rows[q.o]
       /\ q.phase = "stamp" =>
            q.new.started = q.snap.started /\ q.new.ended = q.snap.ended /\ q.snap.ended = 0
       /\ q.new.started # q.snap.started =>
            q.snap.started = 0 /\ q.new.started <= now /\ q.new.ended = q.snap.ended
       /\ q.new.ended # q.snap.ended =>
            q.snap.ended = 0 /\ q.snap.started < q.new.ended /\ q.new.ended <= now

SInv == IInv /\ TimesOK /\ \A r \in Requests : CurrentIn(order, clock, req[r])

\* The one session is replaced while the orders stay as they are.
LEMMA TimesStep ==
  ASSUME SInv, OneByOne, NEW r \in Requests, NEW q, req' = [req EXCEPT ![r] = q],
         UNCHANGED order, clock' \in Nat, clock <= clock', CurrentIn(order', clock', q)
  PROVE  TimesOK' /\ \A s \in Requests : CurrentIn(order', clock', req'[s])
<1>1. \A s \in Requests : req'[s] = q
  BY DEF OneByOne, SInv, IInv, TypeOK
<1>2. \A o \in Orders : order[o] \in Row
  BY DEF SInv, IInv, TypeOK
<1>3. TimesOK'
  BY <1>2 DEF SInv, IInv, TypeOK, TimesOK, Row
<1>4. \A s \in Requests : CurrentIn(order', clock', req'[s])
  BY <1>1 DEF CurrentIn
<1> QED
  BY <1>3, <1>4

\* A handler loads an order and leaves its timestamps alone so far.
LEMMA LoadedTimes ==
  ASSUME SInv, OneByOne, NEW r \in Requests, NEW q, Enter(r, q), q.phase # "idle",
         q.o \in Orders => /\ q.snap = order[q.o]
                           /\ q.new.started = q.snap.started /\ q.new.ended = q.snap.ended
                           /\ q.phase = "stamp" => q.snap.ended = 0
  PROVE  TimesOK' /\ \A s \in Requests : CurrentIn(order', clock', req'[s])
<1>1. UNCHANGED <<order, clock>> /\ req' = [req EXCEPT ![r] = q]
  BY DEF Enter, tables
<1>2. CurrentIn(order', clock', q)
  BY <1>1 DEF CurrentIn
<1>3. clock' \in Nat /\ clock <= clock'
  BY <1>1 DEF SInv, IInv, TypeOK
<1> QED
  BY <1>1, <1>2, <1>3, TimesStep

\* A request enters a handler.
LEMMA BeginTimes ==
  ASSUME SInv, OneByOne, NEW r \in Requests, Begin(r)
  PROVE  TimesOK' /\ \A s \in Requests : CurrentIn(order', clock', req'[s])
<1>0. TypeOK /\ \A o \in Orders : order[o] \in Row
  BY DEF SInv, IInv, TypeOK
<1>1. ASSUME NEW o \in Orders, CreateOrder(r, o)
      PROVE  TimesOK' /\ \A s \in Requests : CurrentIn(order', clock', req'[s])
  <2> DEFINE row == [NoRow EXCEPT !.status = "pending"]
             q == Loaded("create", "dirty", o, row)'
  <2>1. /\ order' = [order EXCEPT ![o] = row] /\ row.started = 0 /\ row.ended = 0
        /\ UNCHANGED clock /\ req[r].o \notin Orders
    BY <1>1 DEF CreateOrder, NoRow, SInv, CurrentIn
  <2> HIDE DEF row
  <2>2. TimesOK'
    BY <1>0, <2>1 DEF SInv, IInv, TypeOK, TimesOK
  <2>4. CurrentIn(order', clock', req'[r])
    <3>1. CASE UNCHANGED req
      BY <2>1, <3>1 DEF SInv, CurrentIn
    <3>2. CASE req' = [req EXCEPT ![r] = q]
      <4>1. req'[r] = q
        BY <1>0, <3>2 DEF TypeOK
      <4>2. order'[o] = row
        BY <1>0, <2>1 DEF TypeOK
      <4>3. q.phase = "dirty" /\ q.o = o /\ q.snap = order'[o] /\ q.new = row
        BY DEF Loaded, row
      <4> QED
        BY <4>1, <4>2, <4>3 DEF CurrentIn
    <3> QED
      BY <1>1, <3>1, <3>2 DEF CreateOrder, row
  <2>5. ASSUME NEW s \in Requests
        PROVE  CurrentIn(order', clock', req'[s])
    <3>1. s = r
      BY DEF OneByOne
    <3> QED
      BY <2>4, <3>1
  <2> QED
    BY <2>2, <2>5
<1>2. ASSUME NEW o \in Orders,
             \/ StartWash(r, o) \/ EndWash(r, o) \/ LegacyStartWash(r, o)
             \/ CompleteWash(r, o) \/ RedeemOrder(r, o)
      PROVE  TimesOK' /\ \A s \in Requests : CurrentIn(order', clock', req'[s])
  <2>1. \A status \in Statuses :
          /\ WithStatus(o, status).started = order[o].started
          /\ WithStatus(o, status).ended = order[o].ended
    BY <1>0, WithStatusType
  <2>2. \A op, phase, new :
          /\ Loaded(op, phase, o, new).phase = phase /\ Loaded(op, phase, o, new).o = o
          /\ Loaded(op, phase, o, new).snap = order[o] /\ Loaded(op, phase, o, new).new = new
    BY DEF Loaded
  <2>3. CASE StartWash(r, o)
    BY <2>1, <2>2, <2>3, LoadedTimes DEF StartWash, Statuses
  <2>4. CASE EndWash(r, o)
    BY <2>1, <2>2, <2>4, LoadedTimes DEF EndWash, Statuses
  <2>5. CASE LegacyStartWash(r, o)
    BY <2>1, <2>2, <2>5, LoadedTimes DEF LegacyStartWash, Statuses
  <2>6. CASE CompleteWash(r, o)
    BY <2>1, <2>2, <2>6, LoadedTimes DEF CompleteWash, Statuses
  <2>7. CASE RedeemOrder(r, o)
    BY <2>1, <2>2, <2>7, LoadedTimes DEF RedeemOrder, Statuses
  <2> QED
    BY <1>2, <2>3, <2>4, <2>5, <2>6, <2>7
<1>3. ASSUME NEW o \in Orders, ChargeOrder(r, o) \/ VerifyPayment(r, o)
      PROVE  TimesOK' /\ \A s \in Requests : CurrentIn(order', clock', req'[s])
  <2> DEFINE new == [order[o] EXCEPT !.verified = TRUE]
  <2>1. new.started = order[o].started /\ new.ended = order[o].ended
    BY <1>0 DEF Row
  <2>2. CASE ChargeOrder(r, o)
    BY <2>2, LoadedTimes DEF ChargeOrder, Loaded
  <2>3. CASE VerifyPayment(r, o)
    BY <2>1, <2>3, LoadedTimes DEF VerifyPayment, Loaded
  <2> QED
    BY <1>3, <2>2, <2>3
<1>4. ASSUME NEW c \in Charges, Webhook(r, c)
      PROVE  TimesOK' /\ \A s \in Requests : CurrentIn(order', clock', req'[s])
  <2> DEFINE o == payment[c].order
             delivery(phase, new) == [Loaded("webhook", phase, o, new) EXCEPT
                                        !.p = c, !.settled = StatusOf(charge[c])]
  <2>1. o \in Orders
    BY <1>4 DEF Webhook, SInv, IInv, TablesOK
  <2>2. /\ WithStatus(o, "paid").started = order[o].started
        /\ WithStatus(o, "paid").ended = order[o].ended
    BY <1>0, <2>1, WithStatusType DEF Statuses
  <2>3. ASSUME NEW phase \in {"dirty", "visit"}, NEW new, new.started = order[o].started,
               new.ended = order[o].ended, Enter(r, delivery(phase, new))
        PROVE  TimesOK' /\ \A s \in Requests : CurrentIn(order', clock', req'[s])
    <3> DEFINE q == delivery(phase, new)
    <3>1. q.phase = phase /\ q.o = o /\ q.snap = order[o] /\ q.new = new
      BY DEF Loaded
    <3> HIDE DEF q
    <3> QED
      BY <2>3, <3>1, LoadedTimes DEF q
  <2> QED
    BY <1>4, <2>2, <2>3 DEF Webhook, VisitPhase
<1>5. ASSUME NEW p \in Receipts, VerifyPos(r, p)
      PROVE  TimesOK' /\ \A s \in Requests : CurrentIn(order', clock', req'[s])
  <2> DEFINE o == payment[p].order
             new == [WithStatus(o, "paid") EXCEPT !.verified = TRUE]
  <2>1. o \in Orders
    BY <1>5 DEF VerifyPos, SInv, IInv, TablesOK
  <2>2. new.started = order[o].started /\ new.ended = order[o].ended
    BY <1>0, <2>1, WithStatusType DEF Row, Statuses
  <2> QED
    BY <1>5, <2>1, <2>2, LoadedTimes DEF VerifyPos, VisitPhase, Loaded
<1>6. CASE LogManualVisit(r)
  <2> DEFINE q == [Idle EXCEPT !.op = "visit", !.phase = "visit"]
  <2>1. q.phase = "visit" /\ q.o \notin Orders
    BY OrderFlowAssumption DEF Idle
  <2> HIDE DEF q
  <2> QED
    BY <1>6, <2>1, LoadedTimes DEF LogManualVisit, q
<1> QED
  BY <1>1, <1>2, <1>3, <1>4, <1>5, <1>6 DEF Begin

\* A request goes on; only start and end take a time, each once.
LEMMA ContinueTimes ==
  ASSUME SInv, OneByOne, NEW r \in Requests,
         \/ TakeStamp(r) \/ LoadVisits(r) \/ Abort(r)
         \/ \E c \in Charges : PostCharge(r, c) \/ LoseReply(r, c)
  PROVE  TimesOK' /\ \A s \in Requests : CurrentIn(order', clock', req'[s])
<1>0. /\ req[r] \in Session /\ req[r].new \in Row /\ req[r].snap \in Row /\ CurrentIn(order, clock, req[r])
      /\ clock \in Nat /\ TimesOK /\ EndingOK(req[r]) /\ PayingOK(req[r])
  BY SessionFacts DEF SInv, IInv, TypeOK
<1>1. CASE TakeStamp(r)
  <2> DEFINE now == clock + 1
             new == IF req[r].op = "end" THEN [req[r].new EXCEPT !.ended = now]
                    ELSE IF req[r].snap.started = 0 THEN [req[r].new EXCEPT !.started = now]
                    ELSE req[r].new
             q == [req[r] EXCEPT !.phase = "dirty", !.new = new]
  <2>1. req[r].o \in Orders /\ req[r].phase = "stamp"
    BY <1>0, <1>1 DEF TakeStamp, PayingOK
  <2>2. /\ req[r].snap = order[req[r].o] /\ req[r].snap.ended = 0
        /\ req[r].new.started = req[r].snap.started /\ req[r].new.ended = req[r].snap.ended
        /\ req[r].snap.started <= clock
    BY <1>0, <2>1 DEF CurrentIn, TimesOK
  <2>3. \/ new = req[r].new
        \/ /\ req[r].op = "end"
           /\ new.ended = now /\ new.started = req[r].new.started
        \/ /\ req[r].snap.started = 0
           /\ new.started = now /\ new.ended = req[r].new.ended
    BY <1>0 DEF Row
  <2>4. /\ req' = [req EXCEPT ![r] = q] /\ UNCHANGED order
        /\ clock' = IF new = req[r].new THEN clock ELSE now
    BY <1>1 DEF TakeStamp, tables
  <2>5. q.phase = "dirty" /\ q.o = req[r].o /\ q.snap = req[r].snap /\ q.new = new
    BY <1>0 DEF Session
  <2> HIDE DEF new, q
  <2>6. /\ clock' \in Nat /\ clock <= clock'
        /\ new # req[r].new => now <= clock' /\ clock < now
    BY <1>0, <2>4
  <2>7. CurrentIn(order', clock', q)
    BY <1>0, <2>2, <2>3, <2>4, <2>5, <2>6 DEF CurrentIn, Row
  <2> QED
    BY <2>4, <2>6, <2>7, TimesStep
<1>2. CASE LoadVisits(r)
  <2>1. PICK i, n : req' = [req EXCEPT ![r] = [req[r] EXCEPT !.phase = "dirty", !.row = i, !.count = n]]
    BY <1>2 DEF LoadVisits
  <2> DEFINE q == [req[r] EXCEPT !.phase = "dirty", !.row = i, !.count = n]
  <2>2. q.phase = "dirty" /\ q.o = req[r].o /\ q.snap = req[r].snap /\ q.new = req[r].new
    BY <1>0 DEF Session
  <2>3. req' = [req EXCEPT ![r] = q] /\ UNCHANGED <<order, clock>>
    BY <1>2, <2>1 DEF LoadVisits, tables
  <2> HIDE DEF q
  <2>4. CurrentIn(order', clock', q) /\ clock' \in Nat /\ clock <= clock'
    BY <1>0, <2>2, <2>3 DEF CurrentIn
  <2> QED
    BY <2>3, <2>4, TimesStep
<1>3. ASSUME req' = [req EXCEPT ![r] = Idle], UNCHANGED <<order, clock>>
      PROVE  TimesOK' /\ \A s \in Requests : CurrentIn(order', clock', req'[s])
  <2>1. CurrentIn(order', clock', Idle) /\ clock' \in Nat /\ clock <= clock'
    BY <1>0, <1>3, OrderFlowAssumption DEF CurrentIn, Idle
  <2> QED
    BY <1>3, <2>1, TimesStep
<1>4. ASSUME NEW c \in Charges, PostCharge(r, c)
      PROVE  TimesOK' /\ \A s \in Requests : CurrentIn(order', clock', req'[s])
  <2>1. PICK result \in {"successful", "pending", "failed"} :
          LET q == [req[r] EXCEPT !.p = c, !.settled = StatusOf(result)] IN
          req' = [req EXCEPT ![r] =
            IF result = "successful"
            THEN [q EXCEPT !.new = [q.new EXCEPT !.status = "paid"], !.phase = VisitPhase(q.snap)]
            ELSE [q EXCEPT !.phase = "dirty"]]
    BY <1>4 DEF PostCharge
  <2>2. /\ req'[r].phase \in {"dirty", "visit"}
        /\ req'[r].o = req[r].o /\ req'[r].snap = req[r].snap
        /\ req'[r].new.started = req[r].new.started /\ req'[r].new.ended = req[r].new.ended
        /\ req' = [req EXCEPT ![r] = req'[r]]
    BY <1>0, <2>1 DEF Session, Row, VisitPhase, SInv, IInv, TypeOK
  <2>3. UNCHANGED <<order, clock>>
    BY <1>4 DEF PostCharge, tables
  <2>4. CurrentIn(order', clock', req'[r])
    BY <1>0, <2>2, <2>3 DEF CurrentIn
  <2>5. \A s \in Requests : CurrentIn(order', clock', req'[s])
    <3> SUFFICES ASSUME NEW s \in Requests PROVE CurrentIn(order', clock', req'[s])
      OBVIOUS
    <3>1. s = r
      BY DEF OneByOne
    <3> QED
      BY <2>4, <3>1
  <2>6. TimesOK'
    BY <1>0, <2>3 DEF TimesOK
  <2> QED
    BY <2>5, <2>6
<1> QED
  BY <1>1, <1>2, <1>3, <1>4 DEF Abort, LoseReply, tables

\* With the loaded row still in the table, the UPDATE leaves the row as the
\* session has it.
LEMMA CommitTimes ==
  ASSUME SInv, OneByOne, NEW r \in Requests, Commit(r), NEW o \in Orders
  PROVE  /\ order[o].started # 0 => order'[o].started = order[o].started
         /\ order[o].ended # 0 => order'[o].ended = order[o].ended
         /\ order'[o].started <= clock /\ order'[o].ended <= clock
         /\ order'[o].ended # 0 => order'[o].started < order'[o].ended
<1> DEFINE q == req[r]
<1>1. order'[o] = IF o = q.o THEN Flush(order[o], q.snap, q.new) ELSE order[o]
  BY DEF Commit
<1>2. /\ order[o] \in Row /\ q.new \in Row /\ q.snap \in Row /\ CurrentIn(order, clock, q) /\ clock \in Nat
      /\ order[o].started <= clock /\ order[o].ended <= clock
      /\ order[o].ended # 0 => order[o].started < order[o].ended /\ order[o].started # 0
  BY SessionFacts DEF SInv, IInv, TypeOK, TimesOK, EndedImpliesStarted
<1>3. CASE o # q.o
  BY <1>1, <1>2, <1>3
<1>4. CASE o = q.o
  <2>1. order[o] = q.snap
    BY <1>2, <1>4 DEF CurrentIn
  <2>2. order'[o].started = q.new.started /\ order'[o].ended = q.new.ended
    BY <1>1, <1>4, <2>1 DEF Flush, Changed
  <2> QED
    BY <1>2, <1>4, <2>1, <2>2 DEF CurrentIn, Row
<1> QED
  BY <1>3, <1>4

\* The invariant holds as long as requests do not overlap.
LEMMA SInvariance == ASSUME OneByOne PROVE Spec => []SInv
<1>1. Init => SInv
  <2> SUFFICES ASSUME Init PROVE SInv
    OBVIOUS
  <2>1. CurrentIn(order, clock, Idle)
    BY OrderFlowAssumption DEF CurrentIn, Idle
  <2> QED
    BY <2>1, InitIInv DEF Init, SInv, TimesOK, NoRow
<1>2. SInv /\ [Next]_vars => SInv'
  <2> SUFFICES ASSUME SInv, [Next]_vars PROVE SInv'
    OBVIOUS
  <2>1. IInv'
    BY NextIInv DEF SInv
  <2>2. ASSUME NEW r \in Requests, Begin(r) \/ Continue(r) \/ Abort(r)
        PROVE  TimesOK' /\ \A s \in Requests : CurrentIn(order', clock', req'[s])
    <3>1. CASE Commit(r)
      <4>1. TimesOK'
        BY <3>1, CommitTimes DEF TimesOK, Commit
      <4>2. \A s \in Requests : req'[s] = Idle
        BY <3>1 DEF Commit, OneByOne, SInv, IInv, TypeOK
      <4> QED
        BY <4>1, <4>2, OrderFlowAssumption DEF CurrentIn, Idle
    <3> QED
      BY <2>2, <3>1, BeginTimes, ContinueTimes DEF Continue
  <2>3. ASSUME NEW o \in Orders, StartManualWash(o)
        PROVE  TimesOK' /\ \A s \in Requests : CurrentIn(order', clock', req'[s])
    <3>1. /\ order' = [order EXCEPT ![o] = [NoRow EXCEPT !.status = "started", !.started = clock + 1]]
          /\ clock' = clock + 1 /\ UNCHANGED req /\ ~Exists(o)
      BY <2>3 DEF StartManualWash
    <3>2. order'[o].started = clock + 1 /\ order'[o].ended = 0
      BY <3>1 DEF SInv, IInv, TypeOK, NoRow
    <3>3. \A x \in Orders : x # o => order'[x] = order[x]
      BY <3>1 DEF SInv, IInv, TypeOK
    <3>4. clock \in Nat /\ \A x \in Orders : order[x] \in Row
      BY DEF SInv, IInv, TypeOK
    <3>5. TimesOK'
      BY <3>1, <3>2, <3>3, <3>4 DEF SInv, TimesOK, Row
    <3>6. ASSUME NEW s \in Requests
          PROVE  CurrentIn(order', clock', req'[s])
      <4>1. req[s].new \in Row /\ req[s].o # o
        BY <3>1, SessionFacts DEF SInv, LoadedOK
      <4> QED
        BY <3>1, <3>3, <3>4, <4>1 DEF SInv, CurrentIn, Row
    <3> QED
      BY <3>5, <3>6
  <2>4. ASSUME UNCHANGED order, UNCHANGED req, UNCHANGED clock
        PROVE  TimesOK' /\ \A r \in Requests : CurrentIn(order', clock', req'[r])
    BY <2>4 DEF SInv, TimesOK
  <2>5. ASSUME \/ \E o \in Orders : AssignVehicle(o)
               \/ \E c \in Charges : Settle(c)
               \/ \E p \in Receipts, o \in Orders : PosSale(p, o)
               \/ UNCHANGED vars
        PROVE  UNCHANGED order /\ UNCHANGED req /\ UNCHANGED clock
    BY <2>5 DEF AssignVehicle, Settle, PosSale, vars, tables
  <2> QED
    BY <2>1, <2>2, <2>3, <2>4, <2>5 DEF Next, SInv
<1> QED
  BY <1>1, <1>2, PTL DEF Spec

\* As long as requests do not overlap, started_at and ended_at are written
\* once, and a wash ends after it started (start_wash, end_wash).
THEOREM StampsAreKept == ASSUME OneByOne PROVE Spec => StampsWriteOnce
<1>1. SInv /\ [Next]_vars => [\A o \in Orders :
        /\ order[o].started # 0 => order'[o].started = order[o].started
        /\ order[o].ended # 0 => order'[o].ended = order[o].ended
        /\ order'[o].ended # 0 => order'[o].started < order'[o].ended]_order
  <2> SUFFICES ASSUME SInv, [Next]_vars, order' # order, NEW o \in Orders
               PROVE  /\ order[o].started # 0 => order'[o].started = order[o].started
                      /\ order[o].ended # 0 => order'[o].ended = order[o].ended
                      /\ order'[o].ended # 0 => order'[o].started < order'[o].ended
    OBVIOUS
  <2>1. ASSUME NEW x \in Orders, ~Exists(x), NEW row, row.ended = 0,
               order' = [order EXCEPT ![x] = row]
        PROVE  /\ order[o].started # 0 => order'[o].started = order[o].started
               /\ order[o].ended # 0 => order'[o].ended = order[o].ended
               /\ order'[o].ended # 0 => order'[o].started < order'[o].ended
    BY <2>1 DEF SInv, IInv, TypeOK, TablesOK, TimesOK
  <2>2. ASSUME NEW r \in Requests, NEW x \in Orders, CreateOrder(r, x)
        PROVE  \E row : row.ended = 0 /\ order' = [order EXCEPT ![x] = row] /\ ~Exists(x)
    BY <2>2 DEF CreateOrder, NoRow
  <2>3. ASSUME NEW x \in Orders, StartManualWash(x)
        PROVE  \E row : row.ended = 0 /\ order' = [order EXCEPT ![x] = row] /\ ~Exists(x)
    BY <2>3 DEF StartManualWash, NoRow
  <2> QED
    BY <2>1, <2>2, <2>3, OrdersChange, CommitTimes
<1> QED
  BY <1>1, SInvariance, PTL DEF Spec, StampsWriteOnce
=============================================================================
