----------------------------- MODULE OrderFlow ------------------------------
(***************************************************************************)
(* Orders, card payments and the visit counter of one customer, as the     *)
(* HTTP handlers of plugins/payments, plugins/orders and plugins/auth      *)
(* change them.                                                            *)
(*                                                                         *)
(* A handler runs in a thread of its own with a database session of its    *)
(* own.  It loads rows, changes the loaded objects in memory, and commits. *)
(* Nothing locks a row, no row carries a version, and the session flushes  *)
(* only at commit, so what a handler read may be stale when it writes: one *)
(* request is one record of req that carries the loaded row (snap) and the *)
(* changed one (new) from its first query to its commit.                   *)
(***************************************************************************)
EXTENDS Naturals, Sequences, Functions

CONSTANTS
  Orders,      \* ids of orders, all of one customer
  Charges,     \* ids the card processor (Yoco) gives to charges
  Receipts,    \* ids of point-of-sale receipts
  Requests,    \* request slots: how many handlers run at once
  Ops,         \* the endpoints in use
  NoOrder, NoPayment,
  MaxClock,    \* bound: no timestamp is asked for once the clock reads this
  MaxVisits,   \* bound: nor a request that may log a visit once this many are logged
  MaxFaults    \* bound: aborted requests and lost replies

ASSUME OrderFlowAssumption ==
  /\ NoOrder \notin Orders
  /\ NoPayment \notin Charges \cup Receipts
  /\ Charges \cap Receipts = {}
  /\ MaxClock \in Nat /\ MaxVisits \in Nat /\ MaxFaults \in Nat

VARIABLES
  order,       \* table orders
  linked,      \* table order_vehicles: the orders with a row there
  payment,     \* table payments
  visits,      \* table visit_counts: the customer's rows, usually one
  charge,      \* the card processor's own book
  req,         \* the handlers in flight
  clock,       \* datetime.utcnow(), one tick per timestamp taken
  logged,      \* history: visit increments committed
  counted,     \* history: those committed on behalf of each order
  faults       \* history: requests lost

tables == <<order, linked, payment, visits>>
history == <<logged, counted>>
vars == <<tables, charge, req, clock, history, faults>>

Statuses == {"none", "pending", "started", "in_progress", "paid", "completed"}

\* A row of orders; status "none" when there is no such row, timestamps 0 when NULL.
Row == [status : Statuses, started : Nat, ended : Nat, verified : BOOLEAN]

NoRow == [status |-> "none", started |-> 0, ended |-> 0, verified |-> FALSE]

Endpoints == {"create", "start", "end", "legacy_start", "complete", "redeem", "verify",
              "charge", "webhook", "pos", "visit"}

Session == [op : Endpoints \cup {"idle"},
            phase : {"idle", "post", "stamp", "visit", "dirty"},
            o : Orders \cup {NoOrder}, p : Charges \cup {NoPayment},
            settled : {"none", "success", "failed"},
            snap : Row, new : Row, row : Nat, count : Nat]

Idle == [op |-> "idle", phase |-> "idle", o |-> NoOrder, p |-> NoPayment,
         settled |-> "none", snap |-> NoRow, new |-> NoRow,
         row |-> 0, count |-> 0]

TypeOK ==
  /\ order \in [Orders -> Row]
  /\ linked \subseteq Orders
  /\ payment \in [Charges \cup Receipts ->
                   [order : Orders \cup {NoOrder}, status : {"none", "success", "failed"}]]
  /\ visits \in Seq(Nat)
  /\ charge \in [Charges -> {"none", "pending", "successful", "failed"}]
  /\ req \in [Requests -> Session]
  /\ clock \in Nat /\ logged \in Nat /\ faults \in Nat
  /\ counted \in [Orders -> Nat]

Init ==
  /\ order = [o \in Orders |-> NoRow]
  /\ linked = {}
  /\ payment = [p \in Charges \cup Receipts |-> [order |-> NoOrder, status |-> "none"]]
  /\ visits = <<>>
  /\ charge = [c \in Charges |-> "none"]
  /\ req = [r \in Requests |-> Idle]
  /\ clock = 0 /\ logged = 0 /\ faults = 0
  /\ counted = [o \in Orders |-> 0]

-----------------------------------------------------------------------------
(* Loading and committing *)

Exists(o) == order[o].status # "none"

\* The session of handler op that has loaded order o and changed it to new.
Loaded(op, phase, o, new) ==
  [op |-> op, phase |-> phase, o |-> o, p |-> NoPayment, settled |-> "none",
   snap |-> order[o], new |-> new, row |-> 0, count |-> 0]

WithStatus(o, status) == [order[o] EXCEPT !.status = status]

\* Request r enters a handler, whose session has become q.
Enter(r, q) ==
  /\ q.op \in Ops /\ req[r].phase = "idle"
  /\ q.phase \in {"post", "visit"} => logged < MaxVisits
  /\ req' = [req EXCEPT ![r] = q]
  /\ UNCHANGED <<tables, charge, clock, history, faults>>

Changed(cur, old, new) == IF new # old THEN new ELSE cur

\* Mutant of Flush: the UPDATE writes every column back.
FlushWholeRow(cur, old, new) == new

\* An UPDATE sets the columns whose in-memory value differs from the loaded
\* one, and leaves the others as they are in the table by now.
Flush(cur, old, new) ==
  [status   |-> Changed(cur.status, old.status, new.status),
   started  |-> Changed(cur.started, old.started, new.started),
   ended    |-> Changed(cur.ended, old.ended, new.ended),
   verified |-> Changed(cur.verified, old.verified, new.verified)]

\* Mutant of AddsLink: start_wash leaves the vehicle out.
AddsLinkOnCreate(op) == op = "create"

\* The handlers that add a row to order_vehicles.
AddsLink(op) == op \in {"create", "start"}

\* db.commit(): everything the session changed becomes visible at once.
Commit(r) ==
  LET q == req[r] IN
  /\ q.phase = "dirty"
  /\ order' = [x \in Orders |-> IF x = q.o THEN Flush(order[x], q.snap, q.new) ELSE order[x]]
  /\ linked' = IF AddsLink(q.op) THEN linked \cup {q.o} ELSE linked
  /\ payment' = [p \in Charges \cup Receipts |->
                  IF p = q.p THEN [order |-> q.o, status |-> q.settled] ELSE payment[p]]
  /\ visits' = IF q.count = 0 THEN visits
               ELSE IF q.row = 0 THEN Append(visits, q.count)
               ELSE [visits EXCEPT ![q.row] = q.count]
  /\ logged' = IF q.count = 0 THEN logged ELSE logged + 1
  /\ counted' = [x \in Orders |-> IF x = q.o /\ q.count # 0 THEN counted[x] + 1 ELSE counted[x]]
  /\ req' = [req EXCEPT ![r] = Idle]
  /\ UNCHANGED <<charge, clock, faults>>

\* The handler raises, or its process dies: the session is rolled back.
Abort(r) ==
  /\ req[r].phase # "idle" /\ faults < MaxFaults
  /\ req' = [req EXCEPT ![r] = Idle]
  /\ faults' = faults + 1
  /\ UNCHANGED <<tables, charge, clock, history>>

\* Mutant of LoadVisits: the counter is looked for but never created.
LoadVisitsExisting(r) ==
  /\ req[r].phase = "visit"
  /\ \E i \in DOMAIN visits :
       req' = [req EXCEPT ![r] = [req[r] EXCEPT !.phase = "dirty", !.row = i, !.count = visits[i] + 1]]
  /\ UNCHANGED <<tables, charge, clock, history, faults>>

\* Mutant of LoadVisits: a counter created at 1 is incremented as well.
LoadVisitsTwice(r) ==
  /\ req[r].phase = "visit"
  /\ req' = [req EXCEPT ![r] = [req[r] EXCEPT !.phase = "dirty", !.row = Len(visits),
               !.count = IF visits = <<>> THEN 2 ELSE visits[Len(visits)] + 1]]
  /\ UNCHANGED <<tables, charge, clock, history, faults>>

\* Mutant of LoadVisits: the handler always inserts a row.
LoadVisitsInsert(r) ==
  /\ req[r].phase = "visit"
  /\ req' = [req EXCEPT ![r] = [req[r] EXCEPT !.phase = "dirty", !.row = 0, !.count = 1]]
  /\ UNCHANGED <<tables, charge, clock, history, faults>>

\* The session reads a visit_counts row of the customer (no order is imposed
\* on them) and adds one to it in memory; without a row it prepares one.
LoadVisits(r) ==
  /\ req[r].phase = "visit"
  /\ \/ \E i \in DOMAIN visits :
          req' = [req EXCEPT ![r] = [req[r] EXCEPT !.phase = "dirty", !.row = i, !.count = visits[i] + 1]]
     \/ /\ visits = <<>>
        /\ req' = [req EXCEPT ![r] = [req[r] EXCEPT !.phase = "dirty", !.row = 0, !.count = 1]]
  /\ UNCHANGED <<tables, charge, clock, history, faults>>

\* Mutant of VisitPhase: a wash that has begun is taken for one that is counted.
VisitPhaseStarted(snap) == IF snap.started # 0 THEN "dirty" ELSE "visit"

\* After a wash has ended its payment no longer counts as a visit.
VisitPhase(snap) == IF snap.ended # 0 THEN "dirty" ELSE "visit"

-----------------------------------------------------------------------------
(* Orders *)

\* POST /orders: the customer orders a wash; POST /orders/create also links the
\* order to the customer's vehicle, when there is just one, in a second commit.
CreateOrder(r, o) ==
  LET row == [NoRow EXCEPT !.status = "pending"] IN
  /\ ~Exists(o) /\ req[r].phase = "idle"
  /\ order' = [order EXCEPT ![o] = row]
  /\ \/ UNCHANGED req
     \/ req' = [req EXCEPT ![r] = Loaded("create", "dirty", o, row)']
  /\ UNCHANGED <<linked, payment, visits, charge, clock, history, faults>>

StartManualWash(o) ==
  /\ "manual_wash" \in Ops /\ ~Exists(o) /\ clock < MaxClock
  /\ order' = [order EXCEPT ![o] = [NoRow EXCEPT !.status = "started", !.started = clock + 1]]
  /\ clock' = clock + 1
  /\ UNCHANGED <<linked, payment, visits, charge, req, history, faults>>

AssignVehicle(o) ==
  /\ Exists(o) /\ linked' = linked \cup {o}
  /\ UNCHANGED <<order, payment, visits, charge, req, clock, history, faults>>

\* POST /payments/start-wash: refused (400) once the wash has ended.
StartWash(r, o) ==
  /\ Exists(o) /\ order[o].ended = 0 /\ clock < MaxClock
  /\ Enter(r, Loaded("start", "stamp", o,
       WithStatus(o, IF order[o].status = "completed" THEN "completed" ELSE "in_progress")))

\* POST /payments/end-wash: refused (400) before the start, a no-op after the end.
EndWash(r, o) ==
  /\ Exists(o) /\ order[o].ended = 0 /\ order[o].started # 0 /\ clock < MaxClock
  /\ Enter(r, Loaded("end", "stamp", o, WithStatus(o, "completed")))

\* Mutant of TakeStamp: a second start takes the time again.
TakeStampAgain(r) ==
  LET q == req[r]
      now == clock + 1
      new == IF q.op = "end" THEN [q.new EXCEPT !.ended = now]
             ELSE [q.new EXCEPT !.started = now]
  IN
  /\ q.phase = "stamp"
  /\ req' = [req EXCEPT ![r] = [q EXCEPT !.phase = "dirty", !.new = new]]
  /\ clock' = now
  /\ UNCHANGED <<tables, charge, history, faults>>

\* The handler calls datetime.utcnow() for a timestamp it found NULL.
TakeStamp(r) ==
  LET q == req[r]
      now == clock + 1
      new == IF q.op = "end" THEN [q.new EXCEPT !.ended = now]
             ELSE IF q.snap.started = 0 THEN [q.new EXCEPT !.started = now]
             ELSE q.new
  IN
  /\ q.phase = "stamp"
  /\ req' = [req EXCEPT ![r] = [q EXCEPT !.phase = "dirty", !.new = new]]
  /\ clock' = IF new = q.new THEN clock ELSE now
  /\ UNCHANGED <<tables, charge, history, faults>>

\* POST /orders/{id}/start-wash: only the status column.
LegacyStartWash(r, o) ==
  /\ Exists(o)
  /\ Enter(r, Loaded("legacy_start", "dirty", o, WithStatus(o, "in_progress")))

\* POST /orders/{id}/complete-wash: logs a visit unless the status reads paid.
CompleteWash(r, o) ==
  /\ Exists(o)
  /\ Enter(r, Loaded("complete", IF order[o].status = "paid" THEN "dirty" ELSE "visit",
                     o, WithStatus(o, "completed")))

\* POST /orders/{id}/redeem: also sets a flag that no handler reads.
RedeemOrder(r, o) ==
  /\ Exists(o)
  /\ Enter(r, Loaded("redeem", "dirty", o, WithStatus(o, "paid")))

-----------------------------------------------------------------------------
(* Payments *)

\* Only a card payment or a receipt in state success answers these queries.
Paid(o) == \E p \in Charges \cup Receipts :
             payment[p].order = o /\ payment[p].status = "success"

\* POST /payments/charge: refused (400) when a successful payment exists.
ChargeOrder(r, o) ==
  /\ Exists(o) /\ ~Paid(o)
  /\ Enter(r, Loaded("charge", "post", o, order[o]))

Fresh(c) == charge[c] = "none"

\* Mutant of StatusOf: the processor's word is stored as it is.
StatusAsIs(result) == result

\* The status of the payment row that records the processor's answer.
StatusOf(result) == IF result = "successful" THEN "success" ELSE "failed"

\* The processor books the charge and its answer reaches the handler: a
\* successful one pays the order, any other is stored as a failed payment.
PostCharge(r, c) ==
  /\ req[r].phase = "post" /\ Fresh(c)
  /\ \E result \in {"successful", "pending", "failed"} :
       /\ charge' = [charge EXCEPT ![c] = result]
       /\ LET q == [req[r] EXCEPT !.p = c, !.settled = StatusOf(result)] IN
          req' = [req EXCEPT ![r] =
            IF result = "successful"
            THEN [q EXCEPT !.new = [q.new EXCEPT !.status = "paid"], !.phase = VisitPhase(q.snap)]
            ELSE [q EXCEPT !.phase = "dirty"]]
  /\ UNCHANGED <<tables, clock, history, faults>>

\* The processor books the charge but the answer is lost or late (502).
LoseReply(r, c) ==
  /\ req[r].phase = "post" /\ Fresh(c) /\ faults < MaxFaults
  /\ \E result \in {"successful", "pending", "failed"} :
       charge' = [charge EXCEPT ![c] = result]
  /\ req' = [req EXCEPT ![r] = Idle]
  /\ faults' = faults + 1
  /\ UNCHANGED <<tables, clock, history>>

\* The processor settles a charge it had left open.
Settle(c) ==
  /\ charge[c] = "pending"
  /\ \E result \in {"successful", "failed"} : charge' = [charge EXCEPT ![c] = result]
  /\ UNCHANGED <<tables, req, clock, history, faults>>

\* Mutant of EventLoopFree: the webhook runs in the thread pool.
AnyThread == TRUE

\* The webhook is a coroutine without an await between its first query and
\* its commit: on the one event loop of the process no two of them overlap.
EventLoopFree == \A q \in Requests : req[q].op # "webhook"

\* POST /payments/webhook/yoco, delivered any number of times once the charge
\* is settled; a delivery that finds no payment row is ignored.
Webhook(r, c) ==
  LET o == payment[c].order
      delivery(phase, new) == [Loaded("webhook", phase, o, new) EXCEPT
                                 !.p = c, !.settled = StatusOf(charge[c])]
  IN
  /\ EventLoopFree /\ payment[c].status # "none"
  /\ \/ charge[c] = "failed" /\ Enter(r, delivery("dirty", order[o]))
     \/ /\ charge[c] = "successful"
        /\ Enter(r, delivery(IF payment[c].status = "success" THEN "dirty"
                             ELSE VisitPhase(order[o]), WithStatus(o, "paid")))

\* A till records a sale; nothing under src/ inserts these rows.
PosSale(p, o) ==
  /\ "pos" \in Ops
  /\ Exists(o) /\ payment[p].status = "none"
  /\ payment' = [payment EXCEPT ![p] = [order |-> o, status |-> "success"]]
  /\ UNCHANGED <<order, linked, visits, charge, req, clock, history, faults>>

\* GET /payments/verify-pos: logs a visit unless the status reads paid.
VerifyPos(r, p) ==
  LET o == payment[p].order IN
  /\ payment[p].status = "success"
  /\ Enter(r, Loaded("pos", IF order[o].status = "paid" THEN "dirty" ELSE VisitPhase(order[o]),
                     o, [WithStatus(o, "paid") EXCEPT !.verified = TRUE]))

\* GET /payments/verify-payment by PIN or order id: answers "ok" the first
\* time it sees the order, "already_redeemed" without a write after that.
VerifyPayment(r, o) ==
  /\ Exists(o) /\ ~order[o].verified
  /\ Enter(r, Loaded("verify", "dirty", o, [order[o] EXCEPT !.verified = TRUE]))

\* POST /auth/visits/manual: staff log a visit that belongs to no order.
LogManualVisit(r) == Enter(r, [Idle EXCEPT !.op = "visit", !.phase = "visit"])

-----------------------------------------------------------------------------
Begin(r) ==
  \/ \E o \in Orders :
       \/ CreateOrder(r, o) \/ StartWash(r, o) \/ EndWash(r, o)
       \/ LegacyStartWash(r, o) \/ CompleteWash(r, o) \/ RedeemOrder(r, o)
       \/ ChargeOrder(r, o) \/ VerifyPayment(r, o)
  \/ \E c \in Charges : Webhook(r, c)
  \/ \E p \in Receipts : VerifyPos(r, p)
  \/ LogManualVisit(r)

Continue(r) ==
  \/ TakeStamp(r) \/ LoadVisits(r) \/ Commit(r)
  \/ \E c \in Charges : PostCharge(r, c) \/ LoseReply(r, c)

Next ==
  \/ \E r \in Requests : Begin(r) \/ Continue(r) \/ Abort(r)
  \/ \E o \in Orders : StartManualWash(o) \/ AssignVehicle(o)
  \/ \E c \in Charges : Settle(c)
  \/ \E p \in Receipts, o \in Orders : PosSale(p, o)

Spec == Init /\ [][Next]_vars

\* A handler that was entered runs on: its thread is scheduled, and the call
\* to the processor returns or times out after 15 seconds.
FairSpec == Spec /\ \A r \in Requests : WF_vars(Continue(r))

-----------------------------------------------------------------------------
(* What is required of the handlers, however many of them overlap *)

\* A wash that has ended was started: no interleaving of stale sessions
\* leaves ended_at set and started_at NULL (core/wash_lifecycle.py).
EndedImpliesStarted ==
  \A o \in Orders : order[o].ended # 0 => order[o].started # 0

\* A card payment stored as successful was logged as a visit on behalf of its
\* order, unless the wash had already ended: neither the charge handler nor
\* a webhook, nor an abort between them, records the money and skips the visit.
PaymentsCounted ==
  \A c \in Charges : payment[c].status = "success" =>
    counted[payment[c].order] > 0 \/ order[payment[c].order].ended # 0

\* Races lose visits or split them over several rows, but the loyalty total
\* never exceeds the visits that were logged.
VisitsNeverInvented == SumFunction(visits) <= logged

\* A wash started by start-wash has a vehicle to show, in the same commit that
\* starts it; only a manual wash is inserted as started, without one.
StartLinksVehicle ==
  [][\A o \in Orders :
       order[o].status # "none" /\ order[o].started = 0 /\ order'[o].started # 0
       => o \in linked']_<<order, linked>>

\* A further delivery of a webhook whose success is already recorded logs no
\* visit, although the handler decided that from what it read earlier.
DuplicateSuccessAddsNoVisit ==
  [][\A r \in Requests :
       /\ req[r].op = "webhook" /\ req'[r] = Idle
       /\ payment[req[r].p].status = "success"
       => logged' = logged]_vars

\* How far a wash has come, read from its timestamps as /active-washes does.
Stage == [o \in Orders |-> IF order[o].ended # 0 THEN "over"
                          ELSE IF order[o].started # 0 THEN "washing" ELSE "waiting"]

Wash == INSTANCE WashProgress WITH stage <- Stage

\* The timestamps of an order move like the abstract wash: started once, then
\* ended, never back, whichever stale sessions commit in between.
WashImplemented == Wash!Spec

-----------------------------------------------------------------------------
(* What holds as long as requests do not overlap *)

\* A timestamp, once set, keeps its value (start_wash: "Sets started_at only
\* on first invocation"), and the duration that end_wash reports is positive.
StampsWriteOnce ==
  [][\A o \in Orders :
       /\ order[o].started # 0 => order'[o].started = order[o].started
       /\ order[o].ended # 0 => order'[o].ended = order[o].ended
       /\ order'[o].ended # 0 => order'[o].started < order'[o].ended]_order

\* Every visit that was logged is in the customer's one counter.
VisitsExact == Len(visits) <= 1 /\ SumFunction(visits) = logged

-----------------------------------------------------------------------------
(* What the docstrings promise and the code does not keep *)

\* _log_visit_for_paid_order: "If a payment occurs after completion (status ==
\* 'completed'), skip to avoid double count" (payments/routes.py:44).
CompletedNotCountedAgain ==
  [][\A r \in Requests :
       req[r].op \in {"charge", "webhook"} /\ req[r].snap.status = "completed"
       /\ req'[r] = Idle => logged' = logged]_vars

-----------------------------------------------------------------------------
(* Liveness *)

\* A charge whose answer "successful" reached its handler ends up in a
\* successful payment row, unless a request is lost.
ReplyRecorded ==
  \A c \in Charges, r \in Requests :
    (req[r].op = "charge" /\ req[r].p = c /\ req[r].settled = "success")
      ~> (payment[c].status = "success" \/ faults > 0)
=============================================================================
