------------------------ MODULE TenantConfig_proofs ------------------------
(***************************************************************************)
(* What TLAPS proves of TenantConfig, for any plans, modules and steps,    *)
(* any number of overlapping handlers and open pages, and any value of the *)
(* bounds.                                                                 *)
(***************************************************************************)
EXTENDS TenantConfig, SequenceTheorems, TLAPS

(* The inductive invariant *)

\* What is asked of any document that is stored, loaded or shown.
Good(d) == d \in Document /\ Proper(d) /\ TrueHistory(d)

\* A handler under way knows what it was asked for; what it answers about is written,
\* unless it is one of those that never flag the document.
Asked(q) ==
  /\ q.phase = "setup" => q.op = "setup" /\ q.value \in Plans
  /\ q.phase = "cancel" => ~q.dirty /\ q.value = "cancelled"
  /\ Answered(q) \subseteq Topics
  /\ q.dirty \/ Flagless(q) \/ Answered(q) = {}

\* What is to be written says of everything it is not an answer about what was last
\* told, unless that was told since the document was loaded.
Fresh(q) ==
  q.dirty => \A topic \in Topics \ (q.overtaken \cup Answered(q)) :
               told[topic] \in {Unsure, Unstored, Says(q.doc, topic)}

FlightOK(q) == TrueHistory(q.doc) /\ Asked(q) /\ Fresh(q)

IInv ==
  /\ TypeOK /\ HistoryTells /\ ChangesKept
  /\ \A r \in Requests : FlightOK(req[r])

-----------------------------------------------------------------------------
(* Lemmas about histories and documents *)

\* Two documents that say the same of everything but some topics.
Alike(d, e, topics) == \A topic \in Topics \ topics : Says(e, topic) = Says(d, topic)

LEMMA SaysOf ==
  ASSUME NEW d
  PROVE  /\ Says(d, "plan") = d.plan
         /\ Says(d, "status") = IF d.status = "none" THEN "active" ELSE d.status
         /\ \A m \in Modules : Says(d, m) = d.overrides[m]
BY TenantConfigAssumption DEF Says

LEMMA SaysTyped ==
  ASSUME NEW d \in Document, NEW topic \in Topics
  PROVE  Says(d, topic) \in Values
<1>1. /\ d.plan \in Plans \cup {NoPlan} /\ d.status \in Statuses
      /\ d.overrides \in [Modules -> Switches]
  BY DEF Document
<1>2. "active" \in Statuses
  BY DEF Statuses
<1>3. CASE topic = "plan"
  BY <1>1, <1>3, SaysOf DEF Values
<1>4. CASE topic = "status"
  BY <1>1, <1>2, <1>4, SaysOf DEF Values
<1>5. CASE topic \in Modules
  BY <1>1, <1>5, SaysOf DEF Values
<1> QED BY <1>3, <1>4, <1>5 DEF Topics

\* Documents are alike if their fields are.
LEMMA AlikeFields ==
  ASSUME NEW d, NEW e, NEW topics,
         "plan" \in topics \/ e.plan = d.plan,
         "status" \in topics \/ Says(e, "status") = Says(d, "status"),
         \A m \in Modules : m \in topics \/ e.overrides[m] = d.overrides[m]
  PROVE  Alike(d, e, topics)
BY SaysOf DEF Alike, Topics

\* The new entry is the first, and the others move on by one.
LEMMA Pushed ==
  ASSUME NEW h \in Seq(Entry), NEW e \in Entry
  PROVE  LET k == <<e>> \o h IN
         /\ k \in Seq(Entry) /\ k # <<>> /\ k[1] = e
         /\ DOMAIN k = 1 .. Len(h) + 1 /\ \A i \in 1 .. Len(h) : k[i + 1] = h[i]
<1>1. <<e>> \in Seq(Entry) /\ Len(<<e>>) = 1 /\ <<e>>[1] = e
  OBVIOUS
<1>2. /\ <<e>> \o h \in Seq(Entry) /\ Len(<<e>> \o h) = 1 + Len(h)
      /\ \A i \in 1 .. (1 + Len(h)) : (<<e>> \o h)[i] = IF i <= 1 THEN <<e>>[i] ELSE h[i - 1]
  BY <1>1, ConcatProperties
<1>3. Len(h) \in Nat
  BY LenProperties
<1> QED BY <1>1, <1>2, <1>3

\* It tells what it is about,
LEMMA NewTells ==
  ASSUME NEW h \in Seq(Entry), NEW e \in Entry, NEW U
  PROVE  Tells(<<e>> \o h, e.about, e.value, U)
<1>1. e = [about |-> e.about, value |-> e.value]
  BY DEF Entry
<1>2. 1 \in DOMAIN (<<e>> \o h) /\ (<<e>> \o h)[1] = e
  BY Pushed, LenProperties
<1> QED BY <1>1, <1>2 DEF Tells

\* and whatever else the history tells, it still tells.
LEMMA OthersTell ==
  ASSUME NEW h \in Seq(Entry), NEW e \in Entry, NEW about, NEW value, NEW U,
         about # e.about, Tells(h, about, value, U)
  PROVE  Tells(<<e>> \o h, about, value, U)
<1> DEFINE k == <<e>> \o h
<1>1. /\ k[1] = e /\ DOMAIN k = 1 .. Len(h) + 1 /\ Len(h) \in Nat
      /\ \A i \in 1 .. Len(h) : k[i + 1] = h[i]
  BY Pushed, LenProperties
<1>2. DOMAIN h = 1 .. Len(h)
  BY LenProperties
<1> HIDE DEF k
<1>3. \A i \in 2 .. Len(h) + 1 : i - 1 \in 1 .. Len(h) /\ k[i] = h[i - 1]
  BY <1>1
<1>4. CASE value \in U /\ \A i \in DOMAIN h : h[i].about # about
  <2>1. \A i \in DOMAIN k : k[i].about # about
    BY <1>1, <1>2, <1>3, <1>4
  <2> QED BY <2>1, <1>4 DEF Tells, k
<1>5. CASE \E i \in DOMAIN h : /\ h[i] = [about |-> about, value |-> value]
                               /\ \A j \in 1..(i - 1) : h[j].about # about
  <2>1. PICK i \in 1 .. Len(h) : /\ h[i] = [about |-> about, value |-> value]
                                 /\ \A j \in 1..(i - 1) : h[j].about # about
    BY <1>2, <1>5
  <2>2. i + 1 \in DOMAIN k /\ k[i + 1] = [about |-> about, value |-> value]
    BY <1>1, <2>1
  <2>3. \A j \in 1 .. i : k[j].about # about
    <3> TAKE j \in 1 .. i
    <3>1. CASE j = 1
      BY <3>1, <1>1
    <3>2. CASE j # 1
      <4>1. j \in 2 .. Len(h) + 1 /\ j - 1 \in 1 .. (i - 1)
        BY <3>2, <1>1, <2>1
      <4> QED BY <4>1, <1>3, <2>1
    <3> QED BY <3>1, <3>2
  <2>4. (i + 1) - 1 = i
    BY <2>1
  <2> QED BY <2>2, <2>3, <2>4 DEF Tells, k
<1> QED BY <1>4, <1>5 DEF Tells

LEMMA EmptyGood == Good(Empty) /\ Empty.history = <<>>
<1>1. Empty \in Document
  BY DEF Empty, Document, Statuses, Switches
<1>2. Proper(Empty)
  BY DEF Empty, Proper
<1>3. TrueHistory(Empty)
  BY DEF Empty, TrueHistory, Tells
<1> QED BY <1>1, <1>2, <1>3 DEF Good, Empty

\* Fields that no entry is about may change.
LEMMA OtherFields ==
  ASSUME NEW d, Good(d), NEW e \in Document, e.filled,
         e.status = d.status, e.plan = d.plan, e.limits = d.limits,
         e.overrides = d.overrides, e.history = d.history
  PROVE  Good(e) /\ Alike(d, e, {})
<1>1. Good(e)
  BY DEF Good, Proper, TrueHistory
<1>2. Says(e, "status") = Says(d, "status")
  BY SaysOf
<1> QED BY <1>1, <1>2, AlikeFields

LEMMA EnsuredGood ==
  ASSUME NEW d, Good(d)
  PROVE  LET e == Ensured(d) IN
         /\ Good(e) /\ e.filled /\ e.status # "none" /\ e.plan = d.plan /\ e.limits = d.limits
         /\ e.overrides = d.overrides /\ e.history = d.history /\ Alike(d, e, {})
<1> DEFINE e == Ensured(d)
<1>1. /\ e \in Document /\ e.filled /\ e.status = IF d.status = "none" THEN "active" ELSE d.status
      /\ e.plan = d.plan /\ e.limits = d.limits /\ e.overrides = d.overrides
      /\ e.history = d.history /\ d.history \in Seq(Entry)
  BY DEF Good, Document, Ensured, Statuses
<1> HIDE DEF e
<1>2. e.status # "none" /\ Proper(e)
  BY <1>1 DEF Proper
<1>3. Tells(e.history, "status", e.status, {"none", "active", "trial"})
  <2>1. CASE d.status = "none"
    <3>1. d.history = <<>>
      BY <2>1 DEF Good, Proper
    <3> QED BY <3>1, <2>1, <1>1 DEF Tells
  <2>2. CASE d.status # "none"
    BY <2>2, <1>1 DEF Good, TrueHistory
  <2> QED BY <2>1, <2>2
<1>4. TrueHistory(e)
  BY <1>1, <1>3 DEF Good, TrueHistory
<1>5. Alike(d, e, {})
  <2>1. Says(e, "status") = Says(d, "status")
    BY <1>1, SaysOf
  <2> QED BY <2>1, <1>1, AlikeFields
<1> QED BY <1>1, <1>2, <1>4, <1>5 DEF Good, e

\* An entry in front, true of the document it goes into, and a field set to match.
LEMMA WithPlanGood ==
  ASSUME NEW d, Good(d), NEW p \in Plans
  PROVE  /\ Good(WithPlan(d, p)) /\ WithPlan(d, p).filled
         /\ Alike(d, WithPlan(d, p), {"plan"})
<1> DEFINE e == Ensured(d)
           x == [about |-> "plan", value |-> p]
           f == WithPlan(d, p)
<1>1. Good(e) /\ e.filled /\ e.status # "none" /\ Alike(d, e, {})
  BY EnsuredGood
<1>2. x \in Entry /\ e.history \in Seq(Entry)
  BY <1>1 DEF Entry, Topics, Good, Document
<1>3. /\ f.filled = e.filled /\ f.status = e.status /\ f.plan = p /\ f.limits = p
      /\ f.overrides = e.overrides /\ f.history = <<x>> \o e.history
  BY <1>1 DEF WithPlan, Recorded, Good, Document
<1>4. f \in Document
  <2>1. <<x>> \o e.history \in Seq(Entry)
    BY <1>2, Pushed
  <2>2. f = [e EXCEPT !.plan = p, !.limits = p, !.history = <<x>> \o e.history]
    BY <1>1 DEF WithPlan, Recorded, Good, Document
  <2> HIDE DEF e, f, x
  <2> QED BY <1>1, <2>1, <2>2 DEF Good, Document
<1> HIDE DEF e
<1>5. Tells(f.history, "plan", p, {NoPlan})
  BY <1>2, <1>3, NewTells
<1>6. Tells(f.history, "status", f.status, {"none", "active", "trial"})
  BY <1>1, <1>2, <1>3, OthersTell DEF Good, TrueHistory
<1>7. \A m \in Modules : Tells(f.history, m, f.overrides[m], {"unset"})
  BY <1>1, <1>2, <1>3, OthersTell, TenantConfigAssumption DEF Good, TrueHistory
<1> HIDE DEF f
<1>8. Alike(d, f, {"plan"})
  <2>1. Says(f, "status") = Says(e, "status")
    BY <1>3, SaysOf
  <2>2. Alike(e, f, {"plan"})
    BY <2>1, <1>3, AlikeFields
  <2> QED BY <2>2, <1>1 DEF Alike
<1> QED BY <1>1, <1>3, <1>4, <1>5, <1>6, <1>7, <1>8 DEF Good, Proper, TrueHistory, f

LEMMA WithStatusGood ==
  ASSUME NEW d, Good(d), NEW status \in Statuses \ {"none"}
  PROVE  /\ Good(WithStatus(d, status)) /\ WithStatus(d, status).filled
         /\ Alike(d, WithStatus(d, status), {"status"})
<1> DEFINE e == Ensured(d)
           x == [about |-> "status", value |-> status]
           f == WithStatus(d, status)
<1>1. Good(e) /\ e.filled /\ Alike(d, e, {})
  BY EnsuredGood
<1>2. x \in Entry /\ e.history \in Seq(Entry)
  BY <1>1 DEF Entry, Topics, Good, Document
<1>3. /\ f.filled = e.filled /\ f.status = status /\ f.plan = e.plan /\ f.limits = e.limits
      /\ f.overrides = e.overrides /\ f.history = <<x>> \o e.history
  BY <1>1 DEF WithStatus, Recorded, Good, Document
<1>4. f \in Document
  <2>1. <<x>> \o e.history \in Seq(Entry)
    BY <1>2, Pushed
  <2>2. f = [e EXCEPT !.status = status, !.history = <<x>> \o e.history]
    BY <1>1 DEF WithStatus, Recorded, Good, Document
  <2> HIDE DEF e, f, x
  <2> QED BY <1>1, <2>1, <2>2 DEF Good, Document
<1> HIDE DEF e
<1>5. Tells(f.history, "status", status, {"none", "active", "trial"})
  BY <1>2, <1>3, NewTells
<1>6. Tells(f.history, "plan", f.plan, {NoPlan})
  BY <1>1, <1>2, <1>3, OthersTell DEF Good, TrueHistory
<1>7. \A m \in Modules : Tells(f.history, m, f.overrides[m], {"unset"})
  BY <1>1, <1>2, <1>3, OthersTell, TenantConfigAssumption DEF Good, TrueHistory
<1> HIDE DEF f
<1>8. f.limits = f.plan
  BY <1>1, <1>3 DEF Good, TrueHistory
<1>9. Alike(d, f, {"status"})
  <2>1. Alike(e, f, {"status"})
    BY <1>3, AlikeFields
  <2> QED BY <2>1, <1>1 DEF Alike
<1> QED BY <1>1, <1>3, <1>4, <1>5, <1>6, <1>7, <1>8, <1>9 DEF Good, Proper, TrueHistory, f

LEMMA WithSwitchGood ==
  ASSUME NEW d, Good(d), NEW m \in Modules, NEW value \in Switches
  PROVE  /\ Good(WithSwitch(d, m, value)) /\ WithSwitch(d, m, value).filled
         /\ Alike(d, WithSwitch(d, m, value), {m})
<1> DEFINE e == Ensured(d)
           x == [about |-> m, value |-> value]
           f == WithSwitch(d, m, value)
           switches == [e.overrides EXCEPT ![m] = value]
<1>1. Good(e) /\ e.filled /\ e.status # "none" /\ Alike(d, e, {})
  BY EnsuredGood
<1>2. x \in Entry /\ e.history \in Seq(Entry) /\ e.overrides \in [Modules -> Switches]
  BY <1>1 DEF Entry, Topics, Good, Document
<1>3. /\ f.filled = e.filled /\ f.status = e.status /\ f.plan = e.plan /\ f.limits = e.limits
      /\ f.overrides = switches /\ f.history = <<x>> \o e.history
  BY <1>1 DEF WithSwitch, Recorded, Good, Document
<1>4. f \in Document
  <2>1. <<x>> \o e.history \in Seq(Entry)
    BY <1>2, Pushed
  <2>2. f = [e EXCEPT !.overrides = switches, !.history = <<x>> \o e.history]
    BY <1>1 DEF WithSwitch, Recorded, Good, Document
  <2>3. switches \in [Modules -> Switches]
    BY <1>2
  <2> HIDE DEF e, f, x, switches
  <2> QED BY <1>1, <2>1, <2>2, <2>3 DEF Good, Document
<1> HIDE DEF e
<1>5. \A n \in Modules : Tells(f.history, n, f.overrides[n], {"unset"})
  <2> TAKE n \in Modules
  <2>1. CASE n = m
    BY <2>1, <1>2, <1>3, NewTells
  <2>2. CASE n # m
    <3>1. Tells(e.history, n, e.overrides[n], {"unset"})
      BY <1>1 DEF Good, TrueHistory
    <3>2. f.overrides[n] = e.overrides[n]
      BY <2>2, <1>2, <1>3
    <3> QED BY <2>2, <3>1, <3>2, <1>2, <1>3, OthersTell
  <2> QED BY <2>1, <2>2
<1>6. Tells(f.history, "status", f.status, {"none", "active", "trial"})
  BY <1>1, <1>2, <1>3, OthersTell, TenantConfigAssumption DEF Good, TrueHistory
<1>7. Tells(f.history, "plan", f.plan, {NoPlan})
  BY <1>1, <1>2, <1>3, OthersTell, TenantConfigAssumption DEF Good, TrueHistory
<1> HIDE DEF f
<1>8. f.limits = f.plan
  BY <1>1, <1>3 DEF Good, TrueHistory
<1>9. Alike(d, f, {m})
  <2>1. \A n \in Modules : n \in {m} \/ f.overrides[n] = e.overrides[n]
    BY <1>2, <1>3
  <2>2. Says(f, "status") = Says(e, "status")
    BY <1>3, SaysOf
  <2>3. Alike(e, f, {m})
    BY <2>1, <2>2, <1>3, AlikeFields
  <2> QED BY <2>3, <1>1 DEF Alike
<1> QED BY <1>1, <1>3, <1>4, <1>5, <1>6, <1>7, <1>8, <1>9 DEF Good, Proper, TrueHistory, f

LEMMA WithSubscriptionGood ==
  ASSUME NEW d, Good(d), NEW p \in Plans, NEW id \in Nat
  PROVE  /\ Good(WithSubscription(d, p, id))
         /\ Alike(d, WithSubscription(d, p, id), {"plan", "status"})
<1> DEFINE e == WithStatus(WithPlan(d, p), "active")
           f == WithSubscription(d, p, id)
<1>1. Good(e) /\ e.filled /\ Alike(d, e, {"plan", "status"})
  BY WithPlanGood, WithStatusGood DEF Statuses, Alike
<1>2. f = [e EXCEPT !.yoco = id]
  BY DEF WithSubscription
<1> HIDE DEF e, f
<1>3. /\ f \in Document /\ f.filled /\ f.status = e.status /\ f.plan = e.plan
      /\ f.limits = e.limits /\ f.overrides = e.overrides /\ f.history = e.history
  BY <1>1, <1>2 DEF Good, Document
<1>4. Good(f) /\ Alike(e, f, {})
  BY <1>1, <1>3, OtherFields
<1> QED BY <1>1, <1>4 DEF f, Alike

-----------------------------------------------------------------------------
(* Every step keeps the invariant *)

LEMMA StoredGood ==
  ASSUME IInv
  PROVE  Good(config) /\ \A r \in Requests : req[r] \in Request /\ Good(req[r].doc)
<1>1. \A r \in Requests : req[r] \in Request /\ req[r].doc \in Document
  BY DEF IInv, TypeOK, Request
<1> QED BY <1>1 DEF IInv, TypeOK, HistoryTells, FlightOK, Good

LEMMA IdleOK == Idle \in Request /\ Good(Idle.doc) /\ FlightOK(Idle)
<1>1. Idle.doc = Empty /\ Idle.phase = "idle" /\ ~Idle.dirty /\ Answered(Idle) = {}
  BY DEF Idle, Answered
<1>2. Idle \in Request
  BY EmptyGood DEF Idle, Request, Good
<1> QED BY <1>1, <1>2, EmptyGood DEF FlightOK, Asked, Fresh, Good

\* A step that replaces one request and leaves the document alone.
LEMMA RequestStep ==
  ASSUME IInv, NEW r \in Requests, NEW q \in Request, Good(q.doc), FlightOK(q),
         req' = [req EXCEPT ![r] = q], UNCHANGED <<config, plans, told>>,
         created' \in Nat, live' \subseteq 1 .. created'
  PROVE  IInv'
<1>1. /\ req' \in [Requests -> Request]
      /\ \A x \in Requests : req'[x] = IF x = r THEN q ELSE req[x]
  BY DEF IInv, TypeOK
<1>2. \A x \in Requests : Proper(req'[x].doc) /\ FlightOK(req'[x])
  BY <1>1 DEF IInv, TypeOK, Good
<1>3. TypeOK'
  BY <1>1, <1>2 DEF IInv, TypeOK
<1>4. \A x \in Requests : FlightOK(req[x])'
  BY <1>2 DEF FlightOK, Asked, Fresh, Answered, Flagless
<1> QED BY <1>3, <1>4 DEF IInv, HistoryTells, ChangesKept

\* What a handler enters with.
Entering(phase, op, about, value, doc, dirty) ==
  [phase |-> phase, op |-> op, about |-> about, value |-> value, doc |-> doc,
   dirty |-> dirty, overtaken |-> {}]

\* A handler is entered with a document in order; one that it will write says of
\* everything it will not be an answer about what the stored one says.
LEMMA EnterStep ==
  ASSUME IInv, NEW r \in Requests, NEW q \in Request, Good(q.doc), Asked(q),
         q.dirty => Alike(config, q.doc, Answered(q)),
         req' = [req EXCEPT ![r] = q], UNCHANGED <<config, plans, live, created, told>>
  PROVE  IInv'
<1>1. Fresh(q)
  BY DEF Fresh, Alike, IInv, ChangesKept
<1>2. FlightOK(q)
  BY <1>1 DEF FlightOK, Good
<1>3. created' \in Nat /\ live' \subseteq 1 .. created'
  BY DEF IInv, TypeOK
<1> QED BY <1>2, <1>3, RequestStep

\* A handler whose answer is about none of the topics.
LEMMA TouchStep ==
  ASSUME IInv, NEW r \in Requests, NEW phase \in {"page", "store", "seed"}, NEW doc,
         NEW dirty \in BOOLEAN, Enter(r, phase, "other", "none", "none", doc, dirty),
         Good(doc), dirty => Alike(config, doc, {})
  PROVE  IInv'
<1> DEFINE q == Entering(phase, "other", "none", "none", doc, dirty)
<1>1. q \in Request /\ q.doc = doc /\ q.dirty = dirty
  BY DEF Entering, Request, Good
<1>2. Answered(q) = {} /\ Asked(q)
  BY DEF Entering, Answered, Asked
<1>3. req' = [req EXCEPT ![r] = q] /\ UNCHANGED <<config, plans, live, created, told>>
  BY DEF Enter, Entering
<1> HIDE DEF q
<1> QED BY <1>1, <1>2, <1>3, EnterStep

LEMMA AbortStep ==
  ASSUME IInv, NEW r \in Requests, req' = [req EXCEPT ![r] = Idle],
         UNCHANGED <<config, plans, told>>,
         created' \in Nat, live' \subseteq 1 .. created'
  PROVE  IInv'
BY IdleOK, RequestStep

LEMMA HandleStep ==
  ASSUME IInv, NEW r \in Requests, Handle(r)
  PROVE  IInv'
<1>1. /\ Good(config) /\ Replaced(config) \in BOOLEAN /\ Alike(config, config, {})
      /\ Good(Empty) /\ {"plan", "status"} \cup Modules = Topics
  BY StoredGood, EmptyGood DEF Replaced, Good, Document, Alike, Topics
<1>2. ASSUME NEW p \in Plans, AssignPlan(r, p) PROVE IInv'
  <2> DEFINE d == WithPlan(config, p)
             q == Entering("store", "change", "plan", p, d, TRUE)
  <2>1. Good(d) /\ Alike(config, d, {"plan"})
    BY <1>1, WithPlanGood
  <2>2. req' = [req EXCEPT ![r] = q] /\ UNCHANGED <<config, plans, live, created, told>>
    BY <1>2 DEF AssignPlan, Enter, Entering
  <2> HIDE DEF d
  <2>3. q \in Request /\ q.doc = d /\ Answered(q) = {"plan"} /\ Asked(q)
    BY <1>1, <2>1 DEF Entering, Request, Answered, Asked, Good
  <2> HIDE DEF q
  <2> QED BY <2>1, <2>2, <2>3, EnterStep
<1>3. ASSUME NEW p \in Plans, Setup(r, p) PROVE IInv'
  <2> DEFINE q == Entering("setup", "setup", "plan", p, config, Replaced(config))
  <2>1. req' = [req EXCEPT ![r] = q] /\ UNCHANGED <<config, plans, live, created, told>>
    BY <1>3 DEF Setup, Enter, Entering
  <2>2. /\ q \in Request /\ q.doc = config /\ Answered(q) = {"plan", "status"}
        /\ Asked(q)
    BY <1>1 DEF Entering, Request, Answered, Asked, Flagless, Good
  <2> HIDE DEF q
  <2>3. Alike(config, q.doc, Answered(q))
    BY <2>2 DEF Alike
  <2> QED BY <1>1, <2>1, <2>2, <2>3, EnterStep
<1>4. ASSUME NEW m \in Modules, NEW value \in {"on", "off"}, SetOverride(r, m, value)
      PROVE  IInv'
  <2> DEFINE d == WithSwitch(config, m, value)
             q == Entering("store", "change", m, value, d, TRUE)
  <2>1. value \in Switches
    BY <1>4 DEF Switches
  <2>2. Good(d) /\ Alike(config, d, {m})
    BY <1>1, <2>1, WithSwitchGood
  <2>3. req' = [req EXCEPT ![r] = q] /\ UNCHANGED <<config, plans, live, created, told>>
    BY <1>4 DEF SetOverride, Enter, Entering
  <2> HIDE DEF d
  <2>4. q \in Request /\ q.doc = d /\ Answered(q) = {m} /\ Asked(q)
    BY <1>1, <2>1, <2>2 DEF Entering, Request, Answered, Asked, Good
  <2> HIDE DEF q
  <2> QED BY <2>2, <2>3, <2>4, EnterStep
<1>5. ASSUME NEW status \in Controls, SetStatus(r, status) PROVE IInv'
  <2> DEFINE d == WithStatus(config, status)
             q == Entering("store", "change", "status", status, d, Replaced(config))
  <2>1. status \in Statuses \ {"none"}
    BY TenantConfigAssumption DEF Statuses
  <2>2. Good(d) /\ Alike(config, d, {"status"})
    BY <1>1, <2>1, WithStatusGood
  <2>3. req' = [req EXCEPT ![r] = q] /\ UNCHANGED <<config, plans, live, created, told>>
    BY <1>5 DEF SetStatus, Enter, Entering
  <2> HIDE DEF d
  <2>4. q \in Request /\ q.doc = d /\ Answered(q) = {"status"} /\ Asked(q)
    BY <1>1, <2>1, <2>2 DEF Entering, Request, Answered, Asked, Flagless, Good
  <2> HIDE DEF q
  <2> QED BY <2>2, <2>3, <2>4, EnterStep
<1>6. ASSUME NEW step \in Steps, CompleteStep(r, step) PROVE IInv'
  <2>1. Enter(r, "store", "other", "none", "none", Empty, FALSE)
    BY <1>6 DEF CompleteStep, Touch
  <2> QED BY <1>1, <2>1, TouchStep
<1>7. ASSUME PutProfile(r) PROVE IInv'
  <2> DEFINE d == [config EXCEPT !.filled = TRUE]
             e == IF Replaced(config) THEN d ELSE Empty
  <2>1. /\ d \in Document /\ d.filled /\ d.status = config.status /\ d.plan = config.plan
        /\ d.limits = config.limits /\ d.overrides = config.overrides
        /\ d.history = config.history
    BY <1>1 DEF Good, Document
  <2>2. Enter(r, "store", "other", "none", "none", e, Replaced(config))
    BY <1>7 DEF PutProfile, Touch
  <2> HIDE DEF d
  <2>3. Good(d) /\ Alike(config, d, {})
    BY <1>1, <2>1, OtherFields
  <2>4. Good(e) /\ (Replaced(config) => Alike(config, e, {}))
    BY <1>1, <2>3
  <2> HIDE DEF e
  <2> QED BY <1>1, <2>2, <2>4, TouchStep
<1>8. ASSUME View(r) PROVE IInv'
  <2> DEFINE d == Ensured(config)
             e == IF Replaced(config) THEN d ELSE Empty
  <2>1. Good(d) /\ Alike(config, d, {})
    BY <1>1, EnsuredGood
  <2>2. Enter(r, "seed", "other", "none", "none", e, Replaced(config))
    BY <1>8 DEF View, Touch
  <2> HIDE DEF d
  <2>3. Good(e) /\ (Replaced(config) => Alike(config, e, {}))
    BY <1>1, <2>1
  <2> HIDE DEF e
  <2> QED BY <1>1, <2>2, <2>3, TouchStep
<1>9. ASSUME Cancel(r) PROVE IInv'
  <2> DEFINE q == Entering("cancel", "cancel", "status", "cancelled", config, FALSE)
  <2>1. req' = [req EXCEPT ![r] = q] /\ UNCHANGED <<config, plans, live, created, told>>
    BY <1>9 DEF Cancel, Enter, Entering
  <2>2. q \in Request /\ q.doc = config /\ ~q.dirty /\ Asked(q)
    BY <1>1 DEF Entering, Request, Answered, Asked, Flagless, Good, Statuses
  <2> HIDE DEF q
  <2> QED BY <1>1, <2>1, <2>2, EnterStep
<1>10. ASSUME Open(r) PROVE IInv'
  BY <1>1, <1>10, TouchStep DEF Open
<1> QED BY <1>2, <1>3, <1>4, <1>5, <1>6, <1>7, <1>8, <1>9, <1>10 DEF Handle

LEMMA UpdateTenantStep ==
  ASSUME IInv, NEW r \in Requests, UpdateTenant(r)
  PROVE  IInv'
<1>1. PICK doc \in {Empty, req[r].doc} :
        req' = [req EXCEPT ![r] = [@ EXCEPT !.phase = "store", !.op = "patch", !.doc = doc,
                                            !.dirty = (doc # config)]]
  BY DEF UpdateTenant
<1> DEFINE q == [req[r] EXCEPT !.phase = "store", !.op = "patch", !.doc = doc,
                               !.dirty = (doc # config)]
<1>2. Good(doc) /\ req[r] \in Request
  BY StoredGood, EmptyGood
<1>3. q \in Request /\ q.doc = doc /\ q.op = "patch" /\ q.phase = "store"
  BY <1>2 DEF Request, Good
<1>4. req' = [req EXCEPT ![r] = q]
  BY <1>1 DEF IInv, TypeOK
<1> HIDE DEF q
<1>5. FlightOK(q)
  <2>1. Answered(q) = IF q.dirty THEN Topics ELSE {}
    BY <1>3 DEF Answered
  <2> QED BY <1>2, <1>3, <2>1 DEF FlightOK, Asked, Fresh, Good
<1>6. created' \in Nat /\ live' \subseteq 1 .. created'
  BY DEF UpdateTenant, IInv, TypeOK
<1> QED BY <1>2, <1>3, <1>4, <1>5, <1>6, RequestStep DEF UpdateTenant

LEMMA SubscribedStep ==
  ASSUME IInv, NEW r \in Requests, Subscribed(r)
  PROVE  IInv'
<1> DEFINE id == created + 1
           d == WithSubscription(req[r].doc, req[r].value, id)
           q == [req[r] EXCEPT !.phase = "store", !.doc = d]
<1>1. created' = id /\ id \in Nat /\ live' = live \cup {id} /\ live' \subseteq 1 .. id
  BY DEF Subscribed, IInv, TypeOK
<1>2. UNCHANGED <<config, plans, told>>
  BY DEF Subscribed
<1>3. req' = [req EXCEPT ![r] = q] \/ req' = [req EXCEPT ![r] = Idle]
  BY DEF Subscribed, IInv, TypeOK
<1>4. CASE req' = [req EXCEPT ![r] = q]
  <2>1. req[r] \in Request /\ Good(req[r].doc) /\ FlightOK(req[r])
    BY StoredGood DEF IInv
  <2>2. req[r].op = "setup" /\ req[r].value \in Plans
    BY <2>1 DEF Subscribed, FlightOK, Asked
  <2>3. Good(d) /\ Alike(req[r].doc, d, {"plan", "status"})
    BY <1>1, <2>1, <2>2, WithSubscriptionGood
  <2> HIDE DEF d
  <2>4. /\ q \in Request /\ q.doc = d /\ q.op = "setup" /\ q.phase = "store"
        /\ q.dirty = req[r].dirty /\ q.overtaken = req[r].overtaken
    BY <2>1, <2>2, <2>3 DEF Request, Good
  <2> HIDE DEF q
  <2>5. Answered(q) = {"plan", "status"} /\ Answered(req[r]) = {"plan", "status"} /\ Flagless(q)
    BY <2>2, <2>4 DEF Answered, Flagless
  <2>6. FlightOK(q)
    <3>1. Fresh(q)
      BY <2>1, <2>3, <2>4, <2>5 DEF FlightOK, Fresh, Alike
    <3> QED BY <2>3, <2>4, <2>5, <3>1 DEF FlightOK, Asked, Good, Topics
  <2> HIDE DEF id
  <2> QED BY <1>1, <1>2, <1>4, <2>3, <2>4, <2>6, RequestStep
<1>5. CASE req' = [req EXCEPT ![r] = Idle]
  BY <1>1, <1>2, <1>5, AbortStep
<1> QED BY <1>3, <1>4, <1>5

LEMMA CancelledStep ==
  ASSUME IInv, NEW r \in Requests, Cancelled(r)
  PROVE  IInv'
<1> DEFINE d == WithStatus(req[r].doc, req[r].value)
           q == [req[r] EXCEPT !.phase = "store", !.doc = d]
<1>1. created' \in Nat /\ live' \subseteq 1 .. created' /\ UNCHANGED <<config, plans, told>>
  BY DEF Cancelled, IInv, TypeOK
<1>2. req' = [req EXCEPT ![r] = q] \/ req' = [req EXCEPT ![r] = Idle]
  BY DEF Cancelled, IInv, TypeOK
<1>3. CASE req' = [req EXCEPT ![r] = q]
  <2>1. req[r] \in Request /\ Good(req[r].doc) /\ FlightOK(req[r])
    BY StoredGood DEF IInv
  <2>2. Good(d) /\ ~req[r].dirty
    <3>1. req[r].phase = "cancel"
      BY DEF Cancelled
    <3>2. req[r].value = "cancelled" /\ ~req[r].dirty
      BY <2>1, <3>1 DEF FlightOK, Asked
    <3> QED BY <2>1, <3>2, WithStatusGood DEF Statuses
  <2> HIDE DEF d
  <2>3. /\ q \in Request /\ q.doc = d /\ q.op = req[r].op /\ q.phase = "store"
        /\ q.about = req[r].about /\ q.value = req[r].value
        /\ q.dirty = req[r].dirty /\ q.overtaken = req[r].overtaken
    BY <2>1, <2>2 DEF Request, Good
  <2> HIDE DEF q
  <2>4. FlightOK(q)
    <3>1. Flagless(q) = Flagless(req[r]) /\ Answered(q) = Answered(req[r])
      BY <2>3 DEF Flagless, Answered
    <3> QED BY <2>1, <2>2, <2>3, <3>1 DEF FlightOK, Asked, Fresh, Good
  <2> QED BY <1>1, <1>3, <2>2, <2>3, <2>4, RequestStep
<1>4. CASE req' = [req EXCEPT ![r] = Idle]
  BY <1>1, <1>4, AbortStep
<1> QED BY <1>2, <1>3, <1>4

\* What an answer tells is what the document then stored says, or counts as unsure or
\* as never stored.
LEMMA TellingTrue ==
  ASSUME IInv, NEW r \in Requests, NEW topic \in Topics
  PROVE  /\ Telling(req[r])[topic] \in Values \cup {Unsure, Unstored}
         /\ Telling(req[r])[topic] \in
              {Unsure, Unstored, Says(IF req[r].dirty THEN req[r].doc ELSE config, topic)}
<1> DEFINE q == req[r]
           new == Telling(q)[topic]
<1>1. /\ q.dirty \in BOOLEAN /\ Asked(q) /\ Fresh(q)
      /\ told[topic] \in {Unsure, Unstored, Says(config, topic)}
      /\ told[topic] \in Values \cup {Unsure, Unstored}
      /\ Says(q.doc, topic) \in Values
  BY StoredGood, SaysTyped DEF IInv, TypeOK, ChangesKept, FlightOK, Request, Good
<1>2. new = IF topic \in Answered(q)
            THEN IF Flagless(q) /\ ~q.dirty /\ Says(q.doc, topic) # Says(config, topic)
                 THEN Unstored ELSE Says(q.doc, topic)
            ELSE IF q.dirty /\ topic \in q.overtaken THEN Unsure ELSE told[topic]
  BY DEF Telling
<1> HIDE DEF q, new
<1>3. CASE topic \in Answered(q)
  <2>1. q.dirty \/ Flagless(q)
    BY <1>1, <1>3 DEF Asked
  <2> QED BY <1>1, <1>2, <1>3, <2>1 DEF q, new
<1>4. CASE topic \notin Answered(q) /\ q.dirty
  <2>1. topic \in q.overtaken \/ told[topic] \in {Unsure, Unstored, Says(q.doc, topic)}
    BY <1>1, <1>4 DEF Fresh
  <2> QED BY <1>1, <1>2, <1>4, <2>1 DEF q, new
<1>5. CASE topic \notin Answered(q) /\ ~q.dirty
  BY <1>1, <1>2, <1>5 DEF q, new
<1> QED BY <1>3, <1>4, <1>5

LEMMA WriteStep ==
  ASSUME IInv, NEW r \in Requests, Write(r),
         plans' \in [Plans -> {"absent", "active", "archived"}]
  PROVE  IInv'
<1> DEFINE d == IF req[r].dirty THEN req[r].doc ELSE config
           seen(x) == req[x].overtaken \cup (Answered(req[r]) \ Answered(req[x]))
<1>1. Good(d) /\ config' = d
  BY StoredGood DEF Write
<1>2. \A x \in Requests :
        req'[x] = IF x = r THEN Idle
                  ELSE IF req[x].dirty THEN [req[x] EXCEPT !.overtaken = seen(x)]
                  ELSE req[x]
  BY DEF Write
<1>3. req' = [x \in Requests |-> req'[x]]
  BY DEF Write
<1>4. told' = Telling(req[r])
  BY DEF Write
<1>5. \A topic \in Topics \ Answered(req[r]) : told'[topic] \in {Unsure, told[topic]}
  BY <1>4 DEF Telling
<1>6. Answered(req[r]) \subseteq Topics
  BY DEF IInv, FlightOK, Asked
<1>7. ASSUME NEW x \in Requests
      PROVE  req'[x] \in Request /\ Proper(req'[x].doc) /\ FlightOK(req[x])'
  <2>1. CASE x = r
    <3>1. req'[x] = Idle
      BY <1>2, <2>1
    <3> QED BY <3>1, IdleOK DEF Good, FlightOK, Asked, Fresh, Idle, Answered
  <2>2. req[x] \in Request /\ Good(req[x].doc) /\ FlightOK(req[x])
    BY StoredGood DEF IInv
  <2>3. CASE x # r /\ ~req[x].dirty
    <3>1. req'[x] = req[x]
      BY <1>2, <2>3
    <3> QED BY <2>2, <2>3, <3>1 DEF Good, FlightOK, Asked, Fresh, Flagless, Answered
  <2>4. CASE x # r /\ req[x].dirty
    <3> DEFINE q == [req[x] EXCEPT !.overtaken = seen(x)]
    <3>1. req'[x] = q
      BY <1>2, <2>4
    <3>2. seen(x) \subseteq Topics
      BY <2>2, <1>6 DEF Request
    <3>3. /\ q \in Request
          /\ q.phase = req[x].phase /\ q.op = req[x].op /\ q.about = req[x].about
          /\ q.value = req[x].value /\ q.doc = req[x].doc /\ q.dirty = req[x].dirty
          /\ q.overtaken = seen(x)
      BY <2>2, <3>2 DEF Request
    <3> HIDE DEF q
    <3>4. Answered(q) = Answered(req[x]) /\ Flagless(q) = Flagless(req[x])
      BY <3>3 DEF Answered, Flagless
    <3>5. ASSUME NEW topic \in Topics \ (q.overtaken \cup Answered(q))
          PROVE  told'[topic] \in {Unsure, Unstored, Says(q.doc, topic)}
      <4>1. topic \notin Answered(req[r]) /\ topic \notin req[x].overtaken
        BY <3>3, <3>4, <3>5
      <4>2. told[topic] \in {Unsure, Unstored, Says(req[x].doc, topic)}
        BY <2>2, <2>4, <3>4, <3>5, <4>1 DEF FlightOK, Fresh
      <4> QED BY <1>5, <3>3, <4>1, <4>2
    <3>6. FlightOK(req[x])'
      <4>1. Asked(q) /\ TrueHistory(q.doc)
        BY <2>2, <3>3, <3>4 DEF FlightOK, Asked
      <4>2. Fresh(req[x])'
        BY <3>1, <3>5 DEF Fresh, Answered, Says
      <4> QED BY <3>1, <4>1, <4>2 DEF FlightOK, Asked, Flagless, Answered, TrueHistory, Tells
    <3> QED BY <2>2, <3>1, <3>3, <3>6 DEF Good
  <2> QED BY <2>1, <2>3, <2>4, <2>2 DEF Request
<1>8. /\ told' \in [Topics -> Values \cup {Unsure, Unstored}]
      /\ \A topic \in Topics : told'[topic] \in {Unsure, Unstored, Says(d, topic)}
  <2>1. told' = [topic \in Topics |-> Telling(req[r])[topic]]
    BY <1>4 DEF Telling
  <2> QED BY <2>1, TellingTrue
<1>9. created' \in Nat /\ live' \subseteq 1 .. created'
  BY DEF Write, IInv, TypeOK
<1> HIDE DEF d, seen
<1>10. req' \in [Requests -> Request]
  BY <1>3, <1>7
<1>11. TypeOK'
  BY <1>1, <1>7, <1>8, <1>9, <1>10 DEF TypeOK, Good
<1>12. HistoryTells' /\ ChangesKept'
  BY <1>1, <1>8 DEF HistoryTells, ChangesKept, Good
<1> QED BY <1>7, <1>11, <1>12 DEF IInv

\* A step that touches the plans only.
LEMMA PlansStep ==
  ASSUME IInv, UNCHANGED <<config, live, created, req, told>>,
         plans' \in [Plans -> {"absent", "active", "archived"}]
  PROVE  IInv'
BY DEF IInv, TypeOK, HistoryTells, ChangesKept, FlightOK, Asked, Fresh, Answered, Flagless

LEMMA SeedsTyped ==
  ASSUME IInv
  PROVE  Seeds \in [Plans -> {"absent", "active", "archived"}]
BY DEF Seeds, IInv, TypeOK

LEMMA InvInit == Init => IInv
<1> SUFFICES ASSUME Init PROVE IInv
  OBVIOUS
<1> DEFINE filled == [Empty EXCEPT !.filled = TRUE]
           trial == [Empty EXCEPT !.filled = TRUE, !.status = "trial", !.step = "account_created"]
<1>1. Good(filled)
  <2>1. /\ filled \in Document /\ filled.filled /\ filled.status = Empty.status
        /\ filled.plan = Empty.plan /\ filled.limits = Empty.limits
        /\ filled.overrides = Empty.overrides /\ filled.history = Empty.history
    BY EmptyGood DEF Good, Document
  <2> HIDE DEF filled
  <2> QED BY <2>1, EmptyGood, OtherFields
<1>2. Good(trial)
  <2>1. /\ trial \in Document /\ trial.filled /\ trial.status = "trial"
        /\ trial.plan = Empty.plan /\ trial.limits = Empty.limits
        /\ trial.overrides = Empty.overrides /\ trial.history = <<>>
    BY EmptyGood DEF Good, Document, Statuses
  <2> HIDE DEF trial
  <2> QED BY <2>1, EmptyGood DEF Good, Proper, TrueHistory, Tells
<1>3. Good(config)
  <2>1. config \in {Empty, filled, trial}
    BY DEF Init
  <2> HIDE DEF filled, trial
  <2> QED BY <2>1, <1>1, <1>2, EmptyGood
<1>4. /\ told \in [Topics -> Values \cup {Unsure, Unstored}]
      /\ \A topic \in Topics : told[topic] = Says(config, topic)
  BY <1>3, SaysTyped DEF Init, Good
<1>5. \A r \in Requests : req[r] = Idle
  BY DEF Init
<1>6. req \in [Requests -> Request] /\ \A r \in Requests : Proper(req[r].doc) /\ FlightOK(req[r])
  BY <1>5, IdleOK DEF Init, Good
<1>7. TypeOK
  BY <1>3, <1>4, <1>6 DEF Init, TypeOK, Good
<1>8. HistoryTells /\ ChangesKept
  BY <1>3, <1>4 DEF HistoryTells, ChangesKept, Good
<1> QED BY <1>6, <1>7, <1>8 DEF IInv

LEMMA InvNext == IInv /\ [Next]_vars => IInv'
<1> SUFFICES ASSUME IInv, [Next]_vars PROVE IInv'
  OBVIOUS
<1>1. ASSUME NEW r \in Requests, Handle(r) PROVE IInv'
  BY <1>1, HandleStep
<1>2. ASSUME NEW r \in Requests, UpdateTenant(r) PROVE IInv'
  BY <1>2, UpdateTenantStep
<1>3. ASSUME NEW r \in Requests, Subscribed(r) PROVE IInv'
  BY <1>3, SubscribedStep
<1>4. ASSUME NEW r \in Requests, Cancelled(r) PROVE IInv'
  BY <1>4, CancelledStep
<1>5. ASSUME NEW r \in Requests, Abort(r) PROVE IInv'
  BY <1>5, AbortStep DEF Abort, IInv, TypeOK
<1>6. ASSUME NEW r \in Requests, Commit(r) PROVE IInv'
  BY <1>6, WriteStep DEF Commit, IInv, TypeOK
<1>7. ASSUME NEW r \in Requests, CommitSeeds(r) PROVE IInv'
  BY <1>7, WriteStep, SeedsTyped DEF CommitSeeds
<1>8. ASSUME NEW p \in Plans, NEW state \in {"active", "archived"}, KeepPlan(p, state)
      PROVE  IInv'
  BY <1>8, PlansStep DEF KeepPlan, IInv, TypeOK
<1>9. ASSUME Seed PROVE IInv'
  BY <1>9, PlansStep, SeedsTyped DEF Seed
<1>10. CASE UNCHANGED vars
  BY <1>10, PlansStep DEF vars, IInv, TypeOK
<1> QED BY <1>1, <1>2, <1>3, <1>4, <1>5, <1>6, <1>7, <1>8, <1>9, <1>10 DEF Next

-----------------------------------------------------------------------------
(* Theorems *)

\* The invariant holds of every behaviour.
THEOREM Invariance == Spec => []IInv
BY InvInit, InvNext, PTL DEF Spec

\* The stored document, those in memory and on screens and the plans keep their
\* types, and no status is missing beside a history.
THEOREM TypeCorrect == Spec => []TypeOK
<1>1. IInv => TypeOK
  BY DEF IInv
<1> QED BY <1>1, Invariance, PTL

\* However handlers overwrite each other's documents and whatever a page puts
\* back, the history is true of the document it is stored in.
THEOREM HistoryIsTrue == Spec => []HistoryTells
<1>1. IInv => HistoryTells
  BY DEF IInv
<1> QED BY <1>1, Invariance, PTL

\* The plan, the status and each override stay as the administrator was last told,
\* until a document loaded before that answer is stored over them; excepted are the
\* answers of handlers that do not flag the document, about what was never written.
THEOREM ChangesStay == Spec => []ChangesKept
<1>1. IInv => ChangesKept
  BY DEF IInv
<1> QED BY <1>1, Invariance, PTL
=============================================================================
