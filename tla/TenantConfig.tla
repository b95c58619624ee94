---------------------------- MODULE TenantConfig ----------------------------
(***************************************************************************)
(* tenants.config: one JSON document in which the subscription of a tenant *)
(* (plugins/subscriptions/routes.py), its onboarding                       *)
(* (services/business_onboarding.py) and its settings                      *)
(* (plugins/tenants/routes.py) live side by side.                          *)
(*                                                                         *)
(* A handler loads the document, changes the loaded object in place and    *)
(* commits.  The column is plain JSON: the commit writes the whole         *)
(* document if it was flagged as modified or compares unequal to the       *)
(* loaded one, and an object that was changed in place equals itself.      *)
(***************************************************************************)
EXTENDS Integers, Sequences

CONSTANTS
  Requests,          \* handlers in flight and pages with a document on them
  Plans,             \* rows of subscription_plans
  Seeded,            \* those that _seed_default_plans_if_empty inserts
  Modules,           \* keys of module overrides
  Steps,             \* steps of the onboarding that follow its beginning
  Controls,          \* statuses that trials, pauses and their ends set
  NoPlan,
  Unsure, Unstored,  \* an answer overwritten since, and one that was never written
  MaxChanges,        \* bound: entries of the history
  MaxSubscriptions   \* bound: subscriptions created at the processor

ASSUME TenantConfigAssumption ==
  /\ NoPlan \notin Plans /\ Seeded \subseteq Plans
  /\ "plan" \notin Modules /\ "status" \notin Modules
  /\ Controls \subseteq {"trialing", "active", "paused"}
  /\ MaxChanges \in Nat /\ MaxSubscriptions \in Nat

VARIABLES
  config,   \* the stored document
  plans,    \* subscription_plans
  live,     \* external: the subscriptions the processor bills
  created,  \* how many it ever created
  req,      \* the handlers in flight and pages open, each with its document
  told      \* history: what was last answered ok, of each topic

vars == <<config, plans, live, created, req, told>>

Statuses == {"none", "active", "trial", "trialing", "paused", "cancelled"}
Switches == {"unset", "on", "off"}

\* What an administrator changes, and is answered about.
Topics == {"plan", "status"} \cup Modules

Entry == [about : Topics, value : Plans \cup Statuses \cup Switches]

\* filled: the document has a key; limits: the plan whose module limits are stored;
\* yoco: the processor's id of the subscription; history: the newest entry first.
Document == [filled : BOOLEAN, status : Statuses, plan : Plans \cup {NoPlan},
             limits : Plans \cup {NoPlan}, overrides : [Modules -> Switches],
             yoco : Nat, step : {"none", "account_created"} \cup Steps, history : Seq(Entry)]

Empty == [filled |-> FALSE, status |-> "none", plan |-> NoPlan, limits |-> NoPlan,
          overrides |-> [m \in Modules |-> "unset"], yoco |-> 0, step |-> "none",
          history |-> <<>>]

\* dirty: the commit writes the document; overtaken: then, the topics of which
\* something was answered since the document was loaded.
Idle == [phase |-> "idle", op |-> "none", about |-> "none", value |-> "none",
         doc |-> Empty, dirty |-> FALSE, overtaken |-> {}]

Request == [phase : {"idle", "page", "setup", "cancel", "store", "seed"},
            op : {"none", "change", "setup", "cancel", "patch", "other"},
            about : {"none"} \cup Topics,
            value : {"none"} \cup Plans \cup Statuses \cup Switches,
            doc : Document, dirty : BOOLEAN, overtaken : SUBSET Topics]

\* What the code that reads a document takes it to say: without a status, it is
\* active.
Says(d, topic) ==
  CASE topic = "plan" -> d.plan
    [] topic = "status" -> IF d.status = "none" THEN "active" ELSE d.status
    [] topic \in Modules -> d.overrides[topic]

Values == {NoPlan} \cup Plans \cup Statuses \cup Switches

ASSUME AnswersAssumption == Unsure \notin Values /\ Unstored \notin Values /\ Unsure # Unstored

\* The empty document says nothing; one that has been changed has a status.
Proper(d) == /\ ~d.filled => d = Empty
             /\ d.history # <<>> => d.status # "none"

TypeOK ==
  /\ config \in Document /\ Proper(config)
  /\ plans \in [Plans -> {"absent", "active", "archived"}]
  /\ created \in Nat /\ live \subseteq 1..created
  /\ req \in [Requests -> Request] /\ \A r \in Requests : Proper(req[r].doc)
  /\ told \in [Topics -> Values \cup {Unsure, Unstored}]

\* A tenant created without a config, by the seed scripts, or by create_business.
Init ==
  /\ config \in {Empty, [Empty EXCEPT !.filled = TRUE],
                 [Empty EXCEPT !.filled = TRUE, !.status = "trial", !.step = "account_created"]}
  /\ plans = [p \in Plans |-> "absent"]
  /\ live = {} /\ created = 0
  /\ req = [r \in Requests |-> Idle]
  /\ told = [topic \in Topics |-> Says(config, topic)]

-----------------------------------------------------------------------------
(* What the handlers do to the document they have loaded *)

\* Mutant of Ensured: the new structure is not put into the document.
EnsuredApart(d) == [d EXCEPT !.status = IF @ = "none" THEN "active" ELSE @]

\* _ensure_subscription_struct
Ensured(d) == [d EXCEPT !.filled = TRUE, !.status = IF @ = "none" THEN "active" ELSE @]

\* Mutant of Recorded: the entry goes to the end.
RecordedLast(d, about, value) ==
  [d EXCEPT !.history = Append(@, [about |-> about, value |-> value])]

\* _record_history
Recorded(d, about, value) ==
  [d EXCEPT !.history = <<[about |-> about, value |-> value]>> \o @]

WithPlan(d, p) == Recorded([Ensured(d) EXCEPT !.plan = p, !.limits = p], "plan", p)

WithSwitch(d, m, value) == Recorded([Ensured(d) EXCEPT !.overrides[m] = value], m, value)

WithStatus(d, status) == Recorded([Ensured(d) EXCEPT !.status = status], "status", status)

\* subscription.setup is an entry about the plan and the status.
WithSubscription(d, p, id) == [WithStatus(WithPlan(d, p), "active") EXCEPT !.yoco = id]

\* Without the flag only a document that was empty is written: then the
\* handler changes a new object instead of the loaded one.
Replaced(d) == ~d.filled

Room(n) == Len(config.history) + n <= MaxChanges

-----------------------------------------------------------------------------
(* Handlers *)

Enter(r, phase, op, about, value, doc, dirty) ==
  /\ req[r].phase = "idle"
  /\ req' = [req EXCEPT ![r] = [phase |-> phase, op |-> op, about |-> about, value |-> value,
                                doc |-> doc, dirty |-> dirty, overtaken |-> {}]]
  /\ UNCHANGED <<config, plans, live, created, told>>

\* Mutant of AssignPlan: flag_modified is forgotten.
AssignPlanUnflagged(r, p) ==
  /\ plans[p] = "active" /\ Room(1)
  /\ Enter(r, "store", "change", "plan", p, WithPlan(config, p), Replaced(config))

\* assign_plan, of a plan that is there and not archived.
AssignPlan(r, p) ==
  /\ plans[p] = "active" /\ Room(1)
  /\ Enter(r, "store", "change", "plan", p, WithPlan(config, p), TRUE)

\* set_override
SetOverride(r, m, value) ==
  /\ Room(1)
  /\ Enter(r, "store", "change", m, value, WithSwitch(config, m, value), TRUE)

\* start_trial, cancel_trial, pause_subscription and resume_subscription.
SetStatus(r, status) ==
  /\ Room(1)
  /\ Enter(r, "store", "change", "status", status, WithStatus(config, status), Replaced(config))

\* A handler that answers nothing about the topics: a document that it does not
\* write, it drops.
Touch(r, phase, doc, dirty) ==
  Enter(r, phase, "other", "none", "none", IF dirty THEN doc ELSE Empty, dirty)

\* put_billing_profile
PutProfile(r) == Touch(r, "store", [config EXCEPT !.filled = TRUE], Replaced(config))

\* complete_onboarding_step: steps may be completed in any order.
CompleteStep(r, step) == Touch(r, "store", [config EXCEPT !.filled = TRUE, !.step = step], FALSE)

\* get_tenant: an administrator has the document on the screen.
Open(r) == Enter(r, "page", "other", "none", "none", config, FALSE)

\* update_tenant with a config, as it was on the screen or empty: it takes the
\* place of whatever is stored by now.
UpdateTenant(r) ==
  /\ req[r].phase = "page"
  /\ \E doc \in {Empty, req[r].doc} :
       req' = [req EXCEPT ![r] = [@ EXCEPT !.phase = "store", !.op = "patch", !.doc = doc,
                                           !.dirty = (doc # config)]]
  /\ UNCHANGED <<config, plans, live, created, told>>

\* get_tenant_subscription seeds the plans when it finds none, and commits.
View(r) ==
  /\ \A p \in Plans : plans[p] = "absent"
  /\ Touch(r, "seed", Ensured(config), Replaced(config))

\* setup_subscription calls the processor before it changes the document.
Setup(r, p) ==
  /\ plans[p] = "active" /\ Room(2) /\ created < MaxSubscriptions
  /\ Enter(r, "setup", "setup", "plan", p, config, Replaced(config))

\* cancel_subscription, too; without an id it is answered 404.  The document is
\* not empty, so that the entry it will add is never stored.
Cancel(r) ==
  /\ config.yoco # 0
  /\ Enter(r, "cancel", "cancel", "status", "cancelled", config, FALSE)

\* The processor creates the subscription, whether its answer arrives or not.
Subscribed(r) ==
  LET id == created + 1
      doc == WithSubscription(req[r].doc, req[r].value, id) IN
  /\ req[r].phase = "setup"
  /\ created' = id /\ live' = live \cup {id}
  /\ \/ req' = [req EXCEPT ![r] = [@ EXCEPT !.phase = "store", !.doc = doc]]
     \/ req' = [req EXCEPT ![r] = Idle]
  /\ UNCHANGED <<config, plans, told>>

\* The processor cancels it.
Cancelled(r) ==
  LET doc == WithStatus(req[r].doc, req[r].value) IN
  /\ req[r].phase = "cancel"
  /\ live' = live \ {req[r].doc.yoco}
  /\ \/ req' = [req EXCEPT ![r] = [@ EXCEPT !.phase = "store", !.doc = doc]]
     \/ req' = [req EXCEPT ![r] = Idle]
  /\ UNCHANGED <<config, plans, created, told>>

\* A call that fails, an exception or a crash before the commit, a page closed.
Abort(r) ==
  /\ req[r].phase # "idle"
  /\ req' = [req EXCEPT ![r] = Idle]
  /\ UNCHANGED <<config, plans, live, created, told>>

\* What an answer ok is about: setup sets the plan and the status, and the answer
\* of update_tenant shows the document.
Answered(q) ==
  CASE q.op = "setup" -> {"plan", "status"}
    [] q.op \in {"change", "cancel"} -> {q.about}
    [] q.op = "patch" -> IF q.dirty THEN Topics ELSE {}
    [] OTHER -> {}

\* The handlers that never flag the document.
Flagless(q) == q.about = "status" \/ q.op = "setup"

\* An answer tells what the document of its handler says; without the flag it may
\* never be written.  What was told before is unsure once it is overwritten from
\* a document loaded earlier.
Telling(q) ==
  [topic \in Topics |->
     IF topic \in Answered(q)
     THEN IF Flagless(q) /\ ~q.dirty /\ Says(q.doc, topic) # Says(config, topic)
          THEN Unstored ELSE Says(q.doc, topic)
     ELSE IF q.dirty /\ topic \in q.overtaken THEN Unsure ELSE told[topic]]

\* The flush writes the document or not; the handler answers ok.
Write(r) ==
  /\ config' = IF req[r].dirty THEN req[r].doc ELSE config
  /\ told' = Telling(req[r])
  /\ req' = [q \in Requests |->
       IF q = r THEN Idle
       ELSE IF req[q].dirty THEN [req[q] EXCEPT !.overtaken = @ \cup (Answered(req[r]) \ Answered(req[q]))]
       ELSE req[q]]
  /\ UNCHANGED <<live, created>>

Commit(r) ==
  /\ req[r].phase = "store"
  /\ Write(r)
  /\ UNCHANGED plans

Seeds == [p \in Plans |-> IF p \in Seeded THEN "active" ELSE plans[p]]

\* The commit of the plans takes the document with it, unless another request
\* has inserted them: their names are unique.
CommitSeeds(r) ==
  /\ req[r].phase = "seed" /\ \A p \in Seeded : plans[p] = "absent"
  /\ plans' = Seeds
  /\ Write(r)

-----------------------------------------------------------------------------
(* Plans *)

\* list_plans, list_all_plans and the beginning of create_plan.
Seed ==
  /\ \A p \in Plans : plans[p] = "absent"
  /\ plans' = Seeds
  /\ UNCHANGED <<config, live, created, req, told>>

\* create_plan, and update_plan, archive_plan and restore_plan.
KeepPlan(p, state) ==
  /\ plans[p] # state
  /\ IF plans[p] = "absent" THEN p \notin Seeded /\ \E q \in Plans : plans[q] # "absent" ELSE TRUE
  /\ plans' = [plans EXCEPT ![p] = state]
  /\ UNCHANGED <<config, live, created, req, told>>

Handle(r) ==
  \/ \E p \in Plans : AssignPlan(r, p) \/ Setup(r, p)
  \/ \E m \in Modules, value \in {"on", "off"} : SetOverride(r, m, value)
  \/ \E status \in Controls : SetStatus(r, status)
  \/ \E step \in Steps : CompleteStep(r, step)
  \/ PutProfile(r) \/ View(r) \/ Cancel(r) \/ Open(r)

Next ==
  \/ \E r \in Requests :
       \/ Handle(r) \/ UpdateTenant(r) \/ Subscribed(r) \/ Cancelled(r)
       \/ Abort(r) \/ Commit(r) \/ CommitSeeds(r)
  \/ \E p \in Plans, state \in {"active", "archived"} : KeepPlan(p, state)
  \/ Seed

Spec == Init /\ [][Next]_vars

-----------------------------------------------------------------------------
(* What is required *)

\* The newest entry of a history about something says what it is; without an
\* entry it has never been changed.
Tells(history, about, value, unchanged) ==
  \/ value \in unchanged /\ \A i \in DOMAIN history : history[i].about # about
  \/ \E i \in DOMAIN history :
       /\ history[i] = [about |-> about, value |-> value]
       /\ \A j \in 1..(i - 1) : history[j].about # about

\* The history is true of the document: it says how the plan, the status and the
\* overrides came about, and the limits are those of the plan.
TrueHistory(d) ==
  /\ Tells(d.history, "plan", d.plan, {NoPlan})
  /\ Tells(d.history, "status", d.status, {"none", "active", "trial"})
  /\ \A m \in Modules : Tells(d.history, m, d.overrides[m], {"unset"})
  /\ d.limits = d.plan

\* However handlers overwrite each other's documents and whatever is put back
\* from a page, a change that gets lost is lost with its entry of the history.
HistoryTells == TrueHistory(config)

\* The plan, the status and each override stay as the administrator was last told,
\* until a handler or a page stores a document it loaded before that answer.
\* Excepted are the answers ok of handlers that do not flag the document, about a
\* plan or a status that was never written: those do not stay.
ChangesKept ==
  \A topic \in Topics : told[topic] \in {Unsure, Unstored, Says(config, topic)}

=============================================================================
