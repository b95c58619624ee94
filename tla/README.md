# SMB Loyalty: a verification project

TLA+ models of the SMB Loyalty Program, with TLC runs and TLAPS proofs: of its
backend, a FastAPI application under `src/Backend/app`, and of its client, a
React application under `src/Frontend/src`.  File names ending in `.py` are
relative to the former, those ending in `.ts` or `.tsx` to the latter, unless
they begin with `src/`.

## The system

A tenant (a car wash) has customers.  A customer orders a wash, pays it by card
(Yoco) or at a till, shows a PIN, has the wash started and ended by staff, and
collects visits; every fifth visit (`REWARD_INTERVAL`) unlocks a milestone whose
reward is a voucher.  One process serves all requests: ordinary handlers run in
a thread pool, coroutines on the one event loop (`src/Backend/Dockerfile`:
`UVICORN_WORKERS=1`).  What they share is a relational database and a few
dictionaries in memory.

Every handler works the same way.  `get_db` gives it a session of its own
(`core/database.py:54-95`: no autoflush, nothing expires on commit); it queries
rows, changes the loaded objects, and commits.  No row is locked and none
carries a version.  A commit writes the columns whose value in memory differs
from the one that was loaded.  So whatever a handler decided from its queries may be
stale when it commits, and the only thing the database itself enforces is a few
unique constraints.  That is what most of this project is about.

| Component | State | Operations | Interacts with |
|---|---|---|---|
| wash lifecycle (`core/wash_lifecycle.py`) | `orders.started_at`, `ended_at`, `status`; `order_vehicles` | `start_wash`, `end_wash` | payments plugin (routes), dashboard (`/active-washes`) |
| orders plugin | `orders`, `order_vehicles` | create (2 endpoints), assign vehicle, legacy start, complete, redeem | visit counter, wash lifecycle |
| payments plugin | `payments`, `orders.status`, `order_redeemed_at` | charge, webhook, verify-payment, verify-pos, verify-loyalty, manual wash | card processor, visit counter, vouchers |
| loyalty plugin | `visit_counts`, `redemptions` | visit, me, reward, redeem, expire | payments (`verify-loyalty`) |
| job queue (`core/jobs.py`) | `_jobs`, `_queue`, `_scheduled`, `_DEAD_LETTER`, one lock | enqueue, run next, run by id, tick, requeue, purge | developer endpoints, branding upload |
| rate limiter (`core/rate_limit.py`) | `_BUCKETS`, `_PENALTIES`, `_BANS`, `_CONFIG`; no lock | `check_rate`, `compute_retry_after`, set and delete a limit, clear a ban, snapshot | `/public/tenant-meta`, `/secure`, developer and administrator endpoints |
| tenant settings (`plugins/subscriptions/routes.py`, `services/business_onboarding.py`, `plugins/tenants/routes.py`) | `tenants.config`, one JSON document; `subscription_plans` | assign a plan, switch a module, trial, pause, resume, set up, cancel, profile, onboarding steps, read and patch the settings | Yoco, the pages of administrators |
| subscription webhooks (`services/subscription_billing.py`) | `tenants.config`, `payments` | charged, failed, cancelled | Yoco |
| audit buffer | a bounded deque | record, flush | most handlers |
| branding uploads | files, quota, rate window | upload | job queue, audit |
| authentication | users, invitations | login, invite, roles | all |
| the rest of the backend | records and aggregates | analytics, reports, notifications, inventory, admin | |

What is hard at the backend: overlapping handlers with stale sessions; a card charge that
succeeds although its reply is lost; a JSON document that every handler stores as a whole; webhooks that come twice or too early; two
commits in one handler; unique constraints that fail late; jobs executed outside
the lock that protects the queue.  What makes each component correct is listed
with the runs below; `PROJECT.json` lists each hazard at its line.

The client is one single-page application for customers, staff and
administrators.  Its JavaScript is single-threaded; what overlaps in a tab is
everything that is awaited: requests, Firebase and card popups, timers, and the
user who goes on clicking, typing, following links, going back and reloading.
A page's React state disappears when the router leaves it, and its awaited work
does not.

| Component | State | Operations | Interacts with |
|---|---|---|---|
| session (`auth/AuthProvider.tsx`, `api/api.ts`, `routes/index.tsx`) | `user`, `loading`; `token` and `cachedRole` in localStorage | boot, `/auth/me`, login, logout, the 401 interceptor, the guards | every page |
| query cache (`api/queryClient.ts`) | an entry and at most one fetch per key | mount, refetch, poll, invalidate | pages that use `useQuery`, mutations |
| sign-up pages | forms; the draft, the OTP confirmation, one reCAPTCHA per tab | login, Google, sign-up, names, phone, code, password reset | session, Firebase |
| order and payment pages | the booking form, the picker, the reward; `location.state`, the pending order | choose, book, apply a reward, pay, confirm | Yoco, `/orders`, `/payments`, session |
| customer pages | the kept wash status, editors | poll, claim, edit, book again, log out | session, query cache |
| staff pages | dialogs, searches, filters | end and start a wash, verify a payment, vehicles, history, analytics, visits | query cache |
| admin pages: inventory, users, transactions | forms, edits, one table per page and text | create, save, delete, change a role, page, search | query cache |
| other admin and developer pages | forms and tables | | |

What is hard in the client: an answer that arrives under another page, another
form or another session than its request; handlers that disable a form and must
enable it on every way out; chains of requests that stop half-way, one of which
has taken money; timers nobody cancels; optimistic updates with rollbacks;
fetches that a mutation overtakes; guards and effects that redirect each other.

## Modules

| Module | Models | Correspondence |
|---|---|---|
| `OrderFlow` | orders, payments and the visit counter of one customer | one action per endpoint; a handler in flight is a record of `req` |
| `WashProgress` | abstract: a wash waits, is under way, is over | `OrderFlow` implements it (`WashImplemented`) |
| `Redemptions` | visits, vouchers, redemption and expiry of one customer | one action per query or commit of a handler |
| `RewardLedger` | abstract: a reward is locked, open or spent, and spent once | `Redemptions` implements it (`LedgerImplemented`) |
| `JobQueue` | the queue, the schedule, the dead letters and the threads | one action per step between two releases of the lock |
| `RateLimiter` | the token buckets of one scope, their strikes and bans | one action per step of `check_rate` between two accesses of a dictionary |
| `TenantConfig` | the settings document of one tenant, the plans and the processor's subscriptions | one action per endpoint; a handler in flight, or a page, is a record of `req` with its copy of the document |
| `Browser` | a tab: router, mounted page, requests under way, localStorage | shapes of handlers the pages share |
| `Session` | `AuthProvider`, interceptor, guards, links, reload | one action per answer, redirect or move |
| `Queries` | the query cache as the pages use it | one entry per key, fetches are flights |
| `SessionPages`, `OrderPages`, `AccountPages`, `StaffPages`, `AdminPages` | the pages | per page: its state, what it offers, one action per handler, effect, answer or timer |
| `WebApp` | the pages composed, the properties, the fairness | |
| `OrderFlow_proofs`, `OrderFlowVisits_proofs`, `Redemptions_proofs`, `JobQueue_proofs`, `RateLimiter_proofs`, `RateLimiterBans_proofs`, `TenantConfig_proofs`, `WebApp_proofs` | theorems | |
| `MCOrderFlow`, `MCRedemptions`, `MCJobQueue`, `MCRateLimiter`, `MCTenantConfig`, `MCWebApp` | instances for TLC | |

**OrderFlow.**  `order`, `linked`, `payment` and `visits` are the tables
(`visits` is a sequence because racing handlers may insert two counter rows for one
customer); `charge` is the processor's own book.  A request is a record of
`req`: `snap` is the row as loaded, `new` as changed in memory, `row` and
`count` the visit counter it will write, `p` and `settled` the payment.  A
handler enters (`StartWash`, `ChargeOrder`, `Webhook`, ...), with the guards its
early returns make; it may then take a time stamp (`TakeStamp`), call the
processor (`PostCharge`, `LoseReply`) and read the counter (`LoadVisits`);
`Commit` writes everything at once through `Flush`, which applies only the
columns that changed.  `Abort` is an exception or a crash.  The webhook is a
coroutine with no `await` between its first query and its commit, so no two of
them overlap (`EventLoopFree`), while it does overlap with the thread pool.
External: the processor (`Fresh`, `Settle`), the till that inserts receipts
(`PosSale`; nothing under `src/` does), SQLAlchemy's flush.  Abstracted: an
order's visit weight (`sum(item.qty) or 1` is 1, since nothing inserts order
items), amounts, PINs (a handler given a PIN is a handler given the order), the
vehicle (only whether there is one), the `redeemed` flag no handler reads, the
users (one customer, who exists).

**Redemptions.**  `rows` is the table `redemptions` in the order of its ids;
milestone *m* stands for *m* times `Interval` visits.  Each handler goes through
its phases: `CommitVisit`, `ReadUsed` (the set `used`), then for each milestone
`Look`, `Insert` (which fails on the unique constraint when another handler was
faster) and `Requery`.  `Spend` and `Link` are the two commits of
`verify_loyalty`; `redeem` is a `Spend` alone.  `CommitExpired` writes a whole
batch or, when the constraint fails, nothing.  `accepted`, `logged` and `faults`
are history.  The visit counter is a single row here; that it may split is
`OrderFlow`'s subject.  Each milestone has one reward (the tenant's base
reward), and PINs and tokens are the voucher they name.

**JobQueue.**  One thread is one request; `Pop`, `RunJobId`, `Tick` are the
steps under `_lock`, `Check`, `Start`, `Finish` and `Insert` those outside.  What
follows an execution is two steps, since `_execute` reads the record twice and
releases the lock in between: `File` schedules the job, and `Bury` puts it on the
dead letter list, also if another thread has run and exhausted it meanwhile.  Due times are
abstracted to the set `due`, which `Elapse` fills, and `scheduled` is the set of
the dictionary's keys: in what order one tick queues several due jobs is left
open.  `RequeueDeadLetter` copies any known
job, which is what the developer endpoint's fallbacks come down to.
`attempts += 1` on a record is taken as one step.  Jobs live in memory only, so
a restart forgets them and there is nothing to recover.

**RateLimiter.**  One scope, whose handlers run in the thread pool and lock
nothing.  A request is a record of `request` and goes through `check_rate`:
`Ask` resolves the limit and looks for a ban, `Lift` deletes one that is over,
`Fetch` reads the bucket and refills the copy, `Grant` and `Clear` forget the
strikes, `Store` puts the copy back; a refusal goes through `Refuse`, `Count`
and `Strike`, and `Reply` is `compute_retry_after`.  `Override`, `ClearBan` and
`Snapshot` are what operators do.  Tokens are counted in parts (`Unit`, `Rate`),
time in whole seconds, and the times that `check_rate` reads for its refill
(lines 99 and 160) are one moment.  The dictionary keys of a limit are the scope
itself and `"*"`; `limit` takes any value of `Overrides`.  `Snapshot` is one
step, so the entries it fails to delete because another request was faster are
left out.  `seen` is history: what the client was answered, and since when an
observer has counted.

**TenantConfig.**  `config` is the document of one tenant: plan, module limits,
overrides, status, the processor's id, the onboarding step and the history,
newest entry first.  A request is a record of `req` with the document as its
handler has changed it.  What decides is `dirty`: the column is plain JSON
(`models.py:58`), so the commit writes the whole document if the handler called
`flag_modified` (`AssignPlan`, `SetOverride`), if it was assigned anew
(`UpdateTenant`), or if it was empty, because then `_get_tenant` and
`_ensure_subscription_struct` work on a new object (`Replaced`); otherwise it
writes nothing.  `Setup` and `Cancel` call the processor (`Subscribed`,
`Cancelled`) between reading and writing; its answer may be lost.  `Open` and
`UpdateTenant` are a settings page that sends back the document it has shown, or
an empty one; a patch may hold any JSON, and other contents are left out.
`View` and `Seed` insert the first plans, whose names are unique, and fail
together with the document of the same commit.  The attributes of plans, dates,
prices and actors are abstracted.  `Touch` is a handler that answers about no topic;
a document that it is not going to write it drops.  `told` is history: what was last
answered ok of the plan, the status and each override, by every handler that answers
about one, whether its document is written or not (`Telling`).  It is `Unstored` when
a handler without the flag has answered what the stored document does not say, and
`Unsure` once a document loaded before the answer has been written (`overtaken`).

**Browser and Session.**  `local` is the React state of the one mounted page,
`flights` everything awaited; a flight that belongs to a page carries `mine`,
which is false once the router has left the page: then its answer sets no state
(`Hears`), but may still navigate, write to localStorage, fill the cache or send
the next request of its chain (`GoesOn`).  A request whose answer only its page
can use is a flag of the page instead.  The server answers before the answer
arrives where the order of answers matters (`ServerCharges` and `ChargeEnds`);
elsewhere both are one step.  `memory` is what lives until the tab reloads,
`storage` is localStorage, `server` what the backend holds as far as a page can
tell.  A guard is an operator that admits, waits or names the path to redirect
to (`RequireStaff`); `GuardActs` is the redirect, and `HearsMe` the whole handler
of `/auth/me`: user, loading, cached role, token, and the redirect to onboarding.
Two callers that ask `/auth/me` at the same time share one request in the code
(`meInFlight`); here each has an answer of its own, which adds behaviours and
takes none away, since both ask for the same account.  After the server's
answer an action runs its effects at once, unless their order can be observed.

**Queries.**  TanStack Query is external; what is modelled is what the pages
can see of it: an entry has data or not, is stale or fresh, has failed or not,
and `misses` says that the data lack a write of this tab that the server has
acknowledged.  Mounting fetches what is missing, invalidated or aged
(`MountAsks`); invalidation marks all entries and replaces the fetches of the
observed ones that have data (`Refetched`), while a first fetch goes on, as
`cancelRefetch` has it.

**The pages.**  Each page has an operator that says what it offers in its state
(`StepThreeOffers`, `ManagerOffers`), which is its rendering as far as buttons
go: disabled buttons and what a dialog covers are not in it.  Forms are abstracted to
whether they are filled, texts to whether they find something, lists to how many
pages they have, prices to small numbers.  Days: a month of the calendar has one
bookable day, and a slot is named by the day it was offered for.  The users of
`UsersAdmin` have one page each and two roles.  Validation, wording, toasts,
tracking, charts and layout are left out.

**What one behaviour does.**  A tab could visit every page; the product of all
their states is out of reach and says little, since pages share only what
outlives them.  So a behaviour chooses a *tour* at the start: who is at the
browser, which paths exist for it (the others are blank pages), which controls
are used, and how many links, reloads and steps back there are.

## Runs

| Run | Bounds | What it checks |
|---|---|---|
| `orders_concurrent` | 1 order, 1 charge, 2 overlapping handlers, 2 time stamps, 1 visit, 1 fault | `TypeOK`; `PaymentsCounted`; `VisitsNeverInvented`; `DuplicateSuccessAddsNoVisit`; `StartLinksVehicle`; `WashImplemented` |
| `orders_serial` | 1 order, 2 charges, 1 receipt, 1 handler at a time, 3 time stamps, 2 visits, 1 fault | `VisitsExact`; `StampsWriteOnce`; `ReplyRecorded` (liveness) |
| `redemptions_serial` | 1 handler at a time, interval 2, 5 visits, 1 fault | `RedeemedForGood`; `LedgerImplemented`; `EarnedIsOffered` and `FreeOrdersLinked` (liveness) |
| `redemptions_races` | 2 handlers, interval 2, 5 visits, 1 fault, no expiry | `TypeOK`; `RewardsEarned`; `OneVoucherHonoured` |
| `customer_app` | 12 tours of a visitor or a customer | `TypeOK`; `AwaitedOnce`; `BillsTheOrder`; `BookingConsistent`; `ConfirmationEarned`; `MembersOnly`; `SpinnersEnd` (liveness) |
| `back_office` | 14 tours of staff and administrators | `CachedWritesRefetched`; `ListsFollowQueries`; `RolesConverge`; `SpinnersEnd` (liveness) |
| `rate_limit` | 1 client, 1 request at a time, 2 per 3 s, limits set to 0 per 3 s or to a window of 0 s, decay 2 s, 3 strikes, ban of 3 s, 6 s | `TypeOK`; `Budget`; `BanEarned`; `BanHolds`; `ServedAgain` |
| `tenant_config` | 2 handlers or pages, 2 plans, both seeded, 1 module, 1 onboarding step, 1 status that controls set, 2 stored entries of the history, 1 subscription | `TypeOK`; `HistoryTells`; `ChangesKept` |
| `jobs_threads` | 2 jobs, 2 threads, 1 retry, queue bound 1, 1 dead letter | `TypeOK`; `NoJobForgotten`; `OnePlace`; `RetriesBounded`; `TickDrains` (liveness); no deadlock |

The split matters: the properties of the runs with one handler at a time are
false once handlers overlap (a second start overwrites the time of the first,
increments get lost, a token is spent twice, a strike of a request that began
before a grant is stored after it), except `LedgerImplemented`, which then
needs that nothing expires, and `ServedAgain`; the others hold in spite of that.

What the run of the settings document shows: handlers and pages take each
other's changes back, whole documents at a time, but since the history is part
of the document, a change is lost together with its entry: what is left always
tells how it came about (`HistoryTells`).  What an administrator was last told of a
plan, a status or an override is what the document says (`ChangesKept`) until a
document loaded before that answer is written: it is changed neither by a handler that
changes its copy and stores nothing, nor by the seeding of plans.  Answers of
handlers that never set the flag, about a plan or a status that was not written, are
excepted: those do not stay, as the list at the end says.

What the two runs of the client show: whatever overlaps, a handler that disables the
button or form it was started from has its request under way once (`AwaitedOnce`; the
handlers that disable nothing are listed at the end), a customer is asked for the price of
the order that is being paid, less its reward (`BillsTheOrder`), books the slot
of the day chosen (`BookingConsistent`), and sees an amount confirmed only after
the server has charged it (`ConfirmationEarned`).  A customer who has not
finished the registration is never signed in, although the answer of the last
step may be lost and repeated (`MembersOnly`).  Welcome polls in one chain
(a part of `AwaitedOnce`).  Cached data that miss an acknowledged write
are marked as stale and, where they are shown, are being fetched again unless
that has failed (`CachedWritesRefetched`), lists agree with what was typed and have the page
they show (`ListsFollowQueries`), and optimistic roles converge to the server's
(`RolesConverge`).  Every spinner ends, and redirects lead somewhere
(`SpinnersEnd`).

Each property has a mutant: a definition of the model changed as a plausible
slip would change the code (a button that is not disabled, a cleanup that is
missing, a failure that is not handled), under which TLC must find the property
violated.  They stand before the definitions they replace.

Three runs show that the code does not keep what its comments say (details and
quotations in `PROJECT.json`, "findings"):

| Run | Property | What the code says | What happens |
|---|---|---|---|
| `orders_paid_late` | `CompletedNotCountedAgain` | `plugins/payments/routes.py:44` "If a payment occurs after completion (status == 'completed'), skip" | the status is overwritten before it is tested; the order counts twice |
| `redemptions_twice` | `HonouredOnce` | `plugins/payments/routes.py:439` "mark as used on first redemption" | two overlapping requests both honour the voucher |
| `jobs_by_id` | `NoDoubleExecution` | `core/jobs.py:146` "remove from queue to avoid double execution" | a job popped by `run_next` still reads queued |

**Why the bounds are enough.**  The properties of `OrderFlow` speak of one order
and its payments, orders share nothing but the visit counter, and the hazards
need two sessions of which one is stale; one fault suffices for each of the
positions where one can fall.  Two charges let a second payment follow a failed
or a lost one.  In `Redemptions` five visits at interval 2 reach two milestones
and go past the second.  In `JobQueue` two threads and a queue bound of one let
the queue overflow through `Insert`, `Tick` fill it beyond its bound, and a job
run out of retries while the other thread ticks.  In `RateLimiter` clients share
nothing but the limits, so one of them is enough; two tokens that return in
three seconds leave fractions of a token, six seconds see a ban of three earned
and over, and a limit of nothing and a window of no length are the values at
which the code divides or compares with 0.  Overlapping
requests of the limiter are left to the proofs.  In `TenantConfig` what one
document can lose to another takes two of them; two entries let a change be lost
under another one, one subscription can be set up, lost and cancelled, and one plan
can be archived and restored while the other is assigned; a plan that
`create_plan` adds differs from a restored one in nothing the documents tell apart, and
is left to the proofs; pausing stands for all that trials and pauses set (`Controls`), since the
statuses differ in nothing but their name.  Bounds on growth are named in
the modules (`MaxClock`, `MaxVisits`, `MaxFaults`, `MaxAttempts`, `MaxChanges`,
`MaxSubscriptions`); they disable
new requests and never cut a handler short.  Hence `CHECK_DEADLOCK FALSE` for
`OrderFlow` and `Redemptions`, which stop when the bounds are used up; the job
queue and the rate limiter never stop and are checked for deadlock.

For the client: `MaxFlights = 3` lets three requests, popups or timers overlap,
which covers a page's own chain, the orphan of an earlier page and a poll; the
handlers that would exceed it are disabled.  One or two `moves` (link, Back,
reload) leave a page and come back to it while something is under way.  Two
orders let the payment page change its order.  `MaxQuantity = 2` and
`MaxMonth = 2` are the smallest with something to lose; two services in two
categories let a change of the category replace the service, two pages
(`MaxPages`) let a list shrink below the page shown, and roles change for at
most two users.  `MaxExchanges = 3` is the code's own.  A tab stops when its
tour is used up, hence `CHECK_DEADLOCK FALSE`.

**Fairness.**  Weak fairness of `Continue(r)`: a handler that was entered is
scheduled again, and the call to the processor returns or times out after 15
seconds (`plugins/payments/routes.py:155`).  For the job queue it adds that the
functions of the jobs return.  Requests, webhooks, settlements, faults and the
passing of time are never assumed to happen.  The liveness properties exclude
requests that are lost (`faults > 0`).

In the client weak fairness of every action by which something awaited ends: a
request is answered or fails (axios rejects when the connection is lost), a
timer fires, React runs the effects of what it has mounted, guards redirect.
Never assumed: that the user does anything, that a popup is closed, that polls
go on.  `SpinnersEnd` therefore leaves the time out in which the customer has
the card form open.

## Proofs

TLAPS proves for every number of orders, charges, receipts, milestones, jobs, clients,
plans, modules and overlapping handlers, every limit, every catalog, every tour of the tab,
any number of requests under way in it and every value of the bounds, from the
assumptions `OrderFlowAssumption`, `RedemptionsAssumption`, `JobQueueAssumption`,
`RateLimiterAssumption` and `TenantConfigAssumption` (distinct ids and keys, finitely many
jobs, natural bounds, an interval, a strike maximum, a ban and a deque length above 0),
`CatalogAssumption` (the catalog is not empty, its categories are those of its
services, as `plugins/catalog/routes.py:14` groups them, prices are whole rands, the
column of `models.py:80`, and the bounds on quantities and months are above 0),
`ToursAssumption` (what a tour is; nothing about which tours there are) and
`AccountsAssumption` (whoever takes one has one of the roles):

| Theorem | Statement |
|---|---|
| `OrderFlow_proofs!TypeCorrect` | `Spec => []TypeOK` |
| `OrderFlow_proofs!EndedWashesStarted` | `Spec => []EndedImpliesStarted` |
| `OrderFlow_proofs!SuccessCounted` | `Spec => []PaymentsCounted` |
| `OrderFlow_proofs!WashRefined` | `Spec => WashImplemented` |
| `OrderFlow_proofs!StartedWashesLinked` | `Spec => StartLinksVehicle` |
| `OrderFlow_proofs!DuplicatesAddNothing` | `Spec => DuplicateSuccessAddsNoVisit` |
| `OrderFlow_proofs!StampsAreKept` | `Spec => StampsWriteOnce`, provided `OneByOne` |
| `OrderFlowVisits_proofs!NoVisitInvented` | `Spec => []VisitsNeverInvented` |
| `OrderFlowVisits_proofs!VisitsAreExact` | `Spec => []VisitsExact`, provided `OneByOne` |
| `Redemptions_proofs!TypeCorrect` | `Spec => []TypeOK` |
| `Redemptions_proofs!RewardsAreEarned` | `Spec => []RewardsEarned` |
| `Redemptions_proofs!OneHonoured` | `Spec => []OneVoucherHonoured`, provided `"expire"` is not among `Ops` |
| `Redemptions_proofs!LedgerKept` | `Spec => LedgerImplemented`, provided `OneByOne` or `"expire"` is not among `Ops` |
| `Redemptions_proofs!RedeemedStays` | `Spec => []RedeemedForGood`, provided `OneByOne` |
| `JobQueue_proofs!TypeCorrect` | `Spec => []TypeOK` |
| `JobQueue_proofs!NothingForgotten` | `Spec => []NoJobForgotten` |
| `JobQueue_proofs!OneAtATime` | `Spec => []OnePlace` |
| `JobQueue_proofs!RetriesKept` | `Spec => []RetriesBounded` |
| `JobQueue_proofs!QueueBounded` | `Spec => []NewWorkBounded`, provided `IsFiniteSet(Threads)` |
| `RateLimiter_proofs!TypeCorrect` | `Spec => []TypeOK` |
| `RateLimiter_proofs!WaitIsEnough` | `Spec => ServedAgain` |
| `RateLimiter_proofs!BudgetKept` | `Spec => []Budget`, provided `OneByOne` |
| `RateLimiterBans_proofs!BansStandForRefusals` | `Spec => BanRefused` |
| `RateLimiterBans_proofs!BansAreEarned` | `Spec => BanEarned`, provided `OneByOne` |
| `RateLimiterBans_proofs!BansAreKept` | `Spec => BanHolds`, provided `OneByOne` |
| `TenantConfig_proofs!TypeCorrect` | `Spec => []TypeOK` |
| `TenantConfig_proofs!HistoryIsTrue` | `Spec => []HistoryTells` |
| `TenantConfig_proofs!ChangesStay` | `Spec => []ChangesKept` |
| `WebApp_proofs!OnlyMembers` | `Spec => []MembersOnly` |
| `WebApp_proofs!OrderBilled` | `Spec => []BillsTheOrder` |
| `WebApp_proofs!BookedConsistently` | `Spec => []BookingConsistent` |
| `WebApp_proofs!ConfirmedIsEarned` | `Spec => []ConfirmationEarned` |
| `WebApp_proofs!ListsFollow` | `Spec => []ListsFollowQueries` |
| `WebApp_proofs!WritesRefetched` | `Spec => []CachedWritesRefetched` |
| `WebApp_proofs!SentOnce` | `Spec => []AwaitedOnce` |
| `WebApp_proofs!RolesSettle` | `Spec => []RolesConverge` |
| `WebApp_proofs!TypeCorrect` | `Spec => []TypeOK` |

`OneByOne` (there is one request at a time) is a hypothesis where the property is
false without it; it is what the runs with one handler check.

*OrderFlow.*  None of the invariants is inductive alone, since a commit writes
what its session decided long ago.  The strengthening `IInv` says what a session
in flight may rely on: a time stamp it has loaded is still set in the table and
it never clears one (`LoadedOK`); a session that will write `ended_at` has seen
`started_at` (`EndingOK`); one that will store a successful payment carries a
visit in the same commit, or its wash has ended, or was counted (`PayingOK`).  The key fact is `CommitOrders`: whatever
is stale in the session, `Flush` leaves columns alone that the session did not
change.  The refinement follows from the same lemma, with the observation that
one commit cannot take a wash through two stages.  `DInv` adds who holds a
charge: a charge has one handler that makes it and one webhook, and a webhook
whose payment is stored as successful prepares no visit (`BookOK`), which is
where `DuplicateSuccessAddsNoVisit` needs that no two webhooks overlap.  `SInv` says of
one handler at a time that its snapshot is the row (`CurrentIn`).

*The visit counter.*  `VisitsNeverInvented` bounds a sum over the counter rows,
and the community modules' sum is a recursive function: that it has the value
one expects is proved for every finite set by looking at a smallest
counterexample, and from it what appending and changing one element do.  The
counter loses increments and may split, so the sum is no invariant by itself:
`VInv` says that what was logged can be shared out to the rows so that no row
holds more than its share, nor a session under way more than one visit beyond it.

*Redemptions.*  The counter loses increments but never gains any (`visits <=
logged`); what a handler computed from it was earned then and stays so
(`SessionOK`), so vouchers are earned when they are inserted, however late.
`OneVoucherHonoured` needs, beyond that invariant, that at most one row of a milestone is
used (the constraint, checked at `Spend`) and that a row once honoured stays
used, which is where expiry has to be left out: `expire_old_redemptions` may
overwrite a used voucher it read as pending, and then the milestone is
redeemable again.  For the ledger every write is one of four (`Changes`: nothing
of weight, a voucher issued, one honoured, some expired), and each moves the
reward of its milestone, which is computed from all its vouchers, as
`RewardLedger` allows.  `RedeemedForGood` rests on `SInv`: with one handler at a
time a pending voucher is the only open one of its milestone, and a handler
issues vouchers only for milestones nobody has redeemed.

*JobQueue.*  A status alone says too little of where a job is, because it is
written with the lock released: a job taken off the queue is still `queued`, one
that has failed is not scheduled yet.  `IInv` names who will come across it
(`Pending`: a `queued` job is on the queue or with a thread about to look at it or
to start it, a `running` one with a thread that runs it, one to be filed with a
thread that files it), says that an id without a record is nowhere but with the
thread that made it (`UnknownOK`, `ThreadsOK`), and that whatever waits or starts has
attempts left (`Tries`).  `OnePlace` and `RetriesBounded` leave out the jobs that were
run by id: those are executed twice (`jobs_by_id`).  A thread about to look at the
record the second time holds the job no more, and nothing it has done protects what it
will read: the job may wait, run or be dead by then.  What it appends it has read to be
exhausted, and such a job neither waits nor starts again, because what is queued,
scheduled, started or run has the status of its place (`StatusOK`) and, if it waits,
attempts left (`Tries`).  What the community modules'
`ToSet`, `SetToSeqs` and `RemoveFirst` do to the members of a sequence and to their
number is proved as lemmas first.

`QueueBounded` says what is left of `_MAX_QUEUE`, which the queue itself passes:
`enqueue` tests the length under the lock and appends without it, and `tick` appends
without a test.  The jobs that wait for their first run (`Unstarted`) and those a
thread is about to append (`Appending`) are, together, fewer than `MaxQueue` and the
threads: a test that passes finds fewer than `MaxQueue` of the former, and at most
every thread is appending then; appending moves one job from the one set to the
other.  What `tick` adds has run before (`Started`), since only `_execute` schedules.
No run checks it; TLC agreed on three jobs, two threads and a bound of one, and found
one job less to be too few.

*RateLimiter.*  `IInv` adds to the types that a bucket was refilled in the past
and holds no more than its size (`Sound`), and that a copy under way holds a
token exactly if it is to be granted (`FlightOK`); so a token is never
subtracted from nothing, however many copies replace each other.  Each theorem
has an invariant of its own on top of it.  `ServedAgain`: every bucket and every
copy holds what time has brought since the last grant, or is full (`Waited`); a stale copy
that replaces a newer one is no poorer for it.  `Budget`: what was counted and what is left,
together, is no more than the size and what time has brought (`Counted`), which
needs `OneByOne`, that there is one request at a time: two copies of a bucket
spend the same token.  `BanRefused`: strikes that have not decayed are no more
than the refusals close to each other (`Chained`).  `BanEarned` and `BanHolds`: with one
request at a time the strikes are those since the last grant, and a ban stands
in the dictionary until its end (`RInv`).  The handler of the scope with strikes runs in the
thread pool, so `OneByOne` says that the client waits for its answers; clients
share no entry of a dictionary but the limits.

*TenantConfig.*  Neither property is inductive: what a commit writes was made when
the document was loaded, and what is on a page may be written much later.  So
`IInv` asks of every document, stored, in memory or shown, that its history is
true (`FlightOK`), which each handler keeps because it writes an entry with
whatever it changes; of one that is going to be written, that it says of every topic
its request does not answer about what was last told, unless that was told after it
was loaded (`Fresh`); and of every request, that what it answers about it also
writes, unless it is one of those that never set the flag (`Asked`).  `TenantConfig` has no
fairness and no refinement; its whole claim is proved.

*WebApp.*  None of the properties of the tab is inductive, because an amount
travels: from the order form to a request, its answer, a location of the history,
the order kept in localStorage, a charge, and the confirmation, and each of them
may be overtaken by links, Back and reloads.  `IInv` says of every one of these
places how its amount follows from the order as the server has it (`FlightOK`,
`LocationOK`, `PendingOK`), of every page what its form holds (`LocalOK`), and of
the requests for `/auth/me` that they ask for the account that is at the browser.
Orders only grow (`Grows`), so what an old location says stays true.  Most of the
handlers of the pages have one of a few shapes (`Sets`, `Sends`, `Hears`, `GoesOn`,
`Navigates`), for each of which one lemma says what it leaves in order; what is
left is one step per action with a claim of its own.

The query cache has an invariant of its own, `CacheOK`, on top of it.  Every step
leaves the cache alone (or empties it) and loses no fetch and mounts no page that
observes a key (`Undisturbed`), or starts fetches, of which every newly observed
key that is stale is one (`Fetches`), or acknowledges writes, marks all their keys
and fetches the observed ones (`Acknowledges`).  That a fetch is never lost, by
whatever becomes of other flights, is `Whole`.  The proof attempt is the reason
why `CachedWritesRefetched` says as much as it does: "stale or being fetched" is not
inductive, "stale and, if shown, being fetched or failed" is.

That what is awaited is awaited once (`AwaitedOnce`) has one too, `ChainsOK`, since a flag that disables a
button says nothing by itself: it has to be shown as long as the request is under
way, by the very page that sent it.  `Linked` are the requests that belong to the
mounted page, `Awaits` says what the page shows while one of them is under way, and
`Fine` that each of them is so awaited and that there is one, except that the
profile has two forms.  A step keeps what is awaited (`KeepsWaiting`) and changes
flights beside it (`Besides`), or ends the one request, follows it by the next
of its chain, or starts one while nothing is awaited, or leaves the page and
orphans what it had sent.  The answer to another form could reset a flag of the
same name on a later page, so `Fine` also says that a form's answer is heard only
by the page that sent it (`FormKinds`).  `Fine` was checked by TLC on the instances
of `customer_app` and `back_office` before it was proved.

The table of users has the invariant `RolesOK`: a row that is neither stale nor
missed shows what the server has, unless a change of a role is under way, which will
mark every row; an answer on its way agrees with the server as well, unless a change
has been settled since it was read, which is marked on the answer (`AnswerTrue`); and
a change under way keeps a row to roll back to.  What the table does not touch is
`Spared`: the lemmas that say of every other step what becomes of the cache also say
that it leaves the rows, the roles and these requests alone or loads the tab anew
(`TableStays`, `Restarted`).

The types of the tab need all three.  A location has an order of the server, or
none, because the number it carries was the server's answer, and orders are only
added (`IInv`); a row of the table of users keeps its form because every change under way
keeps a row and every answer the roles it read (`RolesOK`), and an entry of the query
cache because marks are all that fetches and writes change (`CacheOK`).  That the
calendar shows a month within its bounds is said of its timers as well (`PickerOK`): a
timer that fires shows the month it was set for, not the one chosen meanwhile.  A number
tells requests apart that are alike, and there is always a free one among as many
numbers as there are flights and one more (`FreeNumberIs`): a finite set has no more
numbers than members.

Only model-checked: the liveness properties (`ReplyRecorded`, `EarnedIsOffered`,
`FreeOrdersLinked`, `TickDrains`, `SpinnersEnd`; TLAPS has no fairness and no
ENABLED) and the three runs that show a disagreement.  Every invariant and every
action property that a passing run checks is proved.

## Not modelled, and known limits

* A charge whose reply is lost leaves no trace in the tables: its webhook is
  answered "ignored", and the order can be charged again.  The model has these
  steps, but no table relates the two charges, so no property speaks of it.
* The row-level security hook, tenants and roles: one tenant, authorised callers.
* Two database transactions here never block each other.  Under PostgreSQL's
  read committed, an update of a row waits for the other's commit and then
  overwrites it, which is the interleaving the model has.
* More than one server process: `EventLoopFree` would not hold, and each process
  would have its own buckets.  The rate limiter over Redis is not modelled; there
  `compute_retry_after` still reads the buckets of the process, which stay empty,
  and strikes and bans stay with the process.
* The webhooks of subscriptions: their router asks for an administrator
  (`plugins/subscriptions/routes.py`), whom the processor cannot be.  The deletion
  of a tenant, its other fields, and the rows that `create_business` makes beside it.
* Analytics, reports, inventory, catalog, notifications, profile and
  administration of the backend change no state the modelled handlers read.
* The other pages of administrators and developers send one request at a time
  and show its answer; appearance, prefetching and chunk loading are left out.
* Two tabs of one browser share localStorage; the model has one tab.

While modelling the backend, these things were met; the models have the steps, and
no run speaks of them:

* The PIN of an order that is not paid verifies it
  (`plugins/payments/routes.py:376`), and a voucher past its ten days is honoured
  until the expiry endpoint is called: no redeeming handler looks at the date.
* Neither a limit set at run time nor the reduction for strikes reaches a client
  that has a bucket: it keeps the size it was made with
  (`core/rate_limit.py:168`), although `PHASE_5_RATE_LIMITING_PLAN.md:47-48`
  promises both.  `compute_retry_after` knows no bans, so a banned client is told
  to come back in 0 seconds.
* The status of a tenant's subscription is never stored once its document is not
  empty: starting and cancelling a trial, pausing, resuming, the cancellation and the
  setup (with its plan and its id) change the loaded dictionary in place without
  `flag_modified`, are answered ok, and are gone, and so are the billing profile and the
  completion of an onboarding step.  `LAUNCH_READINESS_CHECKLIST.md:9` has
  "Subscription state stored in tenant config", and
  `SUBSCRIPTION_PAGE_LAUNCH_READY.md:62-63` lists pausing and resuming as working.  In
  the model such an answer makes `told` of its topic `Unstored`; that `told` is never
  `Unstored` is violated by pausing a document that is not empty, with one request.
* The dead letter list may hold a job more than once: a thread schedules a retry, is
  suspended before it looks again, another thread runs the job to its last failure and
  files it, and the first files it too (`core/jobs.py:116-130`).  The job is not tried
  more often for it; `dead_letter_jobs` counts it twice.
* A subscription is created at the processor before its id is stored; when the
  answer is lost, or the document was not empty, nobody can cancel it.
* A `subscription.charged` event would insert a payment without an order
  (`services/subscription_billing.py:171`), which `models.py` forbids.

* A limit of 0 is a limit of 1 for a client that has strikes, since the reduced
  capacity is at least 1 (`core/rate_limit.py:117`); if it has a bucket, it is
  served from that.
* A bucket made under a window of 0 seconds never gets a token again, whatever
  limit is set later.
* Two requests that find the same ban over, or the same strikes, both delete
  them: the second fails with a `KeyError` and is answered 500.
* `_MAX_BUCKETS` is never read, so nothing bounds the dictionaries.
* The metrics of administrators take a snapshot without penalties, so
  `active_bans` is always 0 (`plugins/admin/routes.py:24-29`).

While modelling the client, these things were met that no document speaks of,
so that no property is stated about them; the model has the steps:

* Some handlers disable nothing while they wait, so a second click sends again: the
  free branch of `handlePay` (`Payment.tsx:233-257`) redeems an order once more, the
  Google button opens another popup, and claiming a visit, deleting a vehicle and
  saving an account are sent as often as they are clicked.
* A wrong password is a 401 of an `/auth/` route, so the interceptor reloads the
  tab (`api/api.ts:61`) before `Login.tsx` can show its message; the manual visit
  form loses its "Please log in again" the same way.
* "Restoring your session" (`routes/index.tsx:82`) is never left when the token
  stays and the user does not: after a 403 with the cached role of the team.
* An answer of `/auth/me` that arrives after a logout signs the user in again
  without a token; the query cache of the old session is kept.
* A charge whose answer is lost cannot be repeated, and its confirmation is
  unreachable: `Payment.tsx:278-318` stops at the first error.
* A reward applied to one order stays applied when Back shows another; "resume
  payment" never works, since an effect without state navigates home first
  (`Payment.tsx:110-116`).
* The confirmation formats the amount of the QR, which is in rands, as cents; a
  completed order counts as unpaid when its link is opened.
* `toISOString` of a local midnight sends the day before, east of Greenwich
  (`DateTimePicker.tsx:47` and `185`).
* Timers that navigate are not cancelled (`ResetPassword.tsx:24`,
  `OrderConfirmation.tsx:208`), and a started wash opens the dashboard wherever
  the staff member is by then.
* A fetch without earlier data goes on when a mutation invalidates it, and may
  bring data from before the write as fresh (`misses = "overtaken"`,
  `UsersAdmin`'s `missed`); starting a wash does not invalidate the wash history.
* The dashboard polls on although "Auto Refresh" is off, because its other half
  observes the same query; a failed poll replaces the manager and a confirmation
  that is open in it; failed statistics are shown as zeros.
* `InventoryPage` has one flag for all its requests: the end of one enables the
  forms whose request is still under way, and the answer to a saved edit closes
  the edit opened meanwhile.
* In `UsersAdmin` typing shows the first page before the debounced text does, a
  rollback is written under the key shown by then, and it ends whatever edit is
  open.  `TransactionsAdmin` goes back to page one when the query of a page fails.
* `EnhancedVehicleManager` deletes for the owner of the selected vehicle, not of
  the deleted one.

## Plan

1. The other columns and rows of a tenant beside `TenantConfig`: its deletion, the
   rows that `create_business` makes, vertical settings; the limiter over Redis.
2. Small modules: the audit buffer with its flush, the one-time invitation, the
   branding upload with its quota and the job it registers.
3. The other admin pages as a module of their own beside `AdminPages`
   (`CustomersAdmin`, `NotificationsAdmin`, `ReportsAdmin`, `BrandingPage`,
   `SubscriptionManagePageNew`), and a second tab that shares localStorage.
4. Compositions: `OrderFlow` and `Redemptions` through the visit counter and the
   free orders of `verify_loyalty`, and the payment page with `OrderFlow` in
   place of the few lines that stand for the server.
