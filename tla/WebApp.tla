------------------------------- MODULE WebApp -------------------------------
(***************************************************************************)
(* The pages composed into the application of one tab, and what makes it   *)
(* correct.  A tab starts at any path of its tour, signed in with a token  *)
(* that an earlier session has left or not.                                *)
(***************************************************************************)
EXTENDS SessionPages, OrderPages, AccountPages, StaffPages, AdminPages

Init ==
    /\ tour \in Tours
    /\ location \in {At(path) : path \in tour.paths}
    /\ history = {}
    /\ local = Unmounted
    /\ flights = {}
    /\ memory = MemoryAtBoot
    /\ LET account == IF tour.signedIn THEN tour.who ELSE None IN
       storage = [token |-> account, role |-> account, draft |-> FALSE, data |-> FALSE,
                  justOnboarded |-> FALSE, pending |-> <<>>, wash |-> None, period |-> "week"]
    /\ cache = EmptyCache
    /\ \E special \in IF Uses("category") THEN Specials ELSE {0} :
          server = [onboarded |-> tour.signedIn, special |-> special,
                    orders |-> <<>>, roles |-> <<0, 0>>]

PagesMount ==
    \/ SessionPagesMount \/ OrderPagesMount \/ AccountPagesMount \/ StaffPagesMount \/ AdminPagesMount

PagesSettle ==
    \/ SessionPagesSettle \/ OrderPagesSettle \/ AccountPagesSettle \/ StaffPagesSettle \/ AdminPagesSettle

Next ==
    \/ SessionSettles \/ Moves
    \/ PagesMount \/ PagesSettle \/ Polls \/ StaffPolls
    \/ \E key \in Keys : QueryArrives(key)
    \/ SessionPagesActions \/ OrderPagesActions \/ AccountPagesActions \/ StaffPagesActions
    \/ AdminPagesActions

\* Each request is answered or fails (axios gives up on a lost connection), each
\* timer fires and effects run; what the user does, the popups and the polls
\* may stop.
Fairness ==
    /\ WF_vars(Boot) /\ WF_vars(BootEnds) /\ WF_vars(RefreshEnds) /\ WF_vars(GuardActs)
    /\ WF_vars(PagesMount)
    /\ \A key \in Keys : WF_vars(QueryArrives(key))
    /\ SessionPagesFairness /\ OrderPagesFairness /\ AccountPagesFairness /\ StaffPagesFairness
    /\ AdminPagesFairness

Spec == Init /\ [][Next]_vars /\ Fairness

-----------------------------------------------------------------------------
Pages == {None, "login", "signup", "onboarding", "verify", "forgot", "reset",
          "order", "payment", "confirmation",
          "welcome", "loyalty", "pastOrders", "account", "profile",
          "dashboard", "verification", "vehicles", "washHistory", "analytics",
          "customers", "visit", "inventory", "users", "transactions"}

\* The type invariant: the variables, and the ranges the pages keep their
\* numbers in (the quantity of a service is never below one, a step of the
\* order form is one of three, no page of the wash history is below the first).
TypeOK ==
    /\ location.path \in tour.paths \cup {"elsewhere"}
    /\ location.order \in 0..Len(server.orders) /\ location.amount \in Int
    /\ history \subseteq [path : tour.paths \cup {"elsewhere"}, order : 1..Len(server.orders), amount : Int,
                          from : {None, "link"}]
    /\ \A f \in flights : f.mine \in BOOLEAN /\ f.n \in Nat /\ f.value \in Nat
    /\ memory \in [user : {None} \cup Roles, loading : BOOLEAN, confirmation : BOOLEAN,
                   recaptcha : BOOLEAN, sdk : BOOLEAN,
                   table : [TableKeys -> [has : BOOLEAN, stale : BOOLEAN, failed : BOOLEAN,
                                          missed : BOOLEAN, items : SUBSET {1, 2}, pages : 0..2, roles : [1..2 -> {0, 1}]]]]
    /\ storage.token \in {None} \cup Roles /\ storage.role \in {None} \cup Roles
    /\ storage.period \in {"week", "month", "custom"}
    /\ cache \in [Keys -> [data : BOOLEAN, stale : BOOLEAN, failed : BOOLEAN,
                           misses : {None, "cached", "overtaken"}]]
    /\ local.page \in Pages
    /\ local.page = "order" =>
         /\ local.step \in 1..3 /\ local.quantity \in 1..MaxQuantity /\ local.extra \in 0..1
         /\ local.picker.month \in 1..MaxMonth /\ local.picker.shown \in 0..MaxMonth
    /\ local.page = "payment" => local.checks \in Nat /\ local.discount \in {0, RewardValue}
    /\ local.page = "welcome" => local.claims \in 0..MaxFlights
    /\ local.page = "washHistory" => local.number >= 1

\* The handlers, each with the requests that follow its first, that disable what
\* starts them until they end.  Others do not: the free branch of handlePay, the
\* Google button, the claim of a visit, the deletion of a vehicle and the saving of an
\* account send as often as they are clicked.
Chains == {{"login"}, {"signup"}, {"sms"}, {"confirm", "exchange", "register"}, {"create"},
           {"popup", "charge", "redeem", "qr", "refreshThen"},
           {"poll", "pollTimer"}, {"updateProfile"}, {"addVehicle"}, {"endWash"}, {"startWash"}, {"recompute"}, {"logVisit"}}

\* What one of those handlers of a page has under way, it has under way once: the card
\* form or the charge that follows it, an order, a sign in, a wash (Login.tsx,
\* OrderForm.tsx handleSubmit, Payment.tsx handlePay from setPaying on,
\* ActiveWashesManager.tsx, ManualVisitLogger.tsx).
\* Welcome.tsx has one chain of polls, however often its effect runs, and none
\* waits for its timer when the page has been left.
AwaitedOnce ==
    /\ \A chain \in Chains : Cardinality({f \in flights : f.mine /\ f.kind \in chain}) <= 1
    /\ local.page = None => {f \in flights : f.kind = "pollTimer"} = {}

\* What the customer is asked to pay is the price of the order as the server
\* has it, less a reward: at the payment page, as the order kept for later and
\* in a charge under way (OrderForm.tsx, Payment.tsx).
BillsTheOrder ==
    /\ location.path = "/order/payment" /\ location.order # 0
         => location.amount = Price(server.orders[location.order])
    /\ storage.pending # <<>> => storage.pending[2] = Price(server.orders[storage.pending[1]])
    /\ \A f \in flights : f.kind = "charge"
         => f.arg[2] = Price(server.orders[f.arg[1]]) - f.arg[3] * RewardValue

\* A time slot is booked for the day it was offered for, whichever months were
\* looked at meanwhile, and what is reviewed has a service, a day and a slot
\* (OrderForm.tsx, DateTimePicker.tsx).
BookingConsistent == local.page = "order" =>
    /\ local.time \in {0, local.date}
    /\ local.step = 3 => local.service # 0 /\ local.date # 0 /\ local.time # 0
    /\ local.service # 0 => local.service \in ServicesOf(local.category)

\* A confirmation that shows an amount shows what has been paid for that order
\* (Payment.tsx, OrderConfirmation.tsx).
ConfirmationEarned ==
    location.path = "/order/confirmation" /\ location.amount > 0 =>
        /\ server.orders[location.order].status # "created"
        /\ server.orders[location.order].paid \div 100 = location.amount

\* A customer whose registration has not been completed never counts as signed
\* in (AuthProvider.tsx internalFetchMe, Login.tsx, OTPVerify.tsx).
MembersOnly == memory.user = "user" => server.onboarded

\* Data in the query cache that miss an acknowledged write of this tab are
\* marked as stale, and where the page shows them they are being fetched again,
\* unless that has failed (the onSuccess handlers of the mutations).
CachedWritesRefetched ==
    \A key \in Keys : cache[key].misses = "cached" =>
        cache[key].stale /\ (key \in Watched => Fetching(key) \/ cache[key].failed)

\* What a list shows fits what is asked of it, however typing, answers and
\* turned pages overlap: the search for vehicles at rest shows what the typed
\* text finds, or nothing (EnhancedVehicleManager.tsx); the wash history shows a
\* page that its filter has, as the others have no buttons to leave them
\* (EnhancedWashHistory.tsx); the transactions one that the last answer had
\* (TransactionsAdmin.tsx).
ListsFollowQueries ==
    /\ local.page = "vehicles" /\ ~local.timer /\ ~local.searching /\ ~local.failed
         => local.results \in {0, local.query}
    /\ local.page = "washHistory" => local.number <= PagesOf(local.filter)
    /\ local.page = "transactions" => local.number <= ComputedTotalPages(local)

\* However changes of roles overlap with each other, with their rollbacks and
\* with turning the page, the table of users shows what the server has once
\* they are settled and it could be fetched, unless the fetch of a page without
\* rows was under way when the change settled (UsersAdmin.tsx).
RolesConverge ==
    LET settled == {f \in flights : f.kind \in {"role", "users"}} = {}
        row == Row(local) IN
    local.page = "users" /\ settled =>
        (row.has /\ ~row.stale /\ ~row.missed =>
            /\ row.items = Found(TableKey(local))
            /\ \A user \in row.items : row.roles[user] = server.roles[user])

\* What a page or a form of it is waiting for.
Waits(what) ==
    what \in SessionPagesWait \cup OrderPagesWait \cup AccountPagesWait \cup StaffPagesWait \cup AdminPagesWait
Spinners == {"data", "moreData", "sent", "moreSent"}

\* A tab that is loading or being redirected arrives at a page, or at the
\* placeholder "Restoring your session", which nothing ends if the account
\* behind the token turns out to be unknown to the tab (App routes, RequireStaff).
Arrived == \/ local.page # None \/ location.path = "elsewhere"
           \/ ~memory.loading /\ Guard(location.path) = "waits"

\* Every spinner ends, and every disabled form is enabled again, whatever of
\* its chain of requests fails; and loading and redirects come to an end.
SpinnersEnd == /\ \A what \in Spinners : Waits(what) ~> ~Waits(what)
               /\ ~Arrived ~> Arrived
=============================================================================
