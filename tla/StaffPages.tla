----------------------------- MODULE StaffPages -----------------------------
(***************************************************************************)
(* The pages of the staff: the dashboard with its ActiveWashesManager,     *)
(* EnhancedPaymentVerification, EnhancedVehicleManager,                    *)
(* EnhancedWashHistory, the analytics and ManualVisitLogger.               *)
(*                                                                         *)
(* An order is named by its number, 1 to tour.orders, and so is the        *)
(* customer who placed it; a vehicle is named by its owner.                *)
(***************************************************************************)
EXTENDS Queries

Orders == 1..tour.orders

(***************************************************************************)
(* The dashboard.  Both of its parts observe the active washes: the        *)
(* overview keeps asking every ten seconds, whatever the manager's         *)
(* "Auto Refresh" says.                                                    *)
(***************************************************************************)
DashboardPage == [page |-> "dashboard", auto |-> TRUE, confirm |-> 0, ending |-> FALSE]

DashboardMount ==
    /\ Mounts("dashboard", "/staff/dashboard")
    /\ local' = DashboardPage
    /\ MountAsks({"active", "statistics"}, flights)
    /\ UNCHANGED <<tour, location, history, memory, storage, server>>

\* Statistics that could not be fetched are shown as zeros.
OverviewFigures == IF Has("statistics") THEN "statistics" ELSE "zeros"
OverviewShows == IF Loads("statistics") THEN "skeleton" ELSE OverviewFigures

\* Until the first answer the manager says that there are no washes; a failed
\* fetch replaces it.  The confirmation covers the page; its buttons wait for
\* the request.
ManagerOffers ==
    IF Fails("active") THEN {"retry"}
    ELSE IF local.confirm # 0 THEN IF local.ending THEN {} ELSE {"yes", "no"}
    ELSE {"auto"} \cup (IF Fetching("active") THEN {} ELSE {"retry"})

WashCardOffers == IF Has("active") /\ "auto" \in ManagerOffers THEN Orders ELSE {}

HandleEndClick ==
    /\ On("dashboard")
    /\ \E order \in WashCardOffers : Sets([local EXCEPT !.confirm = order])

ManagerToggles ==
    /\ On("dashboard")
    /\ \/ "auto" \in ManagerOffers /\ Sets([local EXCEPT !.auto = ~@])
       \/ "no" \in ManagerOffers /\ Sets([local EXCEPT !.confirm = 0])

ManagerRefetches ==
    /\ On("dashboard") /\ "retry" \in ManagerOffers
    /\ Refetches({"active"})
    /\ UNCHANGED <<tour, location, history, local, memory, storage, server>>

ConfirmEnd ==
    /\ On("dashboard") /\ "yes" \in ManagerOffers
    /\ SetsAndSends([local EXCEPT !.ending = TRUE], {Flight("endWash", None, <<local.confirm>>)})

\* Mutant of WashEnded: nothing is invalidated.
WashEndedQuietly == \E f \in Waiting("endWash"), done \in BOOLEAN :
    /\ local' = IF f.mine THEN [local EXCEPT !.ending = FALSE, !.confirm = 0] ELSE local
    /\ flights' = flights \ {f}
    /\ cache' = IF done THEN Missing({"active"}) ELSE cache
    /\ UNCHANGED <<tour, location, history, memory, storage, server>>

\* POST /payments/end-wash; a wash that had ended already is a success, too.
WashEnded == \E f \in Waiting("endWash"), done \in BOOLEAN :
    /\ local' = IF f.mine THEN [local EXCEPT !.ending = FALSE, !.confirm = 0] ELSE local
    /\ IF done THEN Invalidates({"active"}, {"active"}, flights \ {f})
               ELSE flights' = flights \ {f} /\ UNCHANGED cache
    /\ UNCHANGED <<tour, location, history, memory, storage, server>>

ActivePolls == local.page \in {"dashboard", "verification", "analytics"} /\ IntervalFires("active")

(***************************************************************************)
(* EnhancedPaymentVerification: a payment is looked up by its QR code, its *)
(* reference or PIN, or from the list of recent verifications; then its    *)
(* wash is started with a vehicle of the customer.                         *)
(***************************************************************************)
VerificationPage == [page |-> "verification", method |-> "qr", scanning |-> FALSE, typed |-> 0,
                     processing |-> FALSE, records |-> {}, selected |-> 0, vehicle |-> 0,
                     dialog |-> FALSE, vehicles |-> FALSE, chosen |-> 0, creating |-> {},
                     starting |-> FALSE]

VerificationMount ==
    /\ Mounts("verification", "/staff/payment")
    /\ local' = VerificationPage
    /\ MountAsks({"active", "verifications"}, flights)
    /\ UNCHANGED <<tour, location, history, memory, storage, server>>

VehicleModalOffers ==
    {"closeVehicles", "create", "choose"} \cup (IF local.chosen = 0 THEN {} ELSE {"link"})

RecordOffers == IF Has("verifications") THEN {"record"} ELSE {}

MethodOffers ==
    {"qr", "manual", "pin"}
    \cup (IF local.method = "qr" THEN IF local.scanning THEN {"stop", "decode"} ELSE {"scan"}
          ELSE {"type"} \cup (IF local.typed = 0 \/ local.processing THEN {} ELSE {"verify"}))

\* The dialog and the modal of the vehicles cover what is below them.
VerificationOffers ==
    IF local.vehicles /\ local.selected # 0 THEN VehicleModalOffers
    ELSE IF local.dialog /\ local.selected # 0
      THEN IF local.starting THEN {} ELSE {"start", "close"}
    ELSE MethodOffers \cup RecordOffers

ChooseMethod ==
    /\ On("verification")
    /\ \E offer \in VerificationOffers :
       /\ Uses(offer)
       /\ CASE offer \in {"qr", "manual", "pin"} -> Sets([local EXCEPT !.method = offer])
            [] offer \in {"scan", "stop"} -> Sets([local EXCEPT !.scanning = ~@])
            [] offer = "type" -> \E order \in Orders : Sets([local EXCEPT !.typed = order])
            [] offer = "close" -> Sets([local EXCEPT !.dialog = FALSE])
            [] OTHER -> FALSE

\* A decoded code is looked up at once, whatever is being looked up already.
VerifyPayment ==
    /\ On("verification")
    /\ \/ /\ "verify" \in VerificationOffers
          /\ SetsAndSends([local EXCEPT !.processing = TRUE],
                          {Flight("verifyPayment", None, <<local.typed>>)})
       \/ /\ "decode" \in MethodOffers
          /\ \E order \in Orders :
                SetsAndSends([local EXCEPT !.scanning = FALSE, !.processing = TRUE],
                             {Flight("verifyPayment", None, <<order>>)})

\* The payment that the dialog shows, with the vehicle of its order if it has one.
Shows(l, order) ==
    \E vehicle \in {0, order} :
        local' = [l EXCEPT !.selected = order, !.vehicle = vehicle, !.dialog = TRUE]

PaymentVerified == \E f \in Waiting("verifyPayment"), done \in BOOLEAN :
    LET l == [local EXCEPT !.processing = FALSE, !.typed = 0] IN
    /\ IF ~f.mine THEN UNCHANGED local ELSE IF done THEN Shows(l, f.arg[1]) ELSE local' = l
    /\ IF done THEN Invalidates({"verifications"}, {"verifications"}, flights \ {f})
               ELSE flights' = flights \ {f} /\ UNCHANGED cache
    /\ UNCHANGED <<tour, location, history, memory, storage, server>>

\* A recent verification is looked up once more, for its details.
OpenRecord ==
    /\ On("verification") /\ "record" \in VerificationOffers
    /\ Uses("record")
    /\ \E order \in Orders \ local.records : Sets([local EXCEPT !.records = @ \cup {order}])

RecordArrives ==
    /\ local.page = "verification"
    /\ \E order \in local.records :
       LET l == [local EXCEPT !.records = @ \ {order}] IN
       \/ Sets(l)
       \/ Shows(l, order) /\ UNCHANGED <<tour, location, history, flights, memory, storage, cache, server>>

\* confirmStartWash: without a vehicle one has to be associated first.
ConfirmStartWash ==
    /\ On("verification") /\ "start" \in VerificationOffers
    /\ IF local.vehicle = 0 THEN Sets([local EXCEPT !.vehicles = TRUE])
       ELSE SetsAndSends([local EXCEPT !.starting = TRUE],
                         {Flight("startWash", None, <<local.selected, local.vehicle>>)})

\* The wash history is not invalidated; the verifications, if they are
\* observed, are fetched again.  The dashboard follows, wherever the staff
\* member is by now.
WashStarted == \E f \in Waiting("startWash") :
    \/ Hears(f, [local EXCEPT !.starting = FALSE])
    \/ LET after == FlightsAfter({"active"}, {"active"}, flights \ {f}) IN
       /\ Navigate("/staff/dashboard", Refetched({"verifications"}, after))
       /\ cache' = Pending(CacheAfter({"active"}, {"active"}), {"verifications"} \cap Watched)
       /\ UNCHANGED <<tour, memory, storage, server>>

VehicleModal ==
    /\ On("verification")
    /\ \E offer \in VerificationOffers \cap {"closeVehicles", "choose", "link", "create"} :
       CASE offer = "closeVehicles" -> Sets([local EXCEPT !.vehicles = FALSE])
         [] offer = "choose" -> local.chosen = 0 /\ Sets([local EXCEPT !.chosen = local.selected])
         [] offer = "link" ->
              Sets(IF local.chosen # local.selected THEN local
                   ELSE [local EXCEPT !.vehicle = local.chosen, !.vehicles = FALSE])
         [] offer = "create" ->
              /\ local.selected \notin local.creating
              /\ Sets([local EXCEPT !.creating = @ \cup {local.selected}])

\* The new vehicle of the customer it was created for goes to the payment
\* that is selected by now.
VehicleCreated ==
    /\ local.page = "verification"
    /\ \E owner \in local.creating :
       LET l == [local EXCEPT !.creating = @ \ {owner}] IN
       \/ Sets(l)
       \/ Sets([l EXCEPT !.vehicle = IF local.selected = 0 THEN @ ELSE owner, !.vehicles = FALSE])

VerificationsPoll == local.page = "verification" /\ IntervalFires("verifications")

(***************************************************************************)
(* EnhancedVehicleManager.  What is typed is the plate of a vehicle, or 0  *)
(* when it is too short to search for; one vehicle is found.  The search   *)
(* and the addition of a vehicle share the flag "loading".                 *)
(***************************************************************************)
VehiclesPage == [page |-> "vehicles", tab |-> "search", query |-> 0, timer |-> FALSE,
                 searching |-> FALSE, failed |-> FALSE, results |-> 0, loading |-> FALSE,
                 selected |-> 0, deleting |-> {}, owner |-> 0, adding |-> 0]

VehiclesMount == Mounts("vehicles", "/staff/vehicle-manager") /\ Sets(VehiclesPage)

\* Mutant of Typed: a text too short to search for leaves the results of the last one.
TypedKeeping(l, text) ==
    [l EXCEPT !.query = text, !.timer = text # 0, !.searching = FALSE, !.failed = FALSE,
              !.loading = @ /\ ~l.searching]

\* The cleanup of the effect cancels the timer and aborts the request of the
\* text before, which ends the loading it had begun; then the effect starts
\* another timer, unless the text is too short.
Typed(l, text) ==
    [l EXCEPT !.query = text, !.timer = text # 0, !.searching = FALSE, !.failed = FALSE,
              !.loading = @ /\ ~l.searching, !.results = IF text = 0 THEN 0 ELSE @]

\* The results are shown whatever is typed meanwhile.
SearchTabOffers ==
    {"type"} \cup (IF local.results = 0 THEN {} ELSE {"select", "delete"})

AddTabOffers ==
    {"owner"} \cup (IF local.loading \/ local.owner = 0 THEN {} ELSE {"add"})

VehiclesOffers == {"search", "adds"} \cup IF local.tab = "search" THEN SearchTabOffers ELSE AddTabOffers

ManageVehicles ==
    /\ On("vehicles")
    /\ \E offer \in VehiclesOffers :
       /\ Uses(offer)
       /\ CASE offer \in {"search", "adds"} -> Sets([local EXCEPT !.tab = offer])
            [] offer = "type" -> \E text \in {0} \cup Orders : text # local.query /\ Sets(Typed(local, text))
            [] offer = "select" -> Sets([local EXCEPT !.selected = local.results])
            [] offer = "delete" -> Sets([local EXCEPT !.deleting = @ \cup {local.results}])
            [] offer = "owner" -> \E owner \in {0} \cup Orders : Sets([local EXCEPT !.owner = owner])
            [] offer = "add" -> Sets([local EXCEPT !.loading = TRUE, !.adding = local.owner])

SearchStarts ==
    /\ local.page = "vehicles" /\ local.timer
    /\ Sets([local EXCEPT !.timer = FALSE, !.searching = TRUE, !.loading = TRUE])

SearchEnds ==
    /\ local.page = "vehicles" /\ local.searching
    /\ LET l == [local EXCEPT !.searching = FALSE, !.loading = FALSE] IN
       \/ \E found \in {0, l.query} : Sets([l EXCEPT !.results = found])
       \/ Sets([l EXCEPT !.failed = TRUE])

\* Mutant of VehicleAdded: a failure leaves the page loading.
VehicleAddedStuck ==
    /\ local.page = "vehicles" /\ local.adding # 0
    /\ \/ Sets([local EXCEPT !.adding = 0])
       \/ Sets(Typed([local EXCEPT !.adding = 0, !.loading = FALSE, !.tab = "search", !.owner = 0],
                     local.adding))

\* The added vehicle is searched for, unless its plate is what was typed
\* already: then what was found before stays.
VehicleAdded ==
    /\ local.page = "vehicles" /\ local.adding # 0
    /\ LET l == [local EXCEPT !.adding = 0, !.loading = FALSE] IN
       \/ Sets(l)
       \/ LET added == [l EXCEPT !.tab = "search", !.owner = 0] IN
          Sets(IF l.query = local.adding THEN added ELSE Typed(added, local.adding))

\* DELETE of a vehicle, for the owner of the selected one if there is one:
\* under another owner the server does not find it.
VehicleDeleted ==
    /\ local.page = "vehicles"
    /\ \E vehicle \in local.deleting :
       LET l == [local EXCEPT !.deleting = @ \ {vehicle}] IN
       \/ Sets(l)
       \/ /\ local.selected \in {0, vehicle}
          /\ Sets([l EXCEPT !.results = IF @ = vehicle THEN 0 ELSE @, !.selected = 0])

(***************************************************************************)
(* EnhancedWashHistory.  A filter that finds less has fewer pages.  The     *)
(* query of each filter and page has an entry of its own in the cache: one *)
(* that is not there yet shows the page loading, without a total.          *)
(***************************************************************************)
HistoryPage == [page |-> "washHistory", filter |-> 0, typing |-> {}, number |-> 1,
                shows |-> "loading", wash |-> FALSE]

Periods == {"week", "month"}

PagesOf(filter) == IF filter = 0 THEN 2 ELSE 1

HistoryMount == Mounts("washHistory", "/staff/wash-history") /\ Sets(HistoryPage)

\* Another filter, page or period: from the cache, or loading.  The period is
\* kept in localStorage, for this page and for the analytics.
Queried(l, period) ==
    /\ \E shows \in {"loading", "data"} : local' = [l EXCEPT !.shows = shows]
    /\ storage' = [storage EXCEPT !.period = period]
    /\ UNCHANGED <<tour, location, history, flights, memory, cache, server>>

FilterOffers == {"period", "type", "choose", "clear"}

\* Only a page with washes has the buttons to leave it.
PagingOffers ==
    IF local.shows # "data" THEN {}
    ELSE {local.number - 1, local.number + 1} \cap (1..PagesOf(local.filter))

WashListOffers == IF local.shows = "data" THEN {"open"} ELSE {}

WashModalOffers == {"close"}

HistoryOffers == IF local.wash THEN WashModalOffers ELSE FilterOffers \cup WashListOffers

\* A chosen filter applies at once, a typed one after 300 ms; clearing the
\* filters does not stop the timer of a typed one.
HandleFilterChange ==
    /\ On("washHistory")
    /\ \E offer \in HistoryOffers :
       /\ Uses(offer)
       /\ CASE offer = "period" -> \E period \in Periods \cup {"custom"} :
                                      Queried([local EXCEPT !.number = 1], period)
            [] offer = "choose" -> \E filter \in {0, 1} :
                                      Queried([local EXCEPT !.filter = filter, !.number = 1], storage.period)
            [] offer = "clear" -> Queried([local EXCEPT !.filter = 0, !.number = 1], storage.period)
            [] offer = "type" -> \E filter \in {0, 1} : Sets([local EXCEPT !.typing = {filter}])
            [] offer \in {"open", "close"} -> Sets([local EXCEPT !.wash = ~@])

TypedFilter ==
    /\ local.page = "washHistory"
    /\ \E filter \in local.typing :
          Queried([local EXCEPT !.filter = filter, !.number = 1, !.typing = {}], storage.period)

TurnPage ==
    /\ On("washHistory") /\ ~local.wash
    /\ \E number \in PagingOffers : Queried([local EXCEPT !.number = number], storage.period)

\* A failed query looks like one that has found nothing.
HistoryArrives ==
    /\ local.page = "washHistory" /\ local.shows = "loading"
    /\ \E shows \in {"data", "nothing"} : Sets([local EXCEPT !.shows = shows])

(***************************************************************************)
(* EnhancedAnalytics and CustomerAnalytics.                                *)
(***************************************************************************)
\* A period kept as "custom" by the wash history counts as the week here.
\* Figures are shown before any have arrived: those of no washes.
AnalyticsMount ==
    /\ Mounts("analytics", "/staff/analytics")
    /\ \E shows \in {"loading", "data"} :
          local' = [page |-> "analytics", shows |-> shows, linear |-> TRUE]
    /\ MountAsks({"active"}, flights)
    /\ UNCHANGED <<tour, location, history, memory, storage, server>>

AnalyticsArrives ==
    /\ local.page = "analytics" /\ local.shows = "loading"
    /\ Sets([local EXCEPT !.shows = "data"])

AnalyticsOffers == {"period", "charts"}

AnalyticsToggles ==
    /\ On("analytics")
    /\ \E offer \in AnalyticsOffers :
       CASE offer = "period" -> \E period \in Periods : Queried(local, period)
         [] offer = "charts" -> Sets([local EXCEPT !.linear = ~@])

CustomersMount ==
    /\ Mounts("customers", "/staff/customer-analytics")
    /\ local' = [page |-> "customers", refreshing |-> FALSE, refreshed |-> FALSE]
    /\ MountAsks({"customers"}, flights)
    /\ UNCHANGED <<tour, location, history, memory, storage, server>>

CustomersShow ==
    IF Loads("customers") THEN "skeleton" ELSE IF Fails("customers") THEN "error" ELSE "figures"

CustomersOffers == IF local.refreshing THEN {} ELSE {"refresh"}

HandleRefresh ==
    /\ On("customers") /\ "refresh" \in CustomersOffers
    /\ SetsAndSends([local EXCEPT !.refreshing = TRUE], {Flight("recompute", None, <<>>)})

\* POST /analytics/customers/refresh: the server computes the figures anew.
Recomputed == \E f \in Waiting("recompute"), done \in BOOLEAN :
    /\ local' = IF f.mine THEN [local EXCEPT !.refreshing = FALSE, !.refreshed = @ \/ done] ELSE local
    /\ IF done THEN Invalidates({"customers"}, {"customers"}, flights \ {f})
               ELSE flights' = flights \ {f} /\ UNCHANGED cache
    /\ UNCHANGED <<tour, location, history, memory, storage, server>>

\* "Updated" is shown for four seconds.
RefreshedFades == On("customers") /\ local.refreshed /\ Sets([local EXCEPT !.refreshed = FALSE])

(***************************************************************************)
(* ManualVisitLogger.  The wash of a client can be started as long as the  *)
(* page says that the visit has been logged: a start that has failed       *)
(* cannot be tried again without logging another visit.                    *)
(***************************************************************************)
VisitPage == [page |-> "visit", cell |-> 0, last |-> 0, status |-> None, loading |-> None]

VisitMount == Mounts("visit", "/staff/manual-visit") /\ Sets(VisitPage)

VisitOffers ==
    IF local.loading # None THEN {}
    ELSE {"type"} \cup (IF local.cell = 0 THEN {} ELSE {"log"})
                  \cup (IF local.last # 0 /\ local.status = "logged" THEN {"wash"} ELSE {})

TypeCell ==
    /\ On("visit") /\ "type" \in VisitOffers
    /\ \E cell \in {0} \cup Orders : Sets([local EXCEPT !.cell = cell])

\* The staff member confirms the number, or thinks better of it.
ConfirmAndLog ==
    /\ On("visit") /\ "log" \in VisitOffers
    /\ \/ Sets([local EXCEPT !.status = None])
       \/ SetsAndSends([local EXCEPT !.status = None, !.loading = "log"],
                       {Flight("logVisit", None, <<local.cell>>)})

\* POST /auth/visits/manual: its 401 reloads the tab before the page can say
\* "Please log in again".
VisitLogged == \E f \in Waiting("logVisit") :
    LET l == [local EXCEPT !.loading = None] IN
    \/ ForcedOut
    \/ Hears(f, [l EXCEPT !.last = 0, !.status = "failed"])
    \/ Hears(f, [l EXCEPT !.last = f.arg[1], !.status = "logged", !.cell = 0])

HandleStartWash ==
    /\ On("visit") /\ "wash" \in VisitOffers
    /\ Sets([local EXCEPT !.loading = "wash", !.status = None])

ManualWashStarted ==
    /\ local.page = "visit" /\ local.loading = "wash"
    /\ \E status \in {None, "failed"} : Sets([local EXCEPT !.loading = None, !.status = status])

-----------------------------------------------------------------------------
\* What the page waits for.
StaffPagesWait ==
    (IF \/ local.page = "dashboard" /\ OverviewShows = "skeleton"
        \/ local.page = "verification" /\ local.processing
        \/ local.page \in {"washHistory", "analytics"} /\ local.shows = "loading"
        \/ local.page = "customers" /\ CustomersShow = "skeleton"
       THEN {"data"} ELSE {})
    \cup (IF \/ local.page = "dashboard" /\ local.ending
             \/ local.page = "verification" /\ local.starting
             \/ local.page = "vehicles" /\ local.loading
             \/ local.page = "customers" /\ local.refreshing
             \/ local.page = "visit" /\ local.loading # None
            THEN {"sent"} ELSE {})

StaffPagesMount ==
    \/ DashboardMount \/ VerificationMount \/ VehiclesMount \/ HistoryMount
    \/ AnalyticsMount \/ CustomersMount \/ VisitMount

StaffPolls == ActivePolls \/ VerificationsPoll

StaffPagesSettle ==
    \/ WashEnded \/ PaymentVerified \/ RecordArrives \/ WashStarted \/ VehicleCreated
    \/ SearchStarts \/ SearchEnds \/ VehicleAdded \/ VehicleDeleted
    \/ TypedFilter \/ HistoryArrives \/ AnalyticsArrives \/ Recomputed \/ RefreshedFades
    \/ VisitLogged \/ ManualWashStarted

StaffPagesFairness ==
    /\ WF_vars(WashEnded) /\ WF_vars(PaymentVerified) /\ WF_vars(RecordArrives)
    /\ WF_vars(WashStarted) /\ WF_vars(VehicleCreated) /\ WF_vars(SearchStarts)
    /\ WF_vars(SearchEnds) /\ WF_vars(VehicleAdded) /\ WF_vars(VehicleDeleted)
    /\ WF_vars(TypedFilter) /\ WF_vars(HistoryArrives) /\ WF_vars(AnalyticsArrives)
    /\ WF_vars(Recomputed) /\ WF_vars(RefreshedFades) /\ WF_vars(VisitLogged)
    /\ WF_vars(ManualWashStarted)

StaffPagesActions ==
    \/ HandleEndClick \/ ManagerToggles \/ ManagerRefetches \/ ConfirmEnd
    \/ ChooseMethod \/ VerifyPayment \/ OpenRecord \/ ConfirmStartWash \/ VehicleModal
    \/ ManageVehicles \/ HandleFilterChange \/ TurnPage
    \/ AnalyticsToggles \/ HandleRefresh \/ TypeCell \/ ConfirmAndLog \/ HandleStartWash
=============================================================================
