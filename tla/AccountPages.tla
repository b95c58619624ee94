---------------------------- MODULE AccountPages ----------------------------
(***************************************************************************)
(* The customer's own pages: Welcome, MyLoyalty, PastOrders, Account and   *)
(* EnhancedProfile.                                                        *)
(***************************************************************************)
EXTENDS Queries

(***************************************************************************)
(* Welcome.  Every three seconds it asks for the visits, the rewards and   *)
(* the wash under way, and keeps the answer in localStorage; storage.wash  *)
(* stands for those entries.  The chain of requests started by the effect  *)
(* is the flight "poll", or "pollTimer" between two requests.              *)
(***************************************************************************)
WelcomePage == [page |-> "welcome", wash |-> storage.wash, rewards |-> None,
                greeting |-> storage.justOnboarded, claims |-> 0]

\* The mount effects run for the team, too, whom the page sends on.
WelcomeMount ==
    /\ Mounts("welcome", "/")
    /\ storage' = [storage EXCEPT !.justOnboarded = FALSE]
    /\ LET polling == flights \cup {Flight("poll", None, <<>>)} IN
       IF memory.user \in {"admin", "staff"} THEN Navigate(HomeOf(memory.user), polling)
       ELSE /\ flights' = polling
            /\ local' = WelcomePage
            /\ Stays
    /\ UNCHANGED <<tour, memory, cache, server>>

\* An answer is kept even if the page has been left or has a new chain; only
\* the page's own chain goes on.  A failure forgets what was kept.
PollArrives == \E f \in Waiting("poll") \cup Waiting("pollOld"),
                  wash \in {None, "active", "ended", "failed"} :
    LET kept == IF wash = "failed" THEN None ELSE wash IN
    /\ storage' = [storage EXCEPT !.wash = kept]
    /\ \E rewards \in {None, "ready"} :
          local' = IF ~f.mine THEN local
                   ELSE IF wash = "failed" THEN [local EXCEPT !.wash = kept]
                   ELSE [local EXCEPT !.wash = kept, !.rewards = rewards]
    /\ flights' = (flights \ {f}) \cup (IF f.kind = "poll" /\ f.mine
                                          THEN {Flight("pollTimer", None, <<>>)} ELSE {})
    /\ UNCHANGED <<tour, location, history, memory, cache, server>>

PollTimer == \E f \in Waiting("pollTimer") :
    /\ flights' = GoesOn(f, "poll", <<>>)
    /\ UNCHANGED <<tour, location, history, local, memory, storage, cache, server>>

\* Only the greeting of a new customer is shown until it is closed.
WelcomeOffers ==
    IF local.greeting THEN {"close"}
    ELSE {"/myloyalty", "/order"} \cup (IF local.rewards = "ready" THEN {"claim"} ELSE {})

CloseModal ==
    /\ On("welcome") /\ "close" \in WelcomeOffers
    /\ Sets([local EXCEPT !.greeting = FALSE])

WelcomeLinks ==
    /\ On("welcome")
    /\ \E path \in WelcomeOffers \cap {"/myloyalty", "/order"} : Navigate(path, flights)
    /\ UNCHANGED <<tour, memory, storage, cache, server>>

\* POST /loyalty/reward: nothing keeps the customer from claiming again before
\* the answer; the rewards change with the next poll only.
HandleClaimReward ==
    /\ On("welcome") /\ "claim" \in WelcomeOffers
    /\ local.claims < MaxFlights
    /\ Sets([local EXCEPT !.claims = @ + 1])

ClaimEnds ==
    /\ local.page = "welcome" /\ local.claims > 0
    /\ Sets([local EXCEPT !.claims = @ - 1])

(***************************************************************************)
(* MyLoyalty.                                                              *)
(***************************************************************************)
LoyaltyMount ==
    /\ Mounts("loyalty", "/myloyalty")
    /\ local' = [page |-> "loyalty", reward |-> FALSE]
    /\ MountAsks({"loyalty"}, flights)
    /\ UNCHANGED <<tour, location, history, memory, storage, server>>

\* An error, of a background fetch too, leaves only a reload of the tab.
LoyaltyOffers ==
    IF Fails("loyalty") THEN {"reload"}
    ELSE IF Loads("loyalty") THEN {}
    ELSE IF local.reward THEN {"close"}
    ELSE {"reward", "/order", "/past-orders"}

LoyaltyTries ==
    /\ On("loyalty") /\ "reload" \in LoyaltyOffers
    /\ Reloads(location)
    /\ UNCHANGED <<tour, storage>>

HandleRewardClick ==
    /\ On("loyalty")
    /\ {"reward", "close"} \cap LoyaltyOffers # {}
    /\ Sets([local EXCEPT !.reward = ~@])

LoyaltyLinks ==
    /\ On("loyalty")
    /\ \E path \in LoyaltyOffers \cap {"/order", "/past-orders"} : Navigate(path, flights)
    /\ UNCHANGED <<tour, memory, storage, cache, server>>

(***************************************************************************)
(* PastOrders.  useFetch ignores an answer that comes after the unmount.   *)
(***************************************************************************)
PastOrdersPage == [page |-> "pastOrders", loading |-> TRUE, failure |-> FALSE, some |-> FALSE,
                   details |-> FALSE, order |-> FALSE]

PastOrdersMount == Mounts("pastOrders", "/past-orders") /\ Sets(PastOrdersPage)

PastOrdersArrive ==
    /\ local.page = "pastOrders" /\ local.loading
    /\ LET l == [local EXCEPT !.loading = FALSE] IN
       \/ Sets([l EXCEPT !.failure = TRUE])
       \/ \E some \in BOOLEAN : Sets([l EXCEPT !.some = some])

\* A card opens its order; its details cover the page, as does their loading.
OrderCardOffers == {"view", "/order"}

PastOrdersOffers ==
    IF local.details THEN {}
    ELSE IF local.order THEN {"close", "/order"}
    ELSE IF ~local.loading /\ local.some THEN OrderCardOffers ELSE {}

LoadOrderDetails ==
    /\ On("pastOrders") /\ "view" \in PastOrdersOffers
    /\ Sets([local EXCEPT !.details = TRUE])

OrderDetailsArrive ==
    /\ local.page = "pastOrders" /\ local.details
    /\ \E found \in BOOLEAN : Sets([local EXCEPT !.details = FALSE, !.order = found])

CloseOrder ==
    /\ On("pastOrders") /\ "close" \in PastOrdersOffers
    /\ Sets([local EXCEPT !.order = FALSE])

HandleBookAgain ==
    /\ On("pastOrders") /\ "/order" \in PastOrdersOffers
    /\ Navigate("/order", flights)
    /\ UNCHANGED <<tour, memory, storage, cache, server>>

(***************************************************************************)
(* Account.                                                                *)
(***************************************************************************)
AccountMount == Mounts("account", "/account")
                /\ Sets([page |-> "account", editing |-> FALSE, failure |-> FALSE])

AccountOffers == {"logout"} \cup IF local.editing THEN {"save", "cancel"} ELSE {"edit"}

HandleEdit ==
    /\ On("account") /\ {"edit", "cancel"} \cap AccountOffers # {}
    /\ Sets([local EXCEPT !.editing = ~@, !.failure = FALSE])

\* Nothing keeps the customer from saving again, or from closing the form and
\* opening it anew, while the request is under way.
HandleSave ==
    /\ On("account") /\ "save" \in AccountOffers
    /\ Cardinality(flights) < MaxFlights
    /\ SetsAndSends([local EXCEPT !.failure = FALSE], {Flight("saveAccount", None, <<>>)})

\* PUT /auth/me, and then refreshUser and the end of the editing, whoever
\* opened the form meanwhile.
SaveEnds == \E f \in Waiting("saveAccount") :
    \/ ForcedOut
    \/ Hears(f, [local EXCEPT !.failure = TRUE])
    \/ /\ flights' = GoesOn(f, "refreshAccount", <<>>)
       /\ UNCHANGED <<tour, location, history, local, memory, storage, cache, server>>

AccountRefreshed == \E f \in Waiting("refreshAccount"), reply \in {"ok", "forbidden", "failed", "rejected"} :
    /\ reply \in RefreshReplies
    /\ HearsMe([f EXCEPT !.key = tour.who], reply, Nowhere, GoesOn(f, "saved", <<>>))

EditingEnds == \E f \in Waiting("saved") : Hears(f, [local EXCEPT !.editing = FALSE])

HandleLogout ==
    /\ On("account") /\ "logout" \in AccountOffers
    /\ Uses("logout")
    /\ SignsOut
    /\ Navigate("/login", flights)

(***************************************************************************)
(* EnhancedProfile.  Its mutations are flights whose success is acted on   *)
(* by the cache even if the page has been left.                            *)
(***************************************************************************)
ProfilePage == [page |-> "profile", editing |-> FALSE, updating |-> FALSE,
                form |-> FALSE, adding |-> FALSE]

ProfileMount ==
    /\ Mounts("profile", "/profile")
    /\ local' = ProfilePage
    /\ MountAsks({"profile"}, flights)
    /\ UNCHANGED <<tour, location, history, memory, storage, server>>

PersonalOffers ==
    IF ~local.editing THEN {"edit"}
    ELSE IF local.updating THEN {} ELSE {"update", "cancel"}

VehicleFormOffers == {"closeForm"} \cup IF local.adding THEN {} ELSE {"add"}

ProfileOffers ==
    IF Loads("profile") THEN {}
    ELSE {"refresh"} \cup
         IF Fails("profile") THEN {}
         ELSE IF local.form THEN VehicleFormOffers
         ELSE PersonalOffers \cup {"openForm", "delete"}

ProfileRefreshes ==
    /\ On("profile") /\ "refresh" \in ProfileOffers
    /\ ~Fetching("profile") \* again while it is fetched changes nothing
    /\ Invalidates({"profile"}, {}, flights)
    /\ UNCHANGED <<tour, location, history, local, memory, storage, server>>

ProfileForms ==
    /\ On("profile")
    /\ \E offer \in ProfileOffers :
       /\ Uses(offer)
       /\ CASE offer \in {"edit", "cancel"} -> Sets([local EXCEPT !.editing = ~@])
            [] offer \in {"openForm", "closeForm"} -> Sets([local EXCEPT !.form = ~@])
            [] offer = "update" ->
                 SetsAndSends([local EXCEPT !.updating = TRUE], {Flight("updateProfile", None, <<>>)})
            [] offer = "add" ->
                 SetsAndSends([local EXCEPT !.adding = TRUE], {Flight("addVehicle", None, <<>>)})
            [] offer = "delete" -> SetsAndSends(local, {Flight("deleteVehicle", None, <<>>)})
            [] OTHER -> FALSE

\* The state of the page after mutation f, which succeeded or not.
AfterMutation(f, done) ==
    IF ~f.mine THEN local
    ELSE CASE f.kind = "updateProfile" -> [local EXCEPT !.updating = FALSE, !.editing = @ /\ ~done]
           [] f.kind = "addVehicle" -> [local EXCEPT !.adding = FALSE, !.form = @ /\ ~done]
           [] OTHER -> local

Mutations == {"updateProfile", "addVehicle", "deleteVehicle"}

\* A failure may hide that the server has done what was asked.
ProfileMutated(kind) == \E f \in Waiting(kind), done \in BOOLEAN :
    /\ local' = AfterMutation(f, done)
    /\ IF done
         THEN Invalidates({"profile"}, {"profile"},
                (flights \ {f}) \cup (IF kind = "updateProfile"
                                        THEN {Flight("refresh", tour.who, <<>>)} ELSE {}))
         ELSE flights' = flights \ {f} /\ UNCHANGED cache
    /\ UNCHANGED <<tour, location, history, memory, storage, server>>

-----------------------------------------------------------------------------
\* What the page waits for.
AccountPagesWait ==
    (IF \/ local.page = "loyalty" /\ Loads("loyalty")
        \/ local.page = "pastOrders" /\ (local.loading \/ local.details)
        \/ local.page = "profile" /\ Loads("profile")
       THEN {"data"} ELSE {})
    \cup (IF local.page = "profile" /\ local.updating THEN {"sent"} ELSE {})
    \cup (IF local.page = "profile" /\ local.adding THEN {"moreSent"} ELSE {})

AccountPagesMount == WelcomeMount \/ LoyaltyMount \/ PastOrdersMount \/ AccountMount \/ ProfileMount

AccountPagesSettle ==
    \/ ClaimEnds \/ PastOrdersArrive \/ OrderDetailsArrive
    \/ SaveEnds \/ AccountRefreshed \/ EditingEnds
    \/ \E kind \in Mutations : ProfileMutated(kind)

AccountPagesFairness ==
    /\ WF_vars(ClaimEnds) /\ WF_vars(PastOrdersArrive) /\ WF_vars(OrderDetailsArrive)
    /\ WF_vars(SaveEnds) /\ WF_vars(AccountRefreshed) /\ WF_vars(EditingEnds)
    /\ \A kind \in Mutations : WF_vars(ProfileMutated(kind))

Polls == PollArrives \/ PollTimer

AccountPagesActions ==
    \/ CloseModal \/ WelcomeLinks \/ HandleClaimReward
    \/ LoyaltyTries \/ HandleRewardClick \/ LoyaltyLinks
    \/ LoadOrderDetails \/ CloseOrder \/ HandleBookAgain
    \/ HandleEdit \/ HandleSave \/ HandleLogout \/ ProfileRefreshes \/ ProfileForms
=============================================================================
