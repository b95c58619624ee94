----------------------------- MODULE OrderPages -----------------------------
(***************************************************************************)
(* Booking and paying a wash: OrderForm with its DateTimePicker and        *)
(* ServiceCards, Payment, and OrderConfirmation with its CalendarModal.    *)
(*                                                                         *)
(* A month of the calendar has one bookable day, named by the month, and a *)
(* time slot is named by the day it was offered for.  There is one extra.  *)
(* Prices are in rands; the total and the card payments are in cents.      *)
(***************************************************************************)
EXTENDS Queries

CONSTANTS
    Catalog,      \* sequence of services: [category, price]
    ExtraPrice,   \* price of the extra in each category
    Specials,     \* which categories may be named "Fullhouse"; 0 when none is
    RewardValue,  \* discount of a reward, in cents
    MaxQuantity,  \* bound on the quantity of the service
    MaxMonth      \* bound on the months the customer looks at

\* The catalog is not empty, and its categories are those of its services.
\* Prices are whole rands; a service is booked at least once, and there is a
\* month to look at.
ASSUME CatalogAssumption ==
    /\ 1 \in DOMAIN ExtraPrice
    /\ DOMAIN ExtraPrice = {Catalog[s].category : s \in 1..Len(Catalog)}
    /\ Specials \subseteq {0} \cup DOMAIN ExtraPrice
    /\ \A s \in 1..Len(Catalog) : Catalog[s].price \in Int /\ ExtraPrice[Catalog[s].category] \in Int
    /\ Len(Catalog) \in Nat /\ RewardValue \in Nat
    /\ MaxQuantity \in Nat \ {0} /\ MaxMonth \in Nat \ {0}

ServicesOf(category) == {s \in 1..Len(Catalog) : Catalog[s].category = category}

\* What an order costs by the catalog, in cents.
Price(order) == 100 * (Catalog[order.service].price * order.quantity
                       + ExtraPrice[Catalog[order.service].category] * order.extra)

(***************************************************************************)
(* OrderForm.                                                              *)
(***************************************************************************)
Picker == [month |-> 1, shown |-> 0, waiting |-> TRUE, timers |-> <<1>>]

OrderFormPage == [page |-> "order", step |-> 1, category |-> 0,
                  service |-> 0, quantity |-> 1, extra |-> 0, date |-> 0, time |-> 0,
                  picker |-> Picker, submitting |-> FALSE]

\* The effects that run after the catalog or the category has changed: the
\* category "Fullhouse" is forced if there is one, and a service of another
\* category is replaced by the first of this one.
Defaults(l) ==
    LET category == IF server.special # 0 THEN server.special
                    ELSE IF l.category = 0 THEN 1 ELSE l.category
        mine == ServicesOf(category) IN
    IF l.service \in mine THEN [l EXCEPT !.category = category]
    ELSE [l EXCEPT !.category = category, !.quantity = 1,
                   !.service = CHOOSE s \in mine : \A t \in mine : s <= t]

\* Mutant of Total: the quantity is forgotten.
TotalOfOne(l) == 100 * (Catalog[l.service].price + ExtraPrice[l.category] * l.extra)

Total(l) == 100 * (Catalog[l.service].price * l.quantity + ExtraPrice[l.category] * l.extra)

CanProceedToStep2(l) == l.service # 0 /\ l.category # 0
CanProceedToStep3(l) == CanProceedToStep2(l) /\ l.date # 0 /\ l.time # 0

\* The mount effects.
OrderFormMount ==
    /\ Mounts("order", "/order")
    /\ storage' = [storage EXCEPT !.pending = <<>>]
    /\ local' = OrderFormPage
    /\ MountAsks({"catalog"}, flights)
    /\ UNCHANGED <<tour, location, history, memory, server>>

\* The effects that the catalog brings.
CatalogShows ==
    /\ On("order") /\ local.category = 0 /\ Has("catalog")
    /\ Sets(Defaults(local))

\* A failed background refetch replaces the form by the error as well.
OrderFormShows(step) ==
    /\ On("order") /\ local.step = step /\ local.category # 0
    /\ Has("catalog") /\ ~Fails("catalog")

\* Step 1: a tab per category, a card per service of the category (the selected
\* one with its quantity), the extras, and Next.
StepOneOffers ==
    LET c == local.category IN
    {<<"category", d>> : d \in DOMAIN ExtraPrice}
    \cup {<<"service", s>> : s \in ServicesOf(c)}
    \cup {<<"extra", e>> : e \in {local.extra + 1} \cup (IF local.extra = 0 THEN {} ELSE {local.extra - 1})}
    \cup (IF CanProceedToStep2(local) THEN {<<"next", 2>>} ELSE {})

\* Mutant of ServiceCardOffers: the minus button is never disabled.
ServiceCardOffersNone ==
    {<<"quantity", q>> : q \in {local.quantity - 1, local.quantity + 1}}

ServiceCardOffers ==
    {<<"quantity", q>> : q \in {local.quantity + 1}
                               \cup (IF local.quantity <= 1 THEN {} ELSE {local.quantity - 1})}

ChooseService ==
    /\ OrderFormShows(1)
    /\ \E offer \in StepOneOffers \cup ServiceCardOffers :
       LET n == offer[2] IN
       /\ Uses(offer[1])
       /\ CASE offer[1] = "category" -> Sets(Defaults([local EXCEPT !.category = n]))
            [] offer[1] = "service" -> Sets([local EXCEPT !.service = n])
            [] offer[1] = "quantity" -> n <= MaxQuantity /\ Sets([local EXCEPT !.quantity = n])
            [] offer[1] = "extra" -> n <= 1 /\ Sets([local EXCEPT !.extra = n])
            [] offer[1] = "next" -> Sets([local EXCEPT !.step = 2])

\* DateTimePicker shows a month: its days once availability has arrived, and
\* the slots of the selected date as long as the availability holds that date.
PickerShows(l) ==
    LET p == l.picker IN
    {<<"month", m>> : m \in {p.month - 1, p.month + 1} \cap (1..MaxMonth)}
    \cup (IF ~p.waiting /\ p.shown = p.month THEN {<<"day", p.month>>} ELSE {})
    \cup (IF l.date # 0 /\ p.shown = l.date THEN {<<"slot", l.date>>} ELSE {})

StepTwoOffers(l) == PickerShows(l) \cup {<<"prev", 1>>}
                    \cup (IF CanProceedToStep3(l) THEN {<<"next", 3>>} ELSE {})

\* Mutant of OnDateTimeChange: the slot of another day stays.
OnDateTimeChangeKeeping(l, date, time) ==
    [l EXCEPT !.date = date, !.time = IF time = 0 THEN @ ELSE time]

\* A picked day forgets the slot picked for another one.
OnDateTimeChange(l, date, time) == [l EXCEPT !.date = date, !.time = time]

\* Another month is asked for while the timers of earlier ones still run.
ChooseTime ==
    /\ OrderFormShows(2)
    /\ \E offer \in StepTwoOffers(local) :
       LET n == offer[2] IN
       /\ Uses(offer[1])
       /\ CASE offer[1] = "month" ->
                /\ Len(local.picker.timers) < MaxMonth
                /\ Sets([local EXCEPT !.picker =
                             [local.picker EXCEPT !.month = n, !.waiting = TRUE, !.timers = Append(@, n)]])
            [] offer[1] = "day" -> Sets(OnDateTimeChange(local, n, 0))
            [] offer[1] = "slot" -> Sets(OnDateTimeChange(local, local.date, n))
            [] offer[1] \in {"prev", "next"} -> Sets([local EXCEPT !.step = n, !.picker = Picker])

\* The timers that stand for the request for availability fire in order.
AvailabilityArrives ==
    /\ OrderFormShows(2) /\ local.picker.timers # <<>>
    /\ Sets([local EXCEPT !.picker = [local.picker EXCEPT !.shown = Head(local.picker.timers),
                                                          !.waiting = FALSE, !.timers = Tail(@)]])

\* Mutant of StepThreeOffers: Confirm is not disabled.
StepThreeOffersAlways == {"prev", "confirm"}

\* Step 3: the review.  Submitting disables Confirm alone.
StepThreeOffers == {"prev"} \cup IF local.submitting THEN {} ELSE {"confirm"}

ReviewBack ==
    /\ OrderFormShows(3) /\ "prev" \in StepThreeOffers
    /\ Sets([local EXCEPT !.step = 2])

\* handleSubmit: the request carries the form as it is now, with its total.
HandleSubmit ==
    /\ OrderFormShows(3) /\ "confirm" \in StepThreeOffers
    /\ Len(server.orders) + Cardinality(Waiting("create")) < tour.orders
    /\ SetsAndSends([local EXCEPT !.submitting = TRUE],
         {Flight("create", None, <<local.service, local.quantity, local.extra, Total(local),
                                   local.date, local.time>>)})

\* POST /orders/create at the backend.
ServerCreates == \E f \in Waiting("create") :
    \/ /\ server' = [server EXCEPT !.orders = Append(@,
             [service |-> f.arg[1], quantity |-> f.arg[2], extra |-> f.arg[3],
              status |-> "created", paid |-> 0])]
       /\ \/ flights' = Answered(f, "ok", Len(server.orders) + 1)
          \/ flights' = Answered(f, "failed", 0)
       /\ UNCHANGED <<tour, location, history, local, memory, storage, cache>>
    \/ Answers(f, "failed", 0)

\* Mutant of SubmitEnds: a failure leaves the button disabled.
SubmitEndsSilently == \E f \in Arriving("create") :
    IF f.reply = "failed" THEN Hears(f, local)
    ELSE /\ storage' = [storage EXCEPT !.pending = <<f.value, f.arg[4]>>]
         /\ NavigateWith([At("/order/payment") EXCEPT !.order = f.value, !.amount = f.arg[4]],
                         flights \ {f})
         /\ UNCHANGED <<tour, memory, cache, server>>

\* The answer is acted on wherever the customer is by now.
SubmitEnds == \E f \in Arriving("create") :
    IF f.reply = "failed" THEN Hears(f, [local EXCEPT !.submitting = FALSE])
    ELSE /\ storage' = [storage EXCEPT !.pending = <<f.value, f.arg[4]>>]
         /\ NavigateWith([At("/order/payment") EXCEPT !.order = f.value, !.amount = f.arg[4]],
                         flights \ {f})
         /\ UNCHANGED <<tour, memory, cache, server>>

(***************************************************************************)
(* Payment.                                                                *)
(***************************************************************************)
PaymentPage == [page |-> "payment", paying |-> FALSE, yoco |-> memory.sdk, order |-> 0,
                applied |-> FALSE, discount |-> 0, reward |-> None, eligible |-> FALSE,
                checks |-> 0, fetching |-> TRUE, applying |-> FALSE]

AmountToPay == location.amount - local.discount

\* The effects that depend on the order: it becomes the pending one, and its
\* service is asked for.  The reward applied to another order stays.
OrderEffects(l) ==
    /\ storage' = [storage EXCEPT !.pending = <<location.order, location.amount>>]
    /\ local' = [l EXCEPT !.order = location.order, !.checks = @ + 1]
    /\ UNCHANGED <<tour, location, history, flights, memory, cache, server>>

\* Without location.state every effect navigates, and the last one wins: home.
PaymentMount ==
    /\ Mounts("payment", "/order/payment")
    /\ IF location.order # 0
         THEN OrderEffects(PaymentPage)
         ELSE Navigate("/", flights) /\ UNCHANGED <<tour, memory, storage, cache, server>>

PaymentOtherOrder ==
    /\ On("payment") /\ local.order # location.order
    /\ local.checks < tour.orders
    /\ OrderEffects(local)

SdkArrives ==
    /\ On("payment") /\ ~memory.sdk
    /\ memory' = [memory EXCEPT !.sdk = TRUE]
    /\ local' = [local EXCEPT !.yoco = TRUE]
    /\ UNCHANGED <<tour, location, history, flights, storage, cache, server>>

\* An error of the script, or five seconds: the page goes on without the SDK.
SdkTimeout == On("payment") /\ ~local.yoco /\ Sets([local EXCEPT !.yoco = TRUE])

\* GET /orders/{id} and its service: the answer of an earlier order counts, too.
EligibilityArrives ==
    /\ local.page = "payment" /\ local.checks > 0
    /\ \E eligible \in {FALSE, Uses("apply")} :
          Sets([local EXCEPT !.checks = @ - 1, !.eligible = eligible])

\* GET /loyalty/me.
RewardsArrive ==
    /\ local.page = "payment" /\ local.fetching
    /\ \E reward \in {None} \cup (IF Uses("apply") THEN {"ready", "expired"} ELSE {}) :
          Sets([local EXCEPT !.fetching = FALSE, !.reward = reward])

PaymentOffers ==
    (IF local.paying \/ ~local.yoco THEN {} ELSE {"pay"})
    \cup (IF local.reward = "ready" /\ local.eligible /\ ~local.applied
             /\ ~local.paying /\ ~local.fetching THEN {"apply"} ELSE {})

HandleApplyReward ==
    /\ On("payment") /\ "apply" \in PaymentOffers
    /\ Uses("apply")
    /\ Sets([local EXCEPT !.paying = TRUE, !.applying = TRUE])

ApplyEnds ==
    /\ local.page = "payment" /\ local.applying
    /\ LET l == [local EXCEPT !.paying = FALSE, !.applying = FALSE] IN
       \/ Sets(l)
       \/ Sets([l EXCEPT !.applied = TRUE, !.discount = RewardValue])

Confirmation(order, amount) ==
    [At("/order/confirmation") EXCEPT !.order = order, !.amount = amount]

\* handlePay: nothing left to pay skips the card, and does not set paying, so that the
\* order is redeemed as often as the button is clicked before the first answer.
PayBill == <<location.order, AmountToPay, IF local.applied THEN 1 ELSE 0>>

HandlePayFree ==
    /\ On("payment") /\ "pay" \in PaymentOffers
    /\ AmountToPay <= 0
    /\ IF local.applied
         THEN SetsAndSends(local, {Flight("redeemFree", None, PayBill)})
         ELSE /\ NavigateWith(Confirmation(location.order, 0), flights)
              /\ UNCHANGED <<tour, memory, storage, cache, server>>

\* POST /orders/{id}/redeem; its failure is ignored.
RedeemFreeEnds == \E f \in Waiting("redeemFree"), done \in BOOLEAN :
    /\ server' = IF done THEN [server EXCEPT !.orders[f.arg[1]].status = "paid"] ELSE server
    /\ NavigateWith(Confirmation(f.arg[1], 0), flights \ {f})
    /\ UNCHANGED <<tour, memory, storage, cache>>

HandlePay ==
    /\ On("payment") /\ "pay" \in PaymentOffers
    /\ AmountToPay > 0 /\ memory.sdk
    /\ SetsAndSends([local EXCEPT !.paying = TRUE], {Flight("popup", None, PayBill)})

\* The customer closes the card form, or pays: its token goes to the backend.
PopupEnds == \E f \in Waiting("popup") :
    \/ Hears(f, [local EXCEPT !.paying = FALSE])
    \/ /\ flights' = GoesOn(f, "charge", f.arg)
       /\ UNCHANGED <<tour, location, history, local, memory, storage, cache, server>>

\* POST /payments/charge: an order that has been paid is refused, and the
\* answer to a charge may be lost.
ServerCharges == \E f \in Waiting("charge") :
    \/ /\ server.orders[f.arg[1]].paid = 0
       /\ server' = [server EXCEPT !.orders[f.arg[1]].paid = f.arg[2],
                                   !.orders[f.arg[1]].status = "paid"]
       /\ \E reply \in {"ok", "failed"} : flights' = Answered(f, reply, 0)
       /\ UNCHANGED <<tour, location, history, local, memory, storage, cache>>
    \/ Answers(f, "failed", 0)

\* Mutant of ChargeEnds: the reply of the charge is not looked at.
ChargeEndsUnchecked == \E f \in Arriving("charge") :
    /\ flights' = GoesOn(f, "refreshThen", <<f.arg[1], f.arg[2] \div 100>>)
    /\ UNCHANGED <<tour, location, history, local, memory, storage, cache, server>>

\* What follows the charge stops at the first error, with the money taken.
ChargeEnds == \E f \in Arriving("charge") :
    IF f.reply = "failed" THEN Hears(f, [local EXCEPT !.paying = FALSE])
    ELSE /\ flights' = GoesOn(f, IF f.arg[3] = 1 THEN "redeem" ELSE "qr", f.arg)
         /\ UNCHANGED <<tour, location, history, local, memory, storage, cache, server>>

RedeemEnds == \E f \in Waiting("redeem") :
    /\ flights' = GoesOn(f, "qr", f.arg)
    /\ UNCHANGED <<tour, location, history, local, memory, storage, cache, server>>

\* GET /payments/qr answers the amount in rands.
QrEnds == \E f \in Waiting("qr") :
    \/ Hears(f, [local EXCEPT !.paying = FALSE])
    \/ /\ flights' = GoesOn(f, "refreshThen", <<f.arg[1], server.orders[f.arg[1]].paid \div 100>>)
       /\ UNCHANGED <<tour, location, history, local, memory, storage, cache, server>>

\* refreshUser, whatever it finds, and then the confirmation.
PayEnds == \E f \in Waiting("refreshThen"), reply \in {"ok", "forbidden", "failed", "rejected"} :
    /\ reply \in RefreshReplies
    /\ HearsMe([f EXCEPT !.key = tour.who], reply, Confirmation(f.arg[1], f.arg[2]), flights \ {f})

(***************************************************************************)
(* OrderConfirmation, reached with location.state or by a link with the    *)
(* number of the order (from = "link").                                    *)
(***************************************************************************)
ConfirmationPage == [page |-> "confirmation", loading |-> FALSE, order |-> location.order,
                     failure |-> None, calendar |-> FALSE]

\* The customer opens a kept link: the tab loads anew.
OpenLink == \E order \in 1..Len(server.orders) :
    /\ "/order/confirmation" \in tour.paths
    /\ Moving
    /\ Reloads([Confirmation(order, 0) EXCEPT !.from = "link"])
    /\ UNCHANGED storage

\* Without either there is no order to show: home.
ConfirmationMount ==
    /\ Mounts("confirmation", "/order/confirmation")
    /\ storage' = [storage EXCEPT !.pending = <<>>]
    /\ IF location.order = 0 THEN Navigate("/", flights)
       ELSE /\ local' = IF location.from = "link"
                          THEN [ConfirmationPage EXCEPT !.loading = TRUE, !.order = 0]
                          ELSE ConfirmationPage
            /\ UNCHANGED flights /\ Stays
    /\ UNCHANGED <<tour, memory, cache, server>>

\* The QR of the linked order: without one there is nothing to show; with one
\* the payment is verified.
LinkArrives ==
    /\ local.page = "confirmation" /\ local.loading
    /\ \/ /\ server.orders[location.order].paid # 0
          /\ SetsAndSends([local EXCEPT !.loading = FALSE, !.order = location.order],
                          {Flight("verify", None, <<location.order>>)})
       \/ Navigate("/", flights) /\ UNCHANGED <<tour, memory, storage, cache, server>>

\* A failed request or an order that is not "paid" (a completed one, too) shows
\* an error, and a timer that nothing cancels takes the customer home or to
\* the order form.
VerifyArrives == \E f \in Waiting("verify") :
    \/ server.orders[f.arg[1]].status = "paid" /\ Hears(f, local)
    \/ /\ local' = IF f.mine THEN [local EXCEPT !.failure = "unverified"] ELSE local
       /\ \/ flights' = GoesOn(f, "leave", <<0>>)
          \/ server.orders[f.arg[1]].status # "paid" /\ flights' = GoesOn(f, "leave", f.arg)
       /\ UNCHANGED <<tour, location, history, memory, storage, cache, server>>

LeaveTimer == \E f \in Waiting("leave") :
    /\ Navigate(IF f.arg = <<0>> THEN "/" ELSE "/order", flights \ {f})
    /\ UNCHANGED <<tour, memory, storage, cache, server>>

\* Staff finish the wash of a paid order.
WashDone == \E order \in 1..Len(server.orders) :
    /\ server.orders[order].status = "paid"
    /\ "/order/confirmation" \in tour.paths
    /\ server' = [server EXCEPT !.orders[order].status = "completed"]
    /\ UNCHANGED <<tour, location, history, local, flights, memory, storage, cache>>

\* The confirmation and its links; an error leaves only the way home.
ConfirmationOffers ==
    IF local.loading THEN {}
    ELSE IF local.failure # None THEN {"/"}
    ELSE {"/", "/past-orders", "/myloyalty", "calendar"}

ConfirmationLinks ==
    /\ On("confirmation") /\ ~local.calendar
    /\ \E path \in ConfirmationOffers \ {"calendar"} : Navigate(path, flights)
    /\ UNCHANGED <<tour, memory, storage, cache, server>>

CalendarOpens ==
    /\ On("confirmation") /\ "calendar" \in ConfirmationOffers
    /\ Sets([local EXCEPT !.calendar = TRUE])

\* The three exports close the dialog, as its own buttons do.  A failed
\* download leaves it open.
CalendarCloses == On("confirmation") /\ local.calendar /\ Sets([local EXCEPT !.calendar = FALSE])

-----------------------------------------------------------------------------
\* What the page waits for, but for the customer with the card form.
OrderPagesWait ==
    (IF \/ local.page = "order" /\ Loads("catalog")
        \/ OrderFormShows(2) /\ local.picker.waiting
        \/ local.page = "payment" /\ (local.checks > 0 \/ local.fetching \/ ~local.yoco)
        \/ local.page = "confirmation" /\ local.loading
       THEN {"data"} ELSE {})
    \cup (IF \/ local.page = "order" /\ local.submitting
             \/ local.page = "payment" /\ local.paying /\ ~Flying("popup")
            THEN {"sent"} ELSE {})

OrderPagesMount == OrderFormMount \/ PaymentMount \/ ConfirmationMount

OrderPagesSettle ==
    \/ CatalogShows \/ AvailabilityArrives \/ ServerCreates \/ SubmitEnds
    \/ PaymentOtherOrder \/ SdkTimeout \/ EligibilityArrives \/ RewardsArrive \/ ApplyEnds
    \/ RedeemFreeEnds \/ ServerCharges \/ ChargeEnds \/ RedeemEnds \/ QrEnds \/ PayEnds
    \/ LinkArrives \/ VerifyArrives \/ LeaveTimer

OrderPagesFairness ==
    /\ WF_vars(CatalogShows) /\ WF_vars(AvailabilityArrives) /\ WF_vars(ServerCreates)
    /\ WF_vars(SubmitEnds) /\ WF_vars(PaymentOtherOrder) /\ WF_vars(SdkTimeout)
    /\ WF_vars(EligibilityArrives) /\ WF_vars(RewardsArrive) /\ WF_vars(ApplyEnds)
    /\ WF_vars(RedeemFreeEnds) /\ WF_vars(ServerCharges) /\ WF_vars(ChargeEnds)
    /\ WF_vars(RedeemEnds) /\ WF_vars(QrEnds) /\ WF_vars(PayEnds)
    /\ WF_vars(LinkArrives) /\ WF_vars(VerifyArrives) /\ WF_vars(LeaveTimer)

OrderPagesActions ==
    \/ ChooseService \/ ChooseTime \/ ReviewBack \/ HandleSubmit
    \/ SdkArrives \/ HandleApplyReward \/ HandlePayFree \/ HandlePay \/ PopupEnds
    \/ OpenLink \/ WashDone \/ ConfirmationLinks \/ CalendarOpens \/ CalendarCloses
=============================================================================
