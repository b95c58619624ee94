---------------------------- MODULE WebApp_proofs ----------------------------
(***************************************************************************)
(* What TLAPS proves of the tab: who counts as signed in, what the order   *)
(* form books, what is billed and what a confirmation shows, that a list   *)
(* shows what was asked for, that data which miss a write are marked and   *)
(* fetched again, that a handler which disables its control has one        *)
(* request under way, that the roles shown are those of the server, and    *)
(* the types of it all.                                                    *)
(*                                                                         *)
(* One invariant, IInv, carries the first five and most of the types: of   *)
(* every place where an amount can be (the form, a request under way, a    *)
(* location of the history, the order kept in localStorage) how that       *)
(* amount follows from the order as the server has it.  Most steps of the  *)
(* pages disturb nothing of that; the lemmas of the first half say so of   *)
(* each shape of handler.  The query cache has an invariant of its own,    *)
(* CacheOK: a step leaves the cache alone and loses no fetch               *)
(* (Undisturbed), or starts fetches (Fetches), or acknowledges writes      *)
(* (Acknowledges).  So has the table of users, RolesOK, which the same     *)
(* steps leave alone.  And so have the requests that are sent once,        *)
(* ChainsOK: the page that waits for one has the flag that keeps it from   *)
(* sending another.                                                        *)
(***************************************************************************)
EXTENDS WebApp, SequenceTheorems, FiniteSetTheorems, WellFoundedInduction, TLAPS

(* The invariant *)

FlightFields == {"kind", "key", "arg", "mine", "reply", "value", "n"}
LocationFields == {"path", "order", "amount", "from"}
BookingFields == {"step", "category", "service", "date", "time", "quantity", "extra", "picker"}
TableFields == {"number", "search", "sent", "form", "editing", "sending"}
RecordFields == {"service", "quantity", "extra", "status", "paid"}

\* The kinds of requests that are sent for an account and name it, and all the
\* kinds of which something is claimed.
AccountKinds == {"boot", "login", "google", "social", "confirm", "exchange", "token"}
Bound == AccountKinds \cup {"create", "popup", "charge", "redeem", "redeemFree", "qr", "refreshThen", "refresh"}

FlightTyped(f) == f.mine \in BOOLEAN /\ f.value \in Nat /\ f.n \in Nat

\* An amount above zero that stands for an order has been paid for it.
Earned(order, amount, orders) == amount > 0 =>
    /\ order \in 1..Len(orders)
    /\ orders[order].status # "created"
    /\ orders[order].paid \div 100 = amount

FlightOK(f, orders, who) ==
    /\ f.kind \in AccountKinds => f.key \in Roles
    /\ f.kind = "create" =>
         /\ f.arg[1] \in 1..Len(Catalog) /\ f.arg[2] \in Nat /\ f.arg[3] \in Nat
         /\ f.arg[4] = Price([service |-> f.arg[1], quantity |-> f.arg[2], extra |-> f.arg[3],
                              status |-> "created", paid |-> 0])
         /\ f.reply \notin {None, "failed"} => f.value \in 1..Len(orders) /\ f.arg[4] = Price(orders[f.value])
    /\ f.kind \in {"popup", "charge", "redeem", "qr"} =>
         /\ f.arg[1] \in 1..Len(orders) /\ f.arg[3] \in 0..1
         /\ f.arg[2] = Price(orders[f.arg[1]]) - f.arg[3] * RewardValue
    /\ f.kind \in {"redeemFree", "refreshThen"} => f.arg[1] \in 1..Len(orders)
    /\ f.kind = "refreshThen" => f.arg[2] \in Int /\ Earned(f.arg[1], f.arg[2], orders)
    /\ f.kind = "refresh" => f.key = who

LocationOK(there, orders) ==
    /\ there = [path |-> there.path, order |-> there.order, amount |-> there.amount, from |-> there.from]
    /\ there.order # 0 => there.order \in 1..Len(orders) /\ there.from \in {None, "link"}
    /\ there.amount \in Int
    /\ there.path = "/order/payment" /\ there.order # 0 =>
         there.order \in 1..Len(orders) /\ there.amount = Price(orders[there.order])
    /\ there.path = "/order/confirmation" => Earned(there.order, there.amount, orders)

PendingOK(pending, orders) ==
    pending # <<>> => pending[1] \in 1..Len(orders) /\ pending[2] = Price(orders[pending[1]])

\* The calendar: the months it shows and those its timers will show.
PickerOK(picker) ==
    /\ {"month", "shown", "waiting", "timers"} \subseteq DOMAIN picker
    /\ picker.month \in 1..MaxMonth /\ picker.shown \in 0..MaxMonth
    /\ picker.timers \in Seq(1..MaxMonth)

\* The order form, but for the service that is selected.
FormOK(l) ==
    /\ BookingFields \subseteq DOMAIN l
    /\ l.category \in {0} \cup DOMAIN ExtraPrice
    /\ l.step \in 1..3 /\ l.quantity \in 1..MaxQuantity /\ l.extra \in 0..1
    /\ PickerOK(l.picker)
    /\ l.time \in {0, l.date}
    /\ l.step = 3 => l.date # 0 /\ l.time # 0

LocalOK(l) ==
    /\ "page" \in DOMAIN l /\ l.page \in Pages
    /\ l.page = "order" =>
         /\ FormOK(l)
         /\ l.step = 3 => l.service # 0
         /\ l.service # 0 => l.service \in ServicesOf(l.category)
    /\ l.page = "payment" =>
         /\ {"applied", "discount", "checks"} \subseteq DOMAIN l
         /\ l.checks \in Nat
         /\ l.discount = IF l.applied THEN RewardValue ELSE 0
    /\ l.page = "welcome" => "claims" \in DOMAIN l /\ l.claims \in 0..MaxFlights
    /\ l.page = "vehicles" =>
         /\ {"query", "timer", "searching", "failed", "results"} \subseteq DOMAIN l
         /\ ~l.timer /\ ~l.searching /\ ~l.failed => l.results \in {0, l.query}
    /\ l.page = "washHistory" =>
         /\ {"filter", "number"} \subseteq DOMAIN l
         /\ l.number \in Nat \ {0} /\ l.number <= PagesOf(l.filter)
    /\ l.page = "transactions" =>
         /\ {"number", "failed", "kept"} \subseteq DOMAIN l
         /\ l.number \in 1..MaxPages /\ l.kept \in 0..MaxPages
         /\ l.number <= IF l.failed \/ l.kept = 0 THEN 1 ELSE l.kept
    /\ l.page = "users" => TableFields \subseteq DOMAIN l

RecordOK(order) ==
    /\ RecordFields \subseteq DOMAIN order
    /\ order.service \in 1..Len(Catalog) /\ order.quantity \in Nat /\ order.extra \in Nat
    /\ order.paid \in Int
    /\ order.paid # 0 => order.status # "created"

OrdersOK(orders) ==
    /\ orders \in Seq({orders[i] : i \in DOMAIN orders})
    /\ \A i \in 1..Len(orders) : RecordOK(orders[i])

ServerOK(s) ==
    /\ {"onboarded", "special", "orders", "roles"} \subseteq DOMAIN s
    /\ s.special \in {0} \cup Specials
    /\ OrdersOK(s.orders)

FlightsOK(F, orders, who) ==
    /\ IsFiniteSet(F)
    /\ \A f \in F : FlightFields \subseteq DOMAIN f /\ FlightTyped(f) /\ FlightOK(f, orders, who)

PlacesOK(L, orders) ==
    \A there \in L : LocationFields \subseteq DOMAIN there /\ LocationOK(there, orders)

\* The payment page is mounted at its path only, with an order.
Placed(l, there) == l.page = "payment" => there.path = "/order/payment" /\ there.order # 0

MemoryOK(m) ==
    m \in [user : {None} \cup Roles, loading : BOOLEAN, confirmation : BOOLEAN,
          recaptcha : BOOLEAN, sdk : BOOLEAN, table : {m.table}]

StorageOK(s) ==
    /\ {"pending", "token", "role", "period"} \subseteq DOMAIN s
    /\ s.token \in {None} \cup Roles /\ s.role \in {None} \cup Roles
    /\ s.period \in {"week", "month", "custom"}

\* The paths that the router shows.
Shown == tour.paths \cup {"elsewhere"}

IInv ==
    /\ {"who", "paths"} \subseteq DOMAIN tour /\ tour.who \in Roles
    /\ ServerOK(server)
    /\ FlightsOK(flights, server.orders, tour.who)
    /\ PlacesOK(history \cup {location}, server.orders)
    /\ \A there \in history \cup {location} : there.path \in Shown
    /\ \A h \in history : h.order # 0
    /\ "pending" \in DOMAIN storage /\ PendingOK(storage.pending, server.orders)
    /\ StorageOK(storage) /\ MemoryOK(memory)
    /\ LocalOK(local)
    /\ Placed(local, location)
    /\ {"user", "table"} \subseteq DOMAIN memory
    /\ MembersOnly

(* What a step may make of the parts of the state *)

SameTour ==
    {"who", "paths"} \subseteq DOMAIN tour' /\ tour'.who = tour.who /\ tour'.paths = tour.paths

\* Flights that the invariant admits as long as the orders stay.
Flock(F) == FlightsOK(F, server.orders, tour.who)

AtPayment == location.path = "/order/payment" /\ location.order # 0

Fits(l) == LocalOK(l) /\ (l.page = "payment" => local.page = "payment" \/ AtPayment)

MemoryFits(m) ==
    /\ {"user", "table"} \subseteq DOMAIN m /\ MemoryOK(m)
    /\ m.user = "user" => memory.user = "user" \/ server.onboarded

StorageFits(s) ==
    /\ "pending" \in DOMAIN s /\ StorageOK(s)
    /\ s.pending \in {storage.pending, <<>>} \/ PendingOK(s.pending, server.orders)

\* A location to go to: from the payment page not to that page without an order.
Open(there) ==
    /\ LocationFields \subseteq DOMAIN there /\ LocationOK(there, server.orders)
    /\ there.path = "/order/payment" /\ there.path = location.path => there.order # 0

\* What may become of the orders: they are added to, keep what they cost, are
\* paid once and never count as created again.
Grows(old, new) ==
    \A i \in 1..Len(old) :
        /\ i \in 1..Len(new)
        /\ Price(new[i]) = Price(old[i])
        /\ old[i].status # "created" => new[i].status # "created"
        /\ old[i].paid # 0 => new[i].paid = old[i].paid

\* What may become of the server.
Serves ==
    ServerOK(server') /\ Grows(server.orders, server'.orders)
    /\ (server.onboarded => server'.onboarded)

LEMMA EarnedStays ==
  ASSUME NEW old, NEW new, Grows(old, new), NEW order, NEW amount, Earned(order, amount, old)
  PROVE  Earned(order, amount, new)
<1> SUFFICES ASSUME amount > 0
             PROVE  /\ order \in 1..Len(new) /\ new[order].status # "created"
                    /\ new[order].paid \div 100 = amount
  BY DEF Earned
<1>1. order \in 1..Len(old) /\ old[order].status # "created" /\ old[order].paid \div 100 = amount
  BY DEF Earned
<1>2. old[order].paid # 0
  <2>1. 0 \div 100 = 0 /\ ~(0 > 0)
    OBVIOUS
  <2> QED
    BY <1>1, <2>1
<1> QED
  BY <1>1, <1>2 DEF Grows

LEMMA GrowthKeeps ==
  ASSUME NEW old, NEW new, Grows(old, new)
  PROVE  /\ \A F, who : FlightsOK(F, old, who) => FlightsOK(F, new, who)
         /\ \A L : PlacesOK(L, old) => PlacesOK(L, new)
         /\ \A pending : PendingOK(pending, old) => PendingOK(pending, new)
<1>1. ASSUME NEW f, NEW who, FlightOK(f, old, who) PROVE FlightOK(f, new, who)
  <2>1. f.kind = "refreshThen" => Earned(f.arg[1], f.arg[2], new)
    BY <1>1, EarnedStays DEF FlightOK
  <2> QED
    BY <1>1, <2>1 DEF FlightOK, Grows
<1>2. ASSUME NEW there, LocationOK(there, old) PROVE LocationOK(there, new)
  <2>1. there.path = "/order/confirmation" => Earned(there.order, there.amount, new)
    BY <1>2, EarnedStays DEF LocationOK
  <2> QED
    BY <1>2, <2>1 DEF LocationOK, Grows
<1>3. ASSUME NEW pending, PendingOK(pending, old) PROVE PendingOK(pending, new)
  BY <1>3 DEF PendingOK, Grows
<1> QED
  BY <1>1, <1>2, <1>3 DEF FlightsOK, PlacesOK

(* Sets of flights *)

LEMMA ImageFinite ==
  ASSUME NEW S, IsFiniteSet(S), NEW g
  PROVE  /\ IsFiniteSet({g[x] : x \in S})
         /\ Cardinality({g[x] : x \in S}) <= Cardinality(S)
<1>1. PICK T, h : T = {g[x] : x \in S} /\ h = [x \in S |-> g[x]]
  OBVIOUS
<1>2. h \in [S -> T] /\ \A y \in T : \E x \in S : h[x] = y
  BY <1>1
<1>3. h \in Surjection(S, T)
  BY <1>2 DEF Surjection
<1> QED
  BY <1>1, <1>3, FS_Surjection

LEMMA FlockParts ==
  ASSUME NEW F, NEW G, Flock(F), Flock(G)
  PROVE  Flock(F \cup G) /\ \A S : Flock(F \ S)
<1>1. IsFiniteSet(F \cup G) /\ \A S : IsFiniteSet(F \ S)
  BY FS_Union, FS_Difference DEF Flock, FlightsOK
<1> QED
  BY <1>1 DEF Flock, FlightsOK

LEMMA FlockSubset == ASSUME NEW F, Flock(F), NEW G, G \subseteq F PROVE Flock(G)
BY FS_Subset DEF Flock, FlightsOK

LEMMA OneFlock ==
  ASSUME NEW f, FlightFields \subseteq DOMAIN f, FlightTyped(f), FlightOK(f, server.orders, tour.who)
  PROVE  Flock({f})
BY FS_Singleton DEF Flock, FlightsOK

LEMMA NoFlock == Flock({})
BY FS_EmptySet DEF Flock, FlightsOK

LEMMA FlightIs ==
  ASSUME NEW kind, NEW key, NEW arg
  PROVE  LET f == Flight(kind, key, arg) IN
         FlightFields \subseteq DOMAIN f /\ f.kind = kind /\ f.key = key /\ f.arg = arg /\ f.reply = None
BY DEF Flight, FlightFields

LEMMA ThenIs ==
  ASSUME NEW g, NEW kind, NEW arg
  PROVE  LET f == Then(g, kind, arg) IN
         FlightFields \subseteq DOMAIN f /\ f.kind = kind /\ f.key = g.key /\ f.arg = arg /\ f.reply = None
BY FlightIs DEF Then, FlightFields

\* Of finitely many flights, one number up to their number is not taken.
LEMMA FreeNumberIs == ASSUME NEW F, IsFiniteSet(F) PROVE FreeNumber(F) \in Nat
<1>1. PICK N, g : N = {f.n : f \in F} /\ g = [f \in F |-> f.n]
  OBVIOUS
<1>2. IsFiniteSet(N) /\ Cardinality(N) <= Cardinality(F) /\ Cardinality(F) \in Nat
  <2>1. N = {g[f] : f \in F}
    BY <1>1
  <2> QED
    BY <2>1, ImageFinite, FS_CardinalityType
<1>3. PICK n \in 0..Cardinality(F) : n \notin N
  <2>1. /\ IsFiniteSet(0..Cardinality(F))
        /\ Cardinality(0..Cardinality(F)) = Cardinality(F) + 1
    BY <1>2, FS_Interval
  <2>2. ~(0..Cardinality(F) \subseteq N)
    <3> SUFFICES ASSUME 0..Cardinality(F) \subseteq N PROVE FALSE
      OBVIOUS
    <3>1. Cardinality(0..Cardinality(F)) <= Cardinality(N) /\ Cardinality(N) \in Nat
      BY <1>2, FS_Subset, FS_CardinalityType
    <3> QED
      BY <1>2, <2>1, <3>1
  <2> QED
    BY <2>2
<1>4. \A f \in F : f.n # n
  BY <1>1, <1>3
<1>5. FreeNumber(F) \in 0..Cardinality(F)
  BY <1>3, <1>4 DEF FreeNumber
<1> QED
  BY <1>2, <1>5

LEMMA FlightTypes ==
  ASSUME IsFiniteSet(flights), NEW kind, NEW key, NEW arg
  PROVE  FlightTyped(Flight(kind, key, arg))
<1>1. PICK S : S = {f \in flights : f.kind = kind /\ f.key = key /\ f.arg = arg}
  OBVIOUS
<1>2. FreeNumber(S) \in Nat
  BY <1>1, FS_Subset, FreeNumberIs
<1> QED
  BY <1>1, <1>2 DEF Flight, FlightTyped

LEMMA ThenTypes ==
  ASSUME IsFiniteSet(flights), NEW g, FlightTyped(g), NEW kind, NEW arg
  PROVE  FlightTyped(Then(g, kind, arg))
<1>1. PICK f : f = Flight(kind, g.key, arg)
  OBVIOUS
<1>2. FlightTyped(f) /\ FlightFields \subseteq DOMAIN f /\ Then(g, kind, arg) = [f EXCEPT !.mine = g.mine]
  BY <1>1, FlightTypes, FlightIs DEF Then
<1> QED
  BY <1>2 DEF FlightTyped, FlightFields

\* Nothing is claimed of the other kinds.
LEMMA FreeFlight ==
  ASSUME NEW f, FlightFields \subseteq DOMAIN f, FlightTyped(f), f.kind \notin Bound
  PROVE  Flock({f})
<1>1. FlightOK(f, server.orders, tour.who)
  BY DEF FlightOK, Bound
<1> QED
  BY <1>1, OneFlock

LEMMA FlightsTyped ==
  ASSUME IInv
  PROVE  IsFiniteSet(flights) /\ \A f \in flights : FlightTyped(f) /\ FlightFields \subseteq DOMAIN f
BY DEF IInv, FlightsOK

LEMMA Fresh ==
  ASSUME IInv, NEW kind, kind \notin Bound, NEW key, NEW arg
  PROVE  Flock({Flight(kind, key, arg)})
BY FlightIs, FlightTypes, FlightsTyped, FreeFlight

LEMMA AccountOf ==
  ASSUME IInv, NEW f \in flights, f.kind \in AccountKinds
  PROVE  f.key \in Roles
BY DEF IInv, FlightsOK, FlightOK

\* A request that is sent for an account.
LEMMA ForAccount ==
  ASSUME IInv, NEW kind \in AccountKinds, NEW key \in Roles, NEW arg
  PROVE  Flock({Flight(kind, key, arg)})
<1>1. PICK f : f = Flight(kind, key, arg)
  OBVIOUS
<1>2. FlightFields \subseteq DOMAIN f /\ FlightTyped(f) /\ f.kind = kind /\ f.key = key
  BY <1>1, FlightIs, FlightTypes, FlightsTyped
<1>3. FlightOK(f, server.orders, tour.who)
  BY <1>2 DEF FlightOK, AccountKinds
<1> QED
  BY <1>1, <1>2, <1>3, OneFlock

LEMMA GoesOnFree ==
  ASSUME IInv, NEW f \in flights, NEW kind, kind \notin Bound, NEW arg
  PROVE  Flock(GoesOn(f, kind, arg))
<1>1. Flock({Then(f, kind, arg)})
  BY ThenIs, ThenTypes, FlightsTyped, FreeFlight
<1>2. Flock(flights)
  BY DEF IInv, Flock
<1> QED
  BY <1>1, <1>2, FlockParts DEF GoesOn

LEMMA GoesOnFor ==
  ASSUME IInv, NEW f \in flights, f.kind \in AccountKinds, NEW kind \in AccountKinds, NEW arg
  PROVE  Flock(GoesOn(f, kind, arg))
<1>1. PICK g : g = Then(f, kind, arg)
  OBVIOUS
<1>2. FlightFields \subseteq DOMAIN g /\ FlightTyped(g) /\ g.kind = kind /\ g.key = f.key
  BY <1>1, ThenIs, ThenTypes, FlightsTyped
<1>3. f.key \in Roles
  BY DEF IInv, FlightsOK, FlightOK
<1>4. FlightOK(g, server.orders, tour.who)
  BY <1>2, <1>3 DEF FlightOK, AccountKinds
<1>5. Flock({g}) /\ Flock(flights)
  BY <1>2, <1>4, OneFlock DEF IInv, Flock
<1> QED
  BY <1>1, <1>5, FlockParts DEF GoesOn

LEMMA AnsweredFree ==
  ASSUME IInv, NEW f \in flights, f.kind \notin Bound, NEW reply, NEW value \in Nat
  PROVE  Flock(Answered(f, reply, value))
<1>1. Flock(flights) /\ FlightFields \subseteq DOMAIN f /\ FlightTyped(f)
  BY DEF IInv, Flock, FlightsOK
<1>2. PICK g : g = [f EXCEPT !.reply = reply, !.value = value]
  OBVIOUS
<1>3. FlightFields \subseteq DOMAIN g /\ g.kind = f.kind /\ FlightTyped(g)
  BY <1>1, <1>2 DEF FlightFields, FlightTyped
<1>4. Flock({g})
  BY <1>3, FreeFlight
<1> QED
  BY <1>1, <1>2, <1>4, FlockParts DEF Answered

\* Flights that differ from admitted ones in what nothing is claimed of.
Kin(f, g) ==
    /\ FlightFields \subseteq DOMAIN f /\ FlightTyped(f) /\ f.kind = g.kind
    /\ g.kind \in Bound => f.key = g.key /\ f.arg = g.arg /\ f.reply = g.reply /\ f.value = g.value

LEMMA KinFlock ==
  ASSUME NEW F, IsFiniteSet(F), NEW G, Flock(G), \A f \in F : \E g \in G : Kin(f, g)
  PROVE  Flock(F)
<1> SUFFICES ASSUME NEW f \in F
             PROVE  FlightFields \subseteq DOMAIN f /\ FlightTyped(f) /\ FlightOK(f, server.orders, tour.who)
  BY DEF Flock, FlightsOK
<1>1. PICK g \in G : Kin(f, g)
  OBVIOUS
<1>2. FlightOK(g, server.orders, tour.who)
  BY DEF Flock, FlightsOK
<1>3. CASE g.kind \in Bound
  BY <1>1, <1>2, <1>3 DEF Kin, FlightOK
<1>4. CASE g.kind \notin Bound
  BY <1>1, <1>4 DEF Kin, FlightOK, Bound
<1> QED
  BY <1>3, <1>4

LEMMA OrphanedFlock == ASSUME NEW F, Flock(F) PROVE Flock(Orphaned(F))
<1>1. ASSUME NEW f \in Orphaned(F) PROVE \E g \in F : Kin(f, g)
  <2>1. PICK g \in F : f = [g EXCEPT !.mine = FALSE]
    BY <1>1 DEF Orphaned
  <2>2. FlightFields \subseteq DOMAIN g /\ FlightTyped(g)
    BY DEF Flock, FlightsOK
  <2>3. Kin(f, g)
    BY <2>1, <2>2 DEF Kin, FlightFields, FlightTyped
  <2> QED
    BY <2>3
<1>2. IsFiniteSet(Orphaned(F))
  <2>1. PICK S, g : S = {h \in F : h.kind \notin Cleared} /\ g = [f \in S |-> [f EXCEPT !.mine = FALSE]]
    OBVIOUS
  <2>2. IsFiniteSet(S)
    BY <2>1, FS_Subset DEF Flock, FlightsOK
  <2>3. Orphaned(F) = {g[f] : f \in S}
    BY <2>1 DEF Orphaned
  <2> QED
    BY <2>2, <2>3, ImageFinite
<1> QED
  BY <1>1, <1>2, KinFlock

LEMMA KeysFinite == ASSUME NEW keys, keys \subseteq Keys PROVE IsFiniteSet(keys)
<1>1. Keys = {"catalog"} \cup {"loyalty"} \cup {"profile"} \cup {"active"} \cup {"verifications"}
             \cup {"statistics"} \cup {"customers"} \cup {"services"} \cup {"extras"}
  BY DEF Keys
<1>2. IsFiniteSet(Keys)
  BY <1>1, FS_Union, FS_Singleton
<1> QED
  BY <1>2, FS_Subset

LEMMA WatchedKeys == Watched \subseteq Keys
BY DEF Watched, Keys

LEMMA FetchFlock == ASSUME NEW keys, keys \subseteq Keys PROVE Flock({Fetch(key) : key \in keys})
<1>1. PICK g : g = [key \in keys |-> Fetch(key)]
  OBVIOUS
<1>2. {Fetch(key) : key \in keys} = {g[key] : key \in keys}
  BY <1>1
<1>3. IsFiniteSet({g[key] : key \in keys})
  BY KeysFinite, ImageFinite
<1>4. ASSUME NEW key PROVE Kin(Fetch(key), Fetch(key)) /\ Fetch(key).kind \notin Bound
  BY DEF Kin, Fetch, FlightFields, FlightTyped, Bound, AccountKinds
<1>5. ASSUME NEW key
      PROVE  /\ FlightFields \subseteq DOMAIN Fetch(key) /\ FlightTyped(Fetch(key))
             /\ FlightOK(Fetch(key), server.orders, tour.who)
  BY <1>4 DEF Kin, FlightOK, Bound
<1>6. PICK F : F = {Fetch(key) : key \in keys}
  OBVIOUS
<1>7. IsFiniteSet(F) /\ \A f \in F : \E key : f = Fetch(key)
  BY <1>2, <1>3, <1>6
<1>8. Flock(F)
  BY <1>5, <1>7 DEF Flock, FlightsOK
<1> QED
  BY <1>6, <1>8

LEMMA RefetchedFlock == ASSUME NEW F, Flock(F), NEW keys PROVE Flock(Refetched(keys, F))
<1>1. PICK G, K : /\ Refetched(keys, F) = G \cup {Fetch(key) : key \in K}
                  /\ G \subseteq F /\ K \subseteq Keys
  BY WatchedKeys DEF Refetched
<1>2. Flock(G)
  BY <1>1, FS_Subset DEF Flock, FlightsOK
<1> QED
  BY <1>1, <1>2, FetchFlock, FlockParts

LEMMA OvertakenFlock == ASSUME NEW F, Flock(F), NEW keys PROVE Flock(Overtaken(keys, F))
<1>1. ASSUME NEW f \in Overtaken(keys, F) PROVE \E g \in F : Kin(f, g)
  <2>1. PICK g \in F : f = IF g.kind = "query" /\ g.key \in keys THEN [g EXCEPT !.value = 1] ELSE g
    BY <1>1 DEF Overtaken
  <2>2. FlightFields \subseteq DOMAIN g /\ FlightTyped(g)
    BY DEF Flock, FlightsOK
  <2>3. Kin(f, g)
    BY <2>1, <2>2 DEF Kin, FlightFields, Bound, AccountKinds, FlightTyped
  <2> QED
    BY <2>3
<1>2. PICK h : h = [f \in F |-> IF f.kind = "query" /\ f.key \in keys THEN [f EXCEPT !.value = 1] ELSE f]
  OBVIOUS
<1>3. Overtaken(keys, F) = {h[f] : f \in F}
  BY <1>2 DEF Overtaken
<1>4. IsFiniteSet(Overtaken(keys, F))
  BY <1>3, ImageFinite DEF Flock, FlightsOK
<1> QED
  BY <1>1, <1>4, KinFlock

LEMMA InvalidatedFlock ==
  ASSUME NEW F, Flock(F), NEW keys, NEW written
  PROVE  Flock(FlightsAfter(keys, written, F))
BY RefetchedFlock, OvertakenFlock DEF FlightsAfter

LEMMA RepolledFlock == ASSUME IInv, NEW F, Flock(F) PROVE Flock(Repolled(F))
<1>1. PICK chain, old, G :
        /\ chain = {f \in F : f.kind = "poll" /\ f.mine}
        /\ old = {[f EXCEPT !.kind = "pollOld", !.n = FreeNumber({g \in F : g.kind = "pollOld"})] : f \in chain}
        /\ G = F \ (chain \cup {f \in F : f.kind = "pollTimer"})
  OBVIOUS
<1>2. Repolled(F) \in {F, G \cup old \cup {Flight("poll", None, <<>>)}}
  BY <1>1 DEF Repolled
<1>3. Flock(old)
  <2>1. PICK n : n = FreeNumber({h \in F : h.kind = "pollOld"})
    OBVIOUS
  <2>2. n \in Nat
    BY <2>1, FS_Subset, FreeNumberIs DEF Flock, FlightsOK
  <2>3. ASSUME NEW f \in old PROVE FlightFields \subseteq DOMAIN f /\ FlightTyped(f) /\ f.kind = "pollOld"
    <3>1. PICK g \in chain : f = [g EXCEPT !.kind = "pollOld", !.n = n]
      BY <1>1, <2>1
    <3>2. FlightFields \subseteq DOMAIN g /\ FlightTyped(g)
      BY <1>1 DEF Flock, FlightsOK
    <3> QED
      BY <2>2, <3>1, <3>2 DEF FlightFields, FlightTyped
  <2>4. IsFiniteSet(chain)
    BY <1>1, FS_Subset DEF Flock, FlightsOK
  <2>5. PICK g : g = [f \in chain |-> [f EXCEPT !.kind = "pollOld", !.n = n]]
    OBVIOUS
  <2>6. old = {g[f] : f \in chain}
    BY <1>1, <2>1, <2>5
  <2>7. IsFiniteSet(old)
    BY <2>4, <2>6, ImageFinite
  <2> QED
    BY <2>3, <2>7 DEF Flock, FlightsOK, FlightOK, AccountKinds
<1>4. Flock({Flight("poll", None, <<>>)})
  BY Fresh DEF Bound, AccountKinds
<1>5. Flock(G)
  BY <1>1, FlockParts
<1> QED
  BY <1>2, <1>3, <1>4, <1>5, FlockParts

(* The shapes of handlers *)

\* A handler of a page that stays where it is.
LEMMA AtPage ==
  ASSUME IInv, UNCHANGED <<location, history, server>>, SameTour,
         Flock(flights'), Fits(local'), MemoryFits(memory'), StorageFits(storage')
  PROVE  IInv'
<1>1. /\ PlacesOK(history \cup {location}, server.orders)' /\ ServerOK(server)'
      /\ \A h \in history' : h.order # 0
  BY DEF IInv
<1>2. FlightsOK(flights, server.orders, tour.who)'
  BY DEF SameTour, Flock
<1>3. PendingOK(storage.pending, server.orders)' /\ "pending" \in DOMAIN storage'
  BY DEF IInv, StorageFits, StorageOK, PendingOK
<1>4. LocalOK(local)' /\ Placed(local, location)'
  BY DEF IInv, Fits, Placed, AtPayment
<1>5. {"user", "table"} \subseteq DOMAIN memory' /\ MembersOnly'
  BY DEF IInv, MemoryFits, MemoryOK, MembersOnly
<1>6. MemoryOK(memory)' /\ StorageOK(storage)'
  BY DEF MemoryFits, StorageFits, MemoryOK, StorageOK
<1>7. /\ {"who", "paths"} \subseteq DOMAIN tour' /\ tour'.who \in Roles
      /\ \A there \in history' \cup {location'} : there.path \in Shown'
  BY DEF IInv, SameTour, Shown
<1> QED
  BY <1>1, <1>2, <1>3, <1>4, <1>5, <1>6, <1>7 DEF IInv

\* What stays as it is fits.
LEMMA Kept ==
  ASSUME IInv
  PROVE  /\ Flock(flights) /\ Fits(local) /\ MemoryFits(memory) /\ StorageFits(storage)
         /\ UNCHANGED tour => SameTour
         /\ UNCHANGED local => Fits(local')
         /\ UNCHANGED memory => MemoryFits(memory')
         /\ UNCHANGED storage => StorageFits(storage')
         /\ UNCHANGED flights => Flock(flights')
         /\ UNCHANGED server => Serves
<1>1. Flock(flights) /\ Fits(local)
  BY DEF IInv, Flock, Fits
<1>2. MemoryFits(memory) /\ StorageFits(storage)
  BY DEF IInv, MemoryFits, MemoryOK, StorageFits, StorageOK
<1>3. UNCHANGED tour => SameTour
  BY DEF IInv, SameTour
<1>4. UNCHANGED server => Serves
  BY DEF IInv, ServerOK, Serves, Grows
<1> QED
  BY <1>1, <1>2, <1>3, <1>4

LEMMA SetsKeeps ==
  ASSUME IInv, NEW l, Sets(l), Fits(l)
  PROVE  IInv'
BY AtPage, Kept DEF Sets

LEMMA SubmitsKeeps ==
  ASSUME IInv, NEW l, NEW F, SetsAndSends(l, F), Fits(l), Flock(F)
  PROVE  IInv'
<1>1. Flock(flights \cup F)
  BY Kept, FlockParts
<1> QED
  BY <1>1, AtPage, Kept DEF SetsAndSends

LEMMA HearsKeeps ==
  ASSUME IInv, NEW f, NEW l, Hears(f, l), Fits(l)
  PROVE  IInv'
<1>1. Flock(flights \ {f})
  BY Kept, FlockParts
<1>2. Fits(local')
  BY Kept DEF Hears
<1> QED
  BY <1>1, <1>2, AtPage, Kept DEF Hears

\* Only the flights of the tab change.
LEMMA FliesKeeps ==
  ASSUME IInv, UNCHANGED <<tour, location, history, local, memory, storage, server>>, Flock(flights')
  PROVE  IInv'
BY AtPage, Kept

LEMMA AnswersKeeps ==
  ASSUME IInv, NEW f \in flights, f.kind \notin Bound, NEW reply, NEW value \in Nat,
         Answers(f, reply, value)
  PROVE  IInv'
<1>1. Flock(Answered(f, reply, value))
  BY AnsweredFree
<1> QED
  BY <1>1, FliesKeeps DEF Answers

\* The locations that a handler names: without an order, or with one.
LEMMA AtIs ==
  ASSUME NEW path
  PROVE  LET there == At(path) IN
         /\ LocationFields \subseteq DOMAIN there /\ there.path = path /\ there.order = 0 /\ there.amount = 0
         /\ there = [path |-> path, order |-> 0, amount |-> 0, from |-> None]
BY DEF At, LocationFields

\* A location with an order in its state.
LEMMA RecordIs ==
  ASSUME NEW path, NEW order, NEW amount, NEW from, NEW there,
         there = [path |-> path, order |-> order, amount |-> amount, from |-> from]
  PROVE  /\ LocationFields \subseteq DOMAIN there /\ there.path = path
         /\ there.order = order /\ there.amount = amount /\ there.from = from
BY DEF LocationFields

LEMMA AtOrder ==
  ASSUME NEW path, NEW order, NEW amount
  PROVE  [At(path) EXCEPT !.order = order, !.amount = amount]
         = [path |-> path, order |-> order, amount |-> amount, from |-> None]
<1>1. PICK start : start = [path |-> path, order |-> 0, amount |-> 0, from |-> None]
  OBVIOUS
<1>2. PICK there : there = [start EXCEPT !.order = order, !.amount = amount]
  OBVIOUS
<1>3. there = [At(path) EXCEPT !.order = order, !.amount = amount]
  BY <1>1, <1>2 DEF At
<1>4. there = [path |-> path, order |-> order, amount |-> amount, from |-> None]
  BY <1>1, <1>2
<1> QED
  BY <1>3, <1>4

LEMMA OpenAt ==
  ASSUME NEW path, path # "/order/payment" \/ path # location.path
  PROVE  Open(At(path)) /\ \A from : Open([At(path) EXCEPT !.from = from])
<1>1. PICK there : there = At(path)
  OBVIOUS
<1>2. Open(there)
  BY <1>1, AtIs DEF Open, LocationOK, Earned
<1>3. ASSUME NEW from PROVE Open([there EXCEPT !.from = from])
  BY <1>1, <1>2, AtIs DEF Open, LocationOK, Earned, LocationFields
<1> QED
  BY <1>1, <1>2, <1>3

\* The one handler that does both has the server change as it leaves.
LEMMA NavigatesServed ==
  ASSUME IInv, NEW there, NEW F, NavigateWith(there, F), Open(there), Flock(F),
         Serves, SameTour, MemoryFits(memory'), StorageFits(storage')
  PROVE  IInv'
<1>1. PICK to : to = [there EXCEPT !.path = Path(there.path)]
  OBVIOUS
<1>2. /\ LocationFields \subseteq DOMAIN to /\ to.path \in {there.path, "elsewhere"}
      /\ to.order = there.order /\ to.amount = there.amount
  BY <1>1 DEF Open, Path, LocationFields
<1>3. LocationOK(to, server.orders)
  <2>1. to = [path |-> to.path, order |-> to.order, amount |-> to.amount, from |-> to.from]
        /\ to.from = there.from
    BY <1>1 DEF Open, LocationOK
  <2> QED
    BY <1>2, <2>1 DEF Open, LocationOK
<1>4. /\ location' = to /\ history' \in {history, history \cup {to}}
      /\ to.order = 0 => history' = history
      /\ IF to.path = location.path THEN flights' = F /\ UNCHANGED local
         ELSE flights' = Orphaned(F) /\ local' = Unmounted
  BY <1>1 DEF NavigateWith
<1>5. PlacesOK(history' \cup {location'}, server.orders) /\ \A h \in history' : h.order # 0
  BY <1>2, <1>3, <1>4 DEF IInv, PlacesOK
<1>6. Flock(flights')
  BY <1>4, OrphanedFlock
<1>7. PendingOK(storage'.pending, server.orders) /\ "pending" \in DOMAIN storage'
  BY DEF IInv, StorageFits, StorageOK, PendingOK
<1>8. LocalOK(local)' /\ Placed(local, location)'
  <2>1. CASE to.path = location.path
    BY <1>2, <1>4, <2>1 DEF IInv, Placed, Open
  <2>2. CASE to.path # location.path
    BY <1>4, <2>2 DEF Unmounted, LocalOK, Placed, None, Pages
  <2> QED
    BY <2>1, <2>2
<1>9. {"user", "table"} \subseteq DOMAIN memory' /\ MembersOnly'
  BY DEF IInv, MemoryFits, MemoryOK, MembersOnly, Serves
<1>10. /\ FlightsOK(flights', server'.orders, tour.who)
       /\ PlacesOK(history' \cup {location'}, server'.orders)
       /\ PendingOK(storage'.pending, server'.orders)
  BY <1>5, <1>6, <1>7, GrowthKeeps DEF Serves, Flock
<1>11. MemoryOK(memory)' /\ StorageOK(storage)'
  BY DEF MemoryFits, StorageFits, MemoryOK, StorageOK
<1>12. /\ {"who", "paths"} \subseteq DOMAIN tour' /\ tour'.who \in Roles /\ tour'.who = tour.who
       /\ \A h \in history' \cup {location'} : h.path \in Shown'
  <2>1. to.path \in Shown
    BY <1>1 DEF Open, LocationFields, Path, Shown
  <2> QED
    BY <1>4, <2>1 DEF IInv, SameTour, Shown
<1> QED
  BY <1>5, <1>7, <1>8, <1>9, <1>10, <1>11, <1>12 DEF IInv, Serves

LEMMA NavigatesWith ==
  ASSUME IInv, NEW there, NEW F, NavigateWith(there, F), Open(there), Flock(F),
         UNCHANGED server, SameTour, MemoryFits(memory'), StorageFits(storage')
  PROVE  IInv'
BY NavigatesServed, Kept

LEMMA Navigates ==
  ASSUME IInv, NEW path, path # "/order/payment" \/ path # location.path,
         NEW F, Navigate(path, F), Flock(F),
         UNCHANGED server, SameTour, MemoryFits(memory'), StorageFits(storage')
  PROVE  IInv'
BY OpenAt, NavigatesWith DEF Navigate

LEMMA ReloadsKeeps ==
  ASSUME IInv, NEW there, Reloads(there), LocationFields \subseteq DOMAIN there,
         LocationOK(there, server.orders), there.path \in Shown, SameTour, StorageFits(storage')
  PROVE  IInv'
<1>1. /\ PlacesOK(history \cup {location}, server.orders)' /\ ServerOK(server)'
      /\ \A h \in history' : h.order # 0
  BY DEF IInv, Reloads, PlacesOK
<1>2. FlightsOK(flights, server.orders, tour.who)'
  BY NoFlock DEF Reloads, SameTour, Flock
<1>3. PendingOK(storage.pending, server.orders)' /\ "pending" \in DOMAIN storage'
  BY DEF IInv, StorageFits, StorageOK, PendingOK, Reloads
<1>4. LocalOK(local)' /\ Placed(local, location)'
  BY DEF Reloads, Unmounted, LocalOK, Placed, None, Pages
<1>5. {"user", "table"} \subseteq DOMAIN memory' /\ MembersOnly'
  BY DEF Reloads, MemoryAtBoot, MembersOnly, None
<1>6. MemoryOK(memory)' /\ StorageOK(storage)'
  BY DEF Reloads, MemoryAtBoot, MemoryOK, StorageFits, StorageOK
<1>7. /\ {"who", "paths"} \subseteq DOMAIN tour' /\ tour'.who \in Roles
      /\ \A h \in history' \cup {location'} : h.path \in Shown'
  BY DEF Reloads, IInv, SameTour, Shown
<1> QED
  BY <1>1, <1>2, <1>3, <1>4, <1>5, <1>6, <1>7 DEF IInv, SameTour

LEMMA ReloadsHere ==
  ASSUME IInv, Reloads(location), SameTour, UNCHANGED storage
  PROVE  IInv'
<1>1. /\ LocationFields \subseteq DOMAIN location /\ LocationOK(location, server.orders)
      /\ location.path \in Shown
  BY DEF IInv, PlacesOK
<1> QED
  BY <1>1, ReloadsKeeps, Kept

LEMMA ForcedOutKeeps == ASSUME IInv, ForcedOut PROVE IInv'
<1>1. PICK there : there = At(Path("/login"))
  OBVIOUS
<1>2. /\ LocationFields \subseteq DOMAIN there /\ LocationOK(there, server.orders)
      /\ there.path \in Shown
  BY <1>1, AtIs DEF LocationOK, Earned, Path, Shown
<1>3. StorageFits(storage')
  BY DEF ForcedOut, IInv, StorageFits, StorageOK
<1>4. Reloads(there) /\ SameTour
  BY <1>1, Kept DEF ForcedOut
<1> QED
  BY <1>2, <1>3, <1>4, ReloadsKeeps

(* The session *)

\* An answer of /auth/me that names an account is for one that may sign in.
LEMMA HearsMeKeeps ==
  ASSUME IInv, NEW f, NEW reply, reply = "ok" => f.key \in Roles /\ (f.key = "user" => server.onboarded),
         NEW there, there = Nowhere \/ Open(there), NEW before, Flock(before),
         HearsMe(f, reply, there, before)
  PROVE  IInv'
<1>1. CASE reply = "rejected"
  BY <1>1, ForcedOutKeeps DEF HearsMe
<1>2. CASE reply # "rejected"
  <2>1. PICK F : F = IF reply = "ok" THEN Repolled(before) ELSE before
    OBVIOUS
  <2>2. Flock(F)
    BY <2>1, RepolledFlock
  <2>3. /\ memory' = [memory EXCEPT !.user = UserAfter(f, reply), !.loading = @ /\ f.kind # "boot"]
        /\ storage' = StorageAfter(f, reply)
        /\ UNCHANGED <<tour, cache, server>>
    BY <1>2 DEF HearsMe
  <2>4. MemoryFits(memory')
    BY <2>3 DEF IInv, MemoryFits, MemoryOK, UserAfter, None
  <2>5. StorageFits(storage')
    BY <2>3 DEF IInv, StorageFits, StorageOK, StorageAfter
  <2>6. SameTour
    BY <2>3, Kept
  <2>7. CASE SentToOnboarding(reply)
    <3>1. PICK form : form = [At("/onboarding") EXCEPT !.from = "social"]
      OBVIOUS
    <3>2. NavigateWith(form, F)
      BY <1>2, <2>1, <2>7, <3>1 DEF HearsMe
    <3>3. Open(form)
      BY <3>1, OpenAt
    <3> QED
      BY <3>2, <3>3, <2>2, <2>3, <2>4, <2>5, <2>6, NavigatesWith
  <2>8. CASE ~SentToOnboarding(reply) /\ there # Nowhere
    <3>1. NavigateWith(there, F)
      BY <1>2, <2>1, <2>8 DEF HearsMe
    <3> QED
      BY <2>2, <2>3, <2>4, <2>5, <2>6, <2>8, <3>1, NavigatesWith
  <2>9. CASE ~SentToOnboarding(reply) /\ there = Nowhere
    <3>1. flights' = F /\ Stays /\ UNCHANGED local
      BY <1>2, <2>1, <2>9 DEF HearsMe
    <3> QED
      BY <2>2, <2>3, <2>4, <2>5, <2>6, <3>1, AtPage, Kept DEF Stays
  <2> QED
    BY <2>7, <2>8, <2>9
<1> QED
  BY <1>1, <1>2

LEMMA MeKnows ==
  ASSUME NEW account, "ok" \in MeReplies(account)
  PROVE  account = "user" => server.onboarded
BY DEF MeReplies

\* The flight of refreshUser names the account of the tab.
LEMMA RefreshKnows ==
  ASSUME "ok" \in RefreshReplies
  PROVE  tour.who = "user" => server.onboarded
BY MeKnows DEF RefreshReplies

LEMMA WithoutFlight == ASSUME IInv PROVE \A f : Flock(flights \ {f})
BY Kept, FlockParts

LEMMA BootKeeps == ASSUME IInv, Boot PROVE IInv'
<1>1. UNCHANGED <<tour, location, history, local, storage, cache, server>>
  BY DEF Boot
<1>2. CASE storage.token = None
  <2>1. MemoryFits(memory') /\ UNCHANGED flights
    BY <1>2 DEF Boot, IInv, MemoryFits, MemoryOK
  <2> QED
    BY <1>1, <2>1, AtPage, Kept
<1>3. CASE storage.token # None
  <2>1. flights' = flights \cup {Flight("boot", storage.token, <<>>)} /\ UNCHANGED memory
    BY <1>3 DEF Boot
  <2>2. Flock({Flight("boot", storage.token, <<>>)})
    BY <1>3, ForAccount DEF AccountKinds, IInv, StorageOK
  <2>3. Flock(flights')
    BY <2>1, <2>2, FlockParts, Kept
  <2> QED
    BY <1>1, <2>1, <2>3, AtPage, Kept
<1> QED
  BY <1>2, <1>3

LEMMA BootEndsKeeps == ASSUME IInv, BootEnds PROVE IInv'
<1>1. PICK f \in Waiting("boot"), reply \in {"ok", "forbidden", "failed", "rejected"} :
        reply \in MeReplies(f.key) /\ HearsMe(f, reply, Nowhere, flights \ {f})
  BY DEF BootEnds
<1>2. f.key \in Roles
  BY DEF Waiting, IInv, FlightsOK, FlightOK, AccountKinds
<1> QED
  BY <1>1, <1>2, MeKnows, WithoutFlight, HearsMeKeeps

LEMMA RefreshEndsKeeps == ASSUME IInv, RefreshEnds PROVE IInv'
<1>1. PICK f \in Waiting("refresh"), reply \in {"ok", "forbidden", "failed", "rejected"} :
        reply \in RefreshReplies /\ HearsMe(f, reply, Nowhere, flights \ {f})
  BY DEF RefreshEnds
<1>2. f.key = tour.who /\ tour.who \in Roles
  BY DEF Waiting, IInv, FlightsOK, FlightOK
<1> QED
  BY <1>1, <1>2, RefreshKnows, WithoutFlight, HearsMeKeeps

LEMMA GuardKeeps == ASSUME IInv, GuardActs PROVE IInv'
<1>1. PICK verdict : verdict = Guard(location.path)
  OBVIOUS
<1>2. verdict # "/order/payment"
  BY <1>1 DEF Guard, RequireAuth, RequireStaff, RequireAdmin, RequireDeveloper
<1>3. UNCHANGED <<tour, memory, storage, cache, server>>
  BY DEF GuardActs
<1>4. CASE verdict = "waits"
  <2>1. local' = Unmounted /\ flights' = Orphaned(flights) /\ Stays
    BY <1>1, <1>4 DEF GuardActs
  <2>2. Fits(local')
    BY <2>1 DEF Fits, LocalOK, Unmounted, None, Pages
  <2> QED
    BY <1>3, <2>1, <2>2, OrphanedFlock, AtPage, Kept DEF Stays
<1>5. CASE verdict # "waits"
  <2>1. Navigate(verdict, flights)
    BY <1>1, <1>5 DEF GuardActs
  <2> QED
    BY <1>2, <1>3, <2>1, Navigates, Kept
<1> QED
  BY <1>4, <1>5

\* Signing out leaves the account of nobody.
LEMMA SignedOut ==
  ASSUME IInv, SignsOut
  PROVE  MemoryFits(memory') /\ StorageFits(storage') /\ UNCHANGED <<tour, cache, server>>
BY DEF SignsOut, IInv, MemoryFits, MemoryOK, StorageFits, StorageOK, None

LEMMA MovingSame == ASSUME IInv, Moving PROVE SameTour
BY DEF Moving, IInv, SameTour

LEMMA MovesKeep == ASSUME IInv, Moves PROVE IInv'
<1>1. ASSUME NEW path, FollowLink(path) PROVE IInv'
  <2>1. path # location.path /\ Navigate(path, flights) /\ UNCHANGED <<memory, storage, cache, server>>
    BY <1>1 DEF FollowLink
  <2>2. SameTour
    BY <1>1, MovingSame DEF FollowLink
  <2> QED
    BY <2>1, <2>2, Navigates, Kept
<1>2. ASSUME NEW there \in history, GoBack(there) PROVE IInv'
  <2>1. NavigateWith(there, flights) /\ UNCHANGED <<memory, storage, cache, server>>
    BY <1>2 DEF GoBack
  <2>2. SameTour
    BY <1>2, MovingSame DEF GoBack
  <2>3. Open(there)
    BY DEF IInv, PlacesOK, Open
  <2> QED
    BY <2>1, <2>2, <2>3, NavigatesWith, Kept
<1>3. CASE Reload
  BY <1>3, MovingSame, ReloadsHere DEF Reload
<1>4. CASE NavLogout
  BY <1>4, SignedOut, AtPage, Kept DEF NavLogout, Stays
<1> QED
  BY <1>1, <1>2, <1>3, <1>4 DEF Moves

LEMMA SessionKeeps == ASSUME IInv, SessionSettles \/ Moves PROVE IInv'
BY BootKeeps, BootEndsKeeps, RefreshEndsKeeps, GuardKeeps, MovesKeep DEF SessionSettles

(* The pages of a visitor *)

\* A page of which nothing is claimed has nothing to fit.
LEMMA OtherPage ==
  ASSUME NEW l, "page" \in DOMAIN l, l.page \in Pages,
         l.page \notin {"order", "payment", "welcome", "vehicles", "washHistory", "transactions", "users"}
  PROVE  Fits(l)
BY DEF Fits, LocalOK

LEMMA SessionPagesMountKeep == ASSUME IInv, SessionPagesMount PROVE IInv'
<1>1. CASE LoginMount
  BY <1>1, SetsKeeps, OtherPage DEF LoginMount, LoginPage, Pages
<1>2. CASE SignupMount
  BY <1>2, SetsKeeps, OtherPage DEF SignupMount, Pages
<1>3. CASE OnboardingMount
  BY <1>3, SetsKeeps, OtherPage DEF OnboardingMount, OnboardingPage, Pages
<1>4. CASE OtpMount
  <2>1. storage' = [storage EXCEPT !.data = @ \/ location.from # None] /\ UNCHANGED <<tour, memory, cache, server>>
    BY <1>4 DEF OtpMount
  <2>2. StorageFits(storage')
    BY <2>1 DEF IInv, StorageFits, StorageOK
  <2>3. CASE memory.confirmation /\ storage'.data
    <3>1. local' = OtpPage /\ UNCHANGED <<location, history, flights>>
      BY <1>4, <2>3 DEF OtpMount
    <3>2. Fits(local')
      BY <3>1, OtherPage DEF OtpPage, Pages
    <3> QED
      BY <2>1, <2>2, <3>1, <3>2, AtPage, Kept
  <2>4. CASE ~(memory.confirmation /\ storage'.data)
    <3>1. PICK there : there = IF memory.confirmation THEN At("/signup")
                               ELSE From("/onboarding", IF storage'.data THEN "email" ELSE None)
      OBVIOUS
    <3>2. NavigateWith(there, flights)
      BY <1>4, <2>4, <3>1 DEF OtpMount
    <3>3. Open(there)
      BY <3>1, OpenAt DEF From
    <3> QED
      BY <2>1, <2>2, <3>2, <3>3, NavigatesWith, Kept
  <2> QED
    BY <2>3, <2>4
<1>5. CASE ForgotMount
  BY <1>5, SetsKeeps, OtherPage DEF ForgotMount, PasswordPage, Pages
<1>6. CASE ResetMount
  BY <1>6, SetsKeeps, OtherPage DEF ResetMount, PasswordPage, Pages
<1> QED
  BY <1>1, <1>2, <1>3, <1>4, <1>5, <1>6 DEF SessionPagesMount

\* A request of which nothing is claimed is sent.
LEMMA SendsKeeps ==
  ASSUME IInv, NEW l, Fits(l), NEW kind, kind \notin Bound, NEW key, NEW arg,
         SetsAndSends(l, {Flight(kind, key, arg)})
  PROVE  IInv'
BY Fresh, SubmitsKeeps

\* A request is sent for the account of the tab.
LEMMA SendsFor ==
  ASSUME IInv, NEW l, Fits(l), NEW kind \in AccountKinds, NEW arg,
         SetsAndSends(l, {Flight(kind, tour.who, arg)})
  PROVE  IInv'
<1>1. tour.who \in Roles
  BY DEF IInv
<1> QED
  BY <1>1, ForAccount, SubmitsKeeps

LEMMA SessionPagesActionsKeep == ASSUME IInv, SessionPagesActions PROVE IInv'
<1>1. CASE LoginSubmit
  <2>1. Fits([local EXCEPT !.submitting = TRUE, !.failure = None])
    BY <1>1 DEF LoginSubmit, On, IInv, Fits, LocalOK
  <2> QED
    BY <1>1, <2>1, SendsFor DEF LoginSubmit, AccountKinds
<1>2. CASE GoogleStarts
  <2>1. Fits([local EXCEPT !.failure = None])
    BY <1>2 DEF GoogleStarts, On, IInv, Fits, LocalOK
  <2> QED
    BY <1>2, <2>1, SendsFor DEF GoogleStarts, AccountKinds
<1>3. CASE GooglePopupEnds
  <2>1. PICK f \in Waiting("google") :
          \/ Hears(f, [local EXCEPT !.failure = "social"])
          \/ /\ flights' = GoesOn(f, "social", <<>>)
             /\ UNCHANGED <<tour, location, history, local, memory, storage, cache, server>>
    BY <1>3 DEF GooglePopupEnds
  <2>2. Fits([local EXCEPT !.failure = "social"])
    BY DEF IInv, Fits, LocalOK, FormOK, BookingFields
  <2>3. Flock(GoesOn(f, "social", <<>>))
    BY GoesOnFor DEF AccountKinds, Waiting
  <2> QED
    BY <2>1, <2>2, <2>3, HearsKeeps, FliesKeeps
<1>4. CASE SignupSubmit
  <2>1. Fits([local EXCEPT !.submitting = TRUE, !.failure = None])
    BY <1>4 DEF SignupSubmit, On, IInv, Fits, LocalOK
  <2> QED
    BY <1>4, <2>1, SendsKeeps DEF SignupSubmit, Bound, AccountKinds
<1>5. CASE OnboardingType
  <2>1. PICK l \in {local, [local EXCEPT !.names = ~@], [local EXCEPT !.phone = ~@]} :
          local' = l /\ storage' = DraftOf(l)
    BY <1>5 DEF OnboardingType
  <2>2. Fits(l)
    BY <1>5 DEF OnboardingType, On, IInv, Fits, LocalOK
  <2>3. StorageFits(storage')
    BY <2>1 DEF DraftOf, IInv, StorageFits, StorageOK
  <2> QED
    BY <1>5, <2>1, <2>2, <2>3, AtPage, Kept DEF OnboardingType
<1>6. CASE ProfileSubmit
  <2>1. \A failure : Fits([local EXCEPT !.failure = failure])
    BY <1>6 DEF ProfileSubmit, On, IInv, Fits, LocalOK
  <2>2. Fits([local EXCEPT !.loading = TRUE])
    BY <1>6 DEF ProfileSubmit, On, IInv, Fits, LocalOK
  <2>3. Fits([local EXCEPT !.failure = None, !.step = 2])
    BY <1>6 DEF ProfileSubmit, On, IInv, Fits, LocalOK
  <2> QED
    BY <1>6, <2>1, <2>2, <2>3, SetsKeeps, SendsKeeps DEF ProfileSubmit, Bound, AccountKinds
<1>7. CASE PhoneSubmit
  <2>1. Fits([local EXCEPT !.failure = "phone"]) /\ Fits([local EXCEPT !.sending = TRUE, !.failure = None])
    BY <1>7 DEF PhoneSubmit, On, IInv, Fits, LocalOK
  <2> QED
    BY <1>7, <2>1, SetsKeeps, SendsKeeps DEF PhoneSubmit, Bound, AccountKinds
<1>8. CASE OtpType
  <2>1. Fits([local EXCEPT !.code = ~@])
    BY <1>8 DEF OtpType, On, IInv, Fits, LocalOK
  <2> QED
    BY <1>8, <2>1, SetsKeeps DEF OtpType
<1>9. CASE OtpBack
  <2>1. PICK form : form = From("/onboarding", "named")
    OBVIOUS
  <2>2. NavigateWith(form, flights) /\ Open(form)
    BY <1>9, <2>1, OpenAt DEF OtpBack, From
  <2> QED
    BY <1>9, <2>2, NavigatesWith, Kept DEF OtpBack
<1>10. CASE OtpResend
  <2>1. Fits([local EXCEPT !.waiting = TRUE])
    BY <1>10 DEF OtpResend, On, IInv, Fits, LocalOK
  <2> QED
    BY <1>10, <2>1, SendsKeeps DEF OtpResend, Bound, AccountKinds
<1>11. CASE OtpSubmit
  <2>1. Fits([local EXCEPT !.loading = TRUE])
    BY <1>11 DEF OtpSubmit, On, IInv, Fits, LocalOK
  <2> QED
    BY <1>11, <2>1, SendsFor DEF OtpSubmit, AccountKinds
<1>12. CASE ForgotSubmit
  <2>1. Fits([local EXCEPT !.submitting = TRUE])
    BY <1>12 DEF ForgotSubmit, On, IInv, Fits, LocalOK
  <2> QED
    BY <1>12, <2>1, SetsKeeps DEF ForgotSubmit
<1>13. CASE ResetSubmit
  <2>1. Fits([local EXCEPT !.submitting = TRUE])
    BY <1>13 DEF ResetSubmit, On, IInv, Fits, LocalOK
  <2> QED
    BY <1>13, <2>1, SendsKeeps DEF ResetSubmit, Bound, AccountKinds
<1> QED
  BY <1>1, <1>2, <1>3, <1>4, <1>5, <1>6, <1>7, <1>8, <1>9, <1>10, <1>11, <1>12, <1>13
  DEF SessionPagesActions

LEMMA LoginEndsKeeps == ASSUME IInv, LoginEnds PROVE IInv'
<1>1. PICK f \in Waiting("login"), reply \in {"ok", "onboarding", "unauthorized", "failed"} :
    /\ reply \in LoginReplies(f.key)
    /\ CASE reply = "unauthorized" -> ForcedOut
         [] reply = "failed" ->
                Hears(f, [local EXCEPT !.submitting = FALSE, !.failure = "unavailable"])
         [] reply = "onboarding" ->
                /\ storage' = [storage EXCEPT !.token = f.key]
                /\ NavigateWith(From("/onboarding", "email"), flights \ {f})
                /\ UNCHANGED <<tour, memory, cache, server>>
         [] reply = "ok" ->
                /\ storage' = [storage EXCEPT !.token = f.key, !.role = f.key]
                /\ memory' = [memory EXCEPT !.user = f.key]
                /\ Navigate(HomeOf(f.key), flights \ {f})
                /\ UNCHANGED <<tour, cache, server>>
  BY DEF LoginEnds
<1>2. CASE reply = "unauthorized"
  BY <1>1, <1>2, ForcedOutKeeps
<1>3. CASE reply = "failed"
  <2>1. Fits([local EXCEPT !.submitting = FALSE, !.failure = "unavailable"])
    BY DEF IInv, Fits, LocalOK, FormOK, BookingFields
  <2> QED
    BY <1>1, <1>3, <2>1, HearsKeeps
<1>4. CASE reply = "onboarding"
  <2>1. PICK form : form = From("/onboarding", "email")
    OBVIOUS
  <2>2. NavigateWith(form, flights \ {f}) /\ Open(form)
    BY <1>1, <1>4, <2>1, OpenAt DEF From
  <2>3. StorageFits(storage')
    BY <1>1, <1>4, AccountOf DEF IInv, StorageFits, StorageOK, Waiting, AccountKinds
  <2> QED
    BY <1>1, <1>4, <2>2, <2>3, NavigatesWith, Kept, WithoutFlight
<1>5. CASE reply = "ok"
  <2>1. StorageFits(storage')
    BY <1>1, <1>5, AccountOf DEF IInv, StorageFits, StorageOK, Waiting, AccountKinds
  <2>2. MemoryFits(memory')
    BY <1>1, <1>5, AccountOf DEF IInv, MemoryFits, MemoryOK, LoginReplies, Waiting, AccountKinds
  <2>3. HomeOf(f.key) # "/order/payment"
    BY DEF HomeOf
  <2> QED
    BY <1>1, <1>5, <2>1, <2>2, <2>3, Navigates, Kept, WithoutFlight
<1> QED
  BY <1>2, <1>3, <1>4, <1>5

LEMMA SocialEndsKeeps == ASSUME IInv, SocialEnds PROVE IInv'
<1>1. PICK f \in Waiting("social"), reply \in {"ok", "profile", "phone", "unauthorized", "failed"} :
    /\ CASE reply = "unauthorized" -> ForcedOut
         [] reply = "failed" -> Hears(f, [local EXCEPT !.failure = "social"])
         [] reply \in {"profile", "phone"} ->
                /\ storage' = [storage EXCEPT !.token = f.key]
                /\ NavigateWith(From("/onboarding", IF reply = "phone" THEN "socialNamed" ELSE "social"),
                                flights \ {f})
                /\ UNCHANGED <<tour, memory, cache, server>>
         [] reply = "ok" ->
                /\ storage' = [storage EXCEPT !.token = f.key]
                /\ flights' = GoesOn(f, "token", <<0>>)
                /\ UNCHANGED <<tour, location, history, local, memory, cache, server>>
  BY DEF SocialEnds
<1>2. CASE reply = "unauthorized"
  BY <1>1, <1>2, ForcedOutKeeps
<1>3. CASE reply = "failed"
  <2>1. Fits([local EXCEPT !.failure = "social"])
    BY DEF IInv, Fits, LocalOK, FormOK, BookingFields
  <2> QED
    BY <1>1, <1>3, <2>1, HearsKeeps
<1>4. CASE reply \in {"profile", "phone"}
  <2>1. PICK form : form = From("/onboarding", IF reply = "phone" THEN "socialNamed" ELSE "social")
    OBVIOUS
  <2>2. NavigateWith(form, flights \ {f}) /\ Open(form)
    BY <1>1, <1>4, <2>1, OpenAt DEF From
  <2>3. StorageFits(storage')
    BY <1>1, <1>4, AccountOf DEF IInv, StorageFits, StorageOK, Waiting, AccountKinds
  <2> QED
    BY <1>1, <1>4, <2>2, <2>3, NavigatesWith, Kept, WithoutFlight
<1>5. CASE reply = "ok"
  <2>1. StorageFits(storage')
    BY <1>1, <1>5, AccountOf DEF IInv, StorageFits, StorageOK, Waiting, AccountKinds
  <2>2. Flock(flights')
    BY <1>1, <1>5, GoesOnFor DEF AccountKinds, Waiting
  <2> QED
    BY <1>1, <1>5, <2>1, <2>2, AtPage, Kept
<1> QED
  BY <1>2, <1>3, <1>4, <1>5

\* The exchange of the code onboards the account, for good.
LEMMA ExchangeEndsKeeps == ASSUME IInv, ExchangeEnds PROVE IInv'
<1>1. PICK f \in Waiting("exchange"), reply \in {"ok", "lost", "refused"} :
    /\ server' = IF reply = "refused" THEN server ELSE [server EXCEPT !.onboarded = TRUE]
    /\ IF reply = "ok"
         THEN /\ storage' = [storage EXCEPT !.token = f.key]
              /\ flights' = GoesOn(f, "token", <<1>>)
              /\ UNCHANGED local
         ELSE /\ IF f.arg[1] < MaxExchanges
                   THEN /\ flights' = GoesOn(f, "exchange", <<f.arg[1] + 1>>)
                        /\ UNCHANGED local
                   ELSE /\ flights' = flights \ {f}
                        /\ local' = IF f.mine THEN [local EXCEPT !.loading = FALSE, !.failure = "otp"] ELSE local
              /\ UNCHANGED storage
    /\ UNCHANGED <<tour, location, history, memory, cache>>
  BY DEF ExchangeEnds
<1>2. ServerOK(server') /\ server'.orders = server.orders /\ (server.onboarded => server'.onboarded)
  BY <1>1 DEF IInv, ServerOK
<1>3. StorageFits(storage')
  BY <1>1, AccountOf DEF IInv, StorageFits, StorageOK, Waiting, AccountKinds
<1>4. Flock(flights')
  <2>1. f \in flights /\ f.kind \in AccountKinds
    BY DEF Waiting, AccountKinds
  <2>2. "token" \in AccountKinds /\ "exchange" \in AccountKinds
    BY DEF AccountKinds
  <2>3. Flock(GoesOn(f, "token", <<1>>)) /\ Flock(GoesOn(f, "exchange", <<f.arg[1] + 1>>))
    BY <2>1, <2>2, GoesOnFor
  <2> QED
    BY <1>1, <2>3, WithoutFlight
<1>5. Fits(local')
  <2>1. Fits([local EXCEPT !.loading = FALSE, !.failure = "otp"])
    BY DEF IInv, Fits, LocalOK, FormOK, BookingFields
  <2> QED
    BY <1>1, <2>1, Kept
<1> QED
  BY <1>1, <1>2, <1>3, <1>4, <1>5
  DEF IInv, Flock, Fits, StorageFits, StorageOK, MemoryOK, Placed, AtPayment, PendingOK, MembersOnly, Shown

LEMMA TokenEndsKeeps == ASSUME IInv, TokenEnds PROVE IInv'
<1>1. PICK f \in Waiting("token"), reply \in {"ok", "forbidden", "failed", "rejected"} :
    /\ reply \in MeReplies(f.key)
    /\ LET rest == flights \ {f} IN
       IF reply = "ok" \/ ~f.mine \/ SentToOnboarding(reply) \/ reply = "rejected"
         THEN HearsMe(f, reply,
                IF reply # "ok" THEN Nowhere
                ELSE IF f.arg = <<0>> THEN At("/")
                ELSE IF HomeOf(f.key) # "/" THEN At(HomeOf(f.key)) ELSE Nowhere,
                IF reply = "ok" /\ f.arg = <<1>>
                  THEN GoesOn(f, "register", <<>>) ELSE rest)
         ELSE /\ memory' = [memory EXCEPT !.user = UserAfter(f, reply)]
              /\ storage' = StorageAfter(f, reply)
              /\ local' = IF f.arg = <<1>> THEN [local EXCEPT !.loading = FALSE, !.failure = "otp"]
                          ELSE [local EXCEPT !.failure = "social"]
              /\ flights' = rest
              /\ UNCHANGED <<tour, location, history, cache, server>>
  BY DEF TokenEnds
<1>2. f.key \in Roles /\ (reply = "ok" /\ f.key = "user" => server.onboarded)
  BY <1>1, MeKnows, AccountOf DEF Waiting, AccountKinds
<1>3. CASE reply = "ok" \/ ~f.mine \/ SentToOnboarding(reply) \/ reply = "rejected"
  <2>1. PICK there : there = IF reply # "ok" THEN Nowhere
                             ELSE IF f.arg = <<0>> THEN At("/")
                             ELSE IF HomeOf(f.key) # "/" THEN At(HomeOf(f.key)) ELSE Nowhere
    OBVIOUS
  <2>2. there = Nowhere \/ Open(there)
    BY <2>1, OpenAt DEF HomeOf
  <2>3. PICK before : before = IF reply = "ok" /\ f.arg = <<1>>
                                 THEN GoesOn(f, "register", <<>>) ELSE flights \ {f}
    OBVIOUS
  <2>4. Flock(before)
    BY <2>3, GoesOnFree, WithoutFlight DEF Bound, AccountKinds, Waiting, Arriving
  <2>5. HearsMe(f, reply, there, before)
    BY <1>1, <1>3, <2>1, <2>3
  <2> QED
    BY <1>2, <2>2, <2>4, <2>5, HearsMeKeeps
<1>4. CASE ~(reply = "ok" \/ ~f.mine \/ SentToOnboarding(reply) \/ reply = "rejected")
  <2>1. MemoryFits(memory') /\ StorageFits(storage')
    BY <1>1, <1>2, <1>4 DEF IInv, MemoryFits, MemoryOK, UserAfter, StorageFits, StorageOK, StorageAfter, None
  <2>2. Fits(local')
    BY <1>1, <1>4 DEF IInv, Fits, LocalOK, FormOK, BookingFields
  <2> QED
    BY <1>1, <1>4, <2>1, <2>2, AtPage, Kept, WithoutFlight
<1> QED
  BY <1>3, <1>4

LEMMA SessionPagesSettleKeep == ASSUME IInv, SessionPagesSettle PROVE IInv'
<1>1. CASE SignupEnds
  <2>1. PICK f \in Waiting("signup") :
          \/ Hears(f, [local EXCEPT !.submitting = FALSE, !.failure = "refused"])
          \/ /\ NavigateWith(From("/onboarding", "email"), flights \ {f})
             /\ UNCHANGED <<tour, memory, storage, cache, server>>
    BY <1>1 DEF SignupEnds
  <2>2. Fits([local EXCEPT !.submitting = FALSE, !.failure = "refused"])
    BY DEF IInv, Fits, LocalOK, FormOK, BookingFields
  <2>3. Open(From("/onboarding", "email"))
    BY OpenAt DEF From
  <2> QED
    BY <2>1, <2>2, <2>3, HearsKeeps, NavigatesWith, Kept, WithoutFlight
<1>2. CASE RecaptchaStarts
  BY <1>2, SendsKeeps, Kept DEF RecaptchaStarts, Bound, AccountKinds
<1>3. CASE RecaptchaEnds
  <2>1. PICK f \in Waiting("recaptcha") :
          \/ Hears(f, [local EXCEPT !.failure = "recaptcha"])
          \/ /\ memory' = [memory EXCEPT !.recaptcha = TRUE]
             /\ local' = IF f.mine THEN [local EXCEPT !.recaptcha = TRUE] ELSE local
             /\ flights' = flights \ {f}
             /\ UNCHANGED <<tour, location, history, storage, cache, server>>
    BY <1>3 DEF RecaptchaEnds
  <2>2. Fits([local EXCEPT !.failure = "recaptcha"]) /\ Fits([local EXCEPT !.recaptcha = TRUE])
    BY DEF IInv, Fits, LocalOK, FormOK, BookingFields
  <2>3. MemoryFits([memory EXCEPT !.recaptcha = TRUE])
    BY DEF IInv, MemoryFits, MemoryOK
  <2> QED
    BY <2>1, <2>2, <2>3, HearsKeeps, AtPage, Kept, WithoutFlight
<1>4. CASE ProfileSaved
  <2>1. PICK f \in Waiting("names") :
          \/ Hears(f, [local EXCEPT !.loading = FALSE, !.failure = None, !.step = 2])
          \/ Hears(f, [local EXCEPT !.loading = FALSE, !.failure = "profile"])
          \/ ForcedOut
    BY <1>4 DEF ProfileSaved
  <2>2. /\ Fits([local EXCEPT !.loading = FALSE, !.failure = None, !.step = 2])
        /\ Fits([local EXCEPT !.loading = FALSE, !.failure = "profile"])
    BY DEF IInv, Fits, LocalOK, FormOK, BookingFields
  <2> QED
    BY <2>1, <2>2, HearsKeeps, ForcedOutKeeps
<1>5. CASE SmsEnds
  <2>1. PICK f \in Waiting("sms") :
          \/ Hears(f, [local EXCEPT !.sending = FALSE, !.failure = "sms"])
          \/ /\ memory' = [memory EXCEPT !.confirmation = TRUE]
             /\ NavigateWith(From("/onboarding/verify", "named"), flights \ {f})
             /\ UNCHANGED <<tour, storage, cache, server>>
    BY <1>5 DEF SmsEnds
  <2>2. Fits([local EXCEPT !.sending = FALSE, !.failure = "sms"])
    BY DEF IInv, Fits, LocalOK, FormOK, BookingFields
  <2>3. MemoryFits([memory EXCEPT !.confirmation = TRUE])
    BY DEF IInv, MemoryFits, MemoryOK
  <2>4. Open(From("/onboarding/verify", "named"))
    BY OpenAt DEF From
  <2> QED
    BY <2>1, <2>2, <2>3, <2>4, HearsKeeps, NavigatesWith, Kept, WithoutFlight
<1>6. CASE OtpTimer
  <2>1. Fits([local EXCEPT !.waiting = FALSE])
    BY DEF IInv, Fits, LocalOK, FormOK, BookingFields
  <2> QED
    BY <1>6, <2>1, SetsKeeps DEF OtpTimer
<1>7. CASE ResendEnds
  <2>1. Fits([local EXCEPT !.waiting = FALSE])
    BY DEF IInv, Fits, LocalOK, FormOK, BookingFields
  <2> QED
    BY <1>7, <2>1, HearsKeeps, Kept DEF ResendEnds
<1>8. CASE ConfirmEnds
  <2>1. PICK f \in Waiting("confirm") :
          \/ OtpFails(f)
          \/ /\ flights' = GoesOn(f, "exchange", <<1>>)
             /\ UNCHANGED <<tour, location, history, local, memory, storage, cache, server>>
    BY <1>8 DEF ConfirmEnds
  <2>2. Fits([local EXCEPT !.loading = FALSE, !.failure = "otp"])
    BY DEF IInv, Fits, LocalOK, FormOK, BookingFields
  <2>3. Flock(GoesOn(f, "exchange", <<1>>))
    BY GoesOnFor DEF AccountKinds, Waiting
  <2> QED
    BY <2>1, <2>2, <2>3, HearsKeeps, FliesKeeps DEF OtpFails
<1>9. CASE RegisterEnds
  <2>1. PICK f \in Waiting("register") :
          /\ storage' = [storage EXCEPT !.justOnboarded = TRUE]
          /\ Navigate("/", flights \ {f})
          /\ UNCHANGED <<tour, memory, cache, server>>
    BY <1>9 DEF RegisterEnds
  <2>2. StorageFits(storage')
    BY <2>1 DEF IInv, StorageFits, StorageOK
  <2> QED
    BY <2>1, <2>2, Navigates, Kept, WithoutFlight
<1>10. CASE ForgotEnds
  <2>1. \A failure : Fits([local EXCEPT !.submitting = FALSE, !.failure = failure])
    BY DEF IInv, Fits, LocalOK, FormOK, BookingFields
  <2> QED
    BY <1>10, <2>1, SetsKeeps DEF ForgotEnds
<1>11. CASE ResetEnds
  <2>1. PICK f \in Waiting("reset") :
          \/ Hears(f, [local EXCEPT !.submitting = FALSE, !.failure = "reset"])
          \/ /\ local' = IF f.mine THEN [local EXCEPT !.submitting = FALSE] ELSE local
             /\ flights' = GoesOn(f, "toLogin", <<>>)
             /\ UNCHANGED <<tour, location, history, memory, storage, cache, server>>
    BY <1>11 DEF ResetEnds
  <2>2. /\ Fits([local EXCEPT !.submitting = FALSE, !.failure = "reset"])
        /\ Fits([local EXCEPT !.submitting = FALSE])
    BY DEF IInv, Fits, LocalOK, FormOK, BookingFields
  <2>3. Flock(GoesOn(f, "toLogin", <<>>))
    BY GoesOnFree DEF Bound, AccountKinds, Waiting, Arriving
  <2> QED
    BY <2>1, <2>2, <2>3, HearsKeeps, AtPage, Kept
<1>12. CASE ResetTimer
  BY <1>12, Navigates, Kept, WithoutFlight DEF ResetTimer
<1> QED
  BY <1>1, <1>2, <1>3, <1>4, <1>5, <1>6, <1>7, <1>8, <1>9, <1>10, <1>11, <1>12,
     LoginEndsKeeps, SocialEndsKeeps, ExchangeEndsKeeps, TokenEndsKeeps
  DEF SessionPagesSettle

(* The query cache: fetches belong to no page, and nothing is claimed of them *)

LEMMA AsksFlock ==
  ASSUME NEW F, Flock(F), NEW keys, keys \subseteq Keys, MountAsks(keys, F)
  PROVE  Flock(flights')
<1>1. PICK asked : flights' = F \cup {Fetch(key) : key \in asked} /\ asked \subseteq Keys
  BY DEF MountAsks
<1> QED
  BY <1>1, FetchFlock, FlockParts

\* A page that mounts and asks the cache.
LEMMA AsksKeeps ==
  ASSUME IInv, NEW keys, keys \subseteq Keys, MountAsks(keys, flights), Fits(local'),
         UNCHANGED <<tour, location, history, memory, storage, server>>
  PROVE  IInv'
BY AsksFlock, AtPage, Kept

LEMMA InvalidatesFlock ==
  ASSUME NEW F, Flock(F), NEW keys, NEW written, Invalidates(keys, written, F)
  PROVE  Flock(flights')
BY InvalidatedFlock DEF Invalidates

LEMMA QueryArrivesKeeps == ASSUME IInv, NEW key, QueryArrives(key) PROVE IInv'
<1>1. PICK f \in FetchOf(key) : flights' = flights \ {f}
                                /\ UNCHANGED <<tour, location, history, local, memory, storage, server>>
  BY DEF QueryArrives
<1> QED
  BY <1>1, FliesKeeps, WithoutFlight

LEMMA IntervalKeeps == ASSUME IInv, NEW key, IntervalFires(key) PROVE IInv'
<1>1. Flock({Fetch(key)})
  BY FreeFlight DEF Fetch, FlightFields, Bound, AccountKinds, FlightTyped
<1>2. Flock(flights \cup {Fetch(key)})
  BY <1>1, Kept, FlockParts
<1> QED
  BY <1>2, FliesKeeps DEF IntervalFires

(* The customer's own pages *)

LEMMA AccountPagesMountKeep == ASSUME IInv, AccountPagesMount PROVE IInv'
<1>1. CASE WelcomeMount
  <2>1. PICK polling : polling = flights \cup {Flight("poll", None, <<>>)}
    OBVIOUS
  <2>2. Flock(polling)
    BY <2>1, Fresh, Kept, FlockParts DEF Bound, AccountKinds
  <2>3. StorageFits(storage')
    BY <1>1 DEF WelcomeMount, IInv, StorageFits, StorageOK
  <2>4. CASE memory.user \in {"admin", "staff"}
    <3>1. Navigate(HomeOf(memory.user), polling)
      BY <1>1, <2>1, <2>4 DEF WelcomeMount
    <3>2. HomeOf(memory.user) # "/order/payment"
      BY DEF HomeOf
    <3> QED
      BY <1>1, <2>2, <2>3, <3>1, <3>2, Navigates, Kept DEF WelcomeMount
  <2>5. CASE memory.user \notin {"admin", "staff"}
    <3>1. flights' = polling /\ local' = WelcomePage /\ Stays
      BY <1>1, <2>1, <2>5 DEF WelcomeMount
    <3>2. Fits(local')
      BY <3>1, ToursAssumption DEF WelcomePage, Pages, Fits, LocalOK
    <3> QED
      BY <1>1, <2>2, <2>3, <3>1, <3>2, AtPage, Kept DEF WelcomeMount, Stays
  <2> QED
    BY <2>4, <2>5
<1>2. CASE LoyaltyMount
  BY <1>2, AsksKeeps, OtherPage DEF LoyaltyMount, Keys, Pages
<1>3. CASE PastOrdersMount
  BY <1>3, SetsKeeps, OtherPage DEF PastOrdersMount, PastOrdersPage, Pages
<1>4. CASE AccountMount
  BY <1>4, SetsKeeps, OtherPage DEF AccountMount, Pages
<1>5. CASE ProfileMount
  BY <1>5, AsksKeeps, OtherPage DEF ProfileMount, ProfilePage, Keys, Pages
<1> QED
  BY <1>1, <1>2, <1>3, <1>4, <1>5 DEF AccountPagesMount

LEMMA PollsKeep == ASSUME IInv, Polls PROVE IInv'
<1>1. CASE PollArrives
  <2>1. PICK f \in Waiting("poll") \cup Waiting("pollOld"), wash \in {None, "active", "ended", "failed"} :
    LET kept == IF wash = "failed" THEN None ELSE wash IN
    /\ storage' = [storage EXCEPT !.wash = kept]
    /\ \E rewards \in {None, "ready"} :
          local' = IF ~f.mine THEN local
                   ELSE IF wash = "failed" THEN [local EXCEPT !.wash = kept]
                   ELSE [local EXCEPT !.wash = kept, !.rewards = rewards]
    /\ flights' = (flights \ {f}) \cup (IF f.kind = "poll" /\ f.mine
                                          THEN {Flight("pollTimer", None, <<>>)} ELSE {})
    /\ UNCHANGED <<tour, location, history, memory, cache, server>>
    BY <1>1 DEF PollArrives
  <2>2. StorageFits(storage')
    BY <2>1 DEF IInv, StorageFits, StorageOK
  <2>3. Fits(local')
    BY <2>1 DEF IInv, Fits, LocalOK, FormOK, BookingFields
  <2>4. Flock({Flight("pollTimer", None, <<>>)}) /\ Flock({})
    BY Fresh, NoFlock DEF Bound, AccountKinds
  <2>5. Flock(flights')
    BY <2>1, <2>4, WithoutFlight, FlockParts
  <2> QED
    BY <2>1, <2>2, <2>3, <2>5, AtPage, Kept
<1>2. CASE PollTimer
  BY <1>2, GoesOnFree, FliesKeeps DEF PollTimer, Bound, AccountKinds, Waiting, Arriving
<1> QED
  BY <1>1, <1>2 DEF Polls

LEMMA AccountPagesActionsKeep == ASSUME IInv, AccountPagesActions PROVE IInv'
<1>1. CASE CloseModal
  <2>1. Fits([local EXCEPT !.greeting = FALSE])
    BY DEF IInv, Fits, LocalOK, FormOK, BookingFields
  <2> QED
    BY <1>1, <2>1, SetsKeeps DEF CloseModal
<1>2. CASE WelcomeLinks
  BY <1>2, Navigates, Kept DEF WelcomeLinks
<1>3. CASE HandleClaimReward
  <2>1. Fits([local EXCEPT !.claims = @ + 1])
    BY <1>3, ToursAssumption DEF HandleClaimReward, On, IInv, Fits, LocalOK
  <2> QED
    BY <1>3, <2>1, SetsKeeps DEF HandleClaimReward
<1>4. CASE LoyaltyTries
  BY <1>4, ReloadsHere, Kept DEF LoyaltyTries
<1>5. CASE HandleRewardClick
  <2>1. Fits([local EXCEPT !.reward = ~@])
    BY DEF IInv, Fits, LocalOK, FormOK, BookingFields
  <2> QED
    BY <1>5, <2>1, SetsKeeps DEF HandleRewardClick
<1>6. CASE LoyaltyLinks
  BY <1>6, Navigates, Kept DEF LoyaltyLinks
<1>7. CASE LoadOrderDetails
  <2>1. Fits([local EXCEPT !.details = TRUE])
    BY DEF IInv, Fits, LocalOK, FormOK, BookingFields
  <2> QED
    BY <1>7, <2>1, SetsKeeps DEF LoadOrderDetails
<1>8. CASE CloseOrder
  <2>1. Fits([local EXCEPT !.order = FALSE])
    BY DEF IInv, Fits, LocalOK, FormOK, BookingFields
  <2> QED
    BY <1>8, <2>1, SetsKeeps DEF CloseOrder
<1>9. CASE HandleBookAgain
  BY <1>9, Navigates, Kept DEF HandleBookAgain
<1>10. CASE HandleEdit
  <2>1. Fits([local EXCEPT !.editing = ~@, !.failure = FALSE])
    BY DEF IInv, Fits, LocalOK, FormOK, BookingFields
  <2> QED
    BY <1>10, <2>1, SetsKeeps DEF HandleEdit
<1>11. CASE HandleSave
  <2>1. Fits([local EXCEPT !.failure = FALSE])
    BY DEF IInv, Fits, LocalOK, FormOK, BookingFields
  <2> QED
    BY <1>11, <2>1, SendsKeeps DEF HandleSave, Bound, AccountKinds
<1>12. CASE HandleLogout
  BY <1>12, SignedOut, Navigates, Kept DEF HandleLogout
<1>13. CASE ProfileRefreshes
  BY <1>13, InvalidatesFlock, FliesKeeps, Kept DEF ProfileRefreshes
<1>14. CASE ProfileForms
  <2>1. /\ Fits([local EXCEPT !.editing = ~@]) /\ Fits([local EXCEPT !.form = ~@])
        /\ Fits([local EXCEPT !.updating = TRUE]) /\ Fits([local EXCEPT !.adding = TRUE])
        /\ Fits(local)
    BY DEF IInv, Fits, LocalOK, FormOK, BookingFields
  <2> QED
    BY <1>14, <2>1, SetsKeeps, SendsKeeps DEF ProfileForms, Bound, AccountKinds
<1> QED
  BY <1>1, <1>2, <1>3, <1>4, <1>5, <1>6, <1>7, <1>8, <1>9, <1>10, <1>11, <1>12, <1>13, <1>14
  DEF AccountPagesActions

LEMMA AccountPagesSettleKeep == ASSUME IInv, AccountPagesSettle PROVE IInv'
<1>1. CASE ClaimEnds
  <2>1. Fits([local EXCEPT !.claims = @ - 1])
    BY <1>1, ToursAssumption DEF ClaimEnds, IInv, Fits, LocalOK
  <2> QED
    BY <1>1, <2>1, SetsKeeps DEF ClaimEnds
<1>2. CASE PastOrdersArrive
  <2>1. PICK l : l = [local EXCEPT !.loading = FALSE]
    OBVIOUS
  <2>2. Fits([l EXCEPT !.failure = TRUE]) /\ \A some : Fits([l EXCEPT !.some = some])
    BY <2>1 DEF IInv, Fits, LocalOK, FormOK, BookingFields
  <2>3. Sets([l EXCEPT !.failure = TRUE]) \/ \E some \in BOOLEAN : Sets([l EXCEPT !.some = some])
    BY <1>2, <2>1 DEF PastOrdersArrive
  <2> QED
    BY <2>2, <2>3, SetsKeeps
<1>3. CASE OrderDetailsArrive
  <2>1. \A found : Fits([local EXCEPT !.details = FALSE, !.order = found])
    BY DEF IInv, Fits, LocalOK, FormOK, BookingFields
  <2> QED
    BY <1>3, <2>1, SetsKeeps DEF OrderDetailsArrive
<1>4. CASE SaveEnds
  <2>1. PICK f \in Waiting("saveAccount") :
          \/ ForcedOut
          \/ Hears(f, [local EXCEPT !.failure = TRUE])
          \/ /\ flights' = GoesOn(f, "refreshAccount", <<>>)
             /\ UNCHANGED <<tour, location, history, local, memory, storage, cache, server>>
    BY <1>4 DEF SaveEnds
  <2>2. Fits([local EXCEPT !.failure = TRUE])
    BY DEF IInv, Fits, LocalOK, FormOK, BookingFields
  <2>3. Flock(GoesOn(f, "refreshAccount", <<>>))
    BY GoesOnFree DEF Bound, AccountKinds, Waiting, Arriving
  <2> QED
    BY <2>1, <2>2, <2>3, ForcedOutKeeps, HearsKeeps, FliesKeeps
<1>5. CASE AccountRefreshed
  <2>1. PICK f \in Waiting("refreshAccount"), reply \in {"ok", "forbidden", "failed", "rejected"} :
          /\ reply \in RefreshReplies
          /\ HearsMe([f EXCEPT !.key = tour.who], reply, Nowhere, GoesOn(f, "saved", <<>>))
    BY <1>5 DEF AccountRefreshed
  <2>2. PICK g : g = [f EXCEPT !.key = tour.who]
    OBVIOUS
  <2>3. g.key = tour.who
    BY <2>2 DEF Waiting, IInv, FlightsOK, FlightFields
  <2>4. Flock(GoesOn(f, "saved", <<>>))
    BY GoesOnFree DEF Bound, AccountKinds, Waiting, Arriving
  <2>5. HearsMe(g, reply, Nowhere, GoesOn(f, "saved", <<>>))
    BY <2>1, <2>2
  <2>6. g.key \in Roles /\ (reply = "ok" /\ g.key = "user" => server.onboarded)
    BY <2>1, <2>3, RefreshKnows DEF IInv
  <2> QED
    BY <2>4, <2>5, <2>6, HearsMeKeeps
<1>6. CASE EditingEnds
  <2>1. Fits([local EXCEPT !.editing = FALSE])
    BY DEF IInv, Fits, LocalOK, FormOK, BookingFields
  <2> QED
    BY <1>6, <2>1, HearsKeeps DEF EditingEnds
<1>7. ASSUME NEW kind \in Mutations, ProfileMutated(kind) PROVE IInv'
  <2>1. PICK f \in Waiting(kind), done \in BOOLEAN :
    /\ local' = AfterMutation(f, done)
    /\ IF done
         THEN Invalidates({"profile"}, {"profile"},
                (flights \ {f}) \cup (IF kind = "updateProfile"
                                        THEN {Flight("refresh", tour.who, <<>>)} ELSE {}))
         ELSE flights' = flights \ {f} /\ UNCHANGED cache
    /\ UNCHANGED <<tour, location, history, memory, storage, server>>
    BY <1>7 DEF ProfileMutated
  <2>2. Fits(local')
    BY <2>1 DEF AfterMutation, IInv, Fits, LocalOK, FormOK, BookingFields
  <2>3. Flock({Flight("refresh", tour.who, <<>>)}) /\ Flock({})
    <3>1. PICK g : g = Flight("refresh", tour.who, <<>>)
      OBVIOUS
    <3>2. FlightFields \subseteq DOMAIN g /\ FlightTyped(g) /\ g.kind = "refresh" /\ g.key = tour.who
      BY <3>1, FlightIs, FlightTypes, FlightsTyped
    <3>3. FlightOK(g, server.orders, tour.who)
      BY <3>2 DEF FlightOK, AccountKinds
    <3> QED
      BY <3>1, <3>2, <3>3, OneFlock, NoFlock
  <2>4. PICK F : F = (flights \ {f}) \cup (IF kind = "updateProfile"
                                             THEN {Flight("refresh", tour.who, <<>>)} ELSE {})
    OBVIOUS
  <2>5. Flock(F)
    BY <2>3, <2>4, WithoutFlight, FlockParts
  <2>6. Flock(flights')
    BY <2>1, <2>4, <2>5, InvalidatesFlock, WithoutFlight
  <2> QED
    BY <2>1, <2>2, <2>6, AtPage, Kept
<1> QED
  BY <1>1, <1>2, <1>3, <1>4, <1>5, <1>6, <1>7 DEF AccountPagesSettle

(* Orders *)

LEMMA SequenceIs ==
  ASSUME NEW s, NEW n \in Nat, s = [i \in 1..n |-> s[i]]
  PROVE  s \in Seq({s[i] : i \in DOMAIN s}) /\ Len(s) = n
<1>1. PICK S : S = {s[i] : i \in 1..n}
  OBVIOUS
<1>2. \A i \in 1..n : s[i] \in S
  BY <1>1
<1>3. s \in [1..n -> S] /\ DOMAIN s = 1..n
  BY <1>2
<1>4. s \in Seq(S) /\ Len(s) = n
  BY <1>3, SeqDef, LenProperties
<1> QED
  BY <1>1, <1>3, <1>4

LEMMA OrdersAre ==
  ASSUME NEW orders, OrdersOK(orders)
  PROVE  Len(orders) \in Nat /\ DOMAIN orders = 1..Len(orders) /\ orders = [i \in 1..Len(orders) |-> orders[i]]
BY LenProperties DEF OrdersOK

\* A server whose orders become "new" and that changes in nothing else.
LEMMA OrdersServe ==
  ASSUME IInv, NEW new, server' = [server EXCEPT !.orders = new],
         OrdersOK(new), Grows(server.orders, new)
  PROVE  Serves /\ server'.orders = new
BY DEF IInv, ServerOK, Serves

\* An order is appended.
LEMMA AddedServes ==
  ASSUME IInv, NEW record, RecordOK(record),
         server' = [server EXCEPT !.orders = Append(@, record)]
  PROVE  /\ Serves
         /\ Len(server.orders) + 1 \in 1..Len(server'.orders)
         /\ server'.orders[Len(server.orders) + 1] = record
<1>1. PICK old, n : old = server.orders /\ n = Len(old)
  OBVIOUS
<1>2. OrdersOK(old) /\ n \in Nat /\ DOMAIN old = 1..n
  BY <1>1, OrdersAre DEF IInv, ServerOK
<1>3. PICK S : S = {old[i] : i \in 1..n} \cup {record}
  OBVIOUS
<1>4. old \in Seq(S)
  BY <1>1, <1>2, <1>3, ElementOfSeq, LenProperties, SeqDef, OrdersAre
<1>5. PICK new : new = Append(old, record)
  OBVIOUS
<1>6. /\ new \in Seq(S) /\ Len(new) = n + 1 /\ new[n + 1] = record
      /\ \A i \in 1..n : new[i] = old[i]
  BY <1>1, <1>3, <1>4, <1>5, AppendProperties
<1>7. OrdersOK(new)
  <2>1. new = [i \in 1..(n + 1) |-> new[i]]
    BY <1>6, LenProperties
  <2>2. new \in Seq({new[i] : i \in DOMAIN new})
    BY <1>2, <2>1, SequenceIs
  <2>3. ASSUME NEW i \in 1..Len(new)
        PROVE  RecordOK(new[i])
    <3>1. i \in 1..n \/ i = n + 1
      BY <1>2, <1>6
    <3>2. CASE i \in 1..n
      BY <1>1, <1>2, <1>6, <3>2 DEF OrdersOK
    <3>3. CASE i = n + 1
      BY <1>6, <3>3
    <3> QED
      BY <3>1, <3>2, <3>3
  <2> QED
    BY <2>2, <2>3 DEF OrdersOK
<1>8. Grows(old, new)
  BY <1>1, <1>2, <1>6 DEF Grows
<1>9. server' = [server EXCEPT !.orders = new]
  BY <1>1, <1>5
<1> QED
  BY <1>1, <1>2, <1>6, <1>7, <1>8, <1>9, OrdersServe

\* An order changes in its status, and in what has been paid for it if nothing has.
LEMMA ChangedServes ==
  ASSUME IInv, NEW k, NEW new, server' = [server EXCEPT !.orders = new],
         DOMAIN new = DOMAIN server.orders, new = [i \in DOMAIN new |-> new[i]],
         \A i \in DOMAIN server.orders \ {k} : new[i] = server.orders[i],
         k \in DOMAIN server.orders =>
            /\ DOMAIN new[k] = DOMAIN server.orders[k]
            /\ \A field \in {"service", "quantity", "extra"} : new[k][field] = server.orders[k][field]
            /\ new[k].status # "created"
            /\ new[k].paid \in Int
            /\ server.orders[k].paid # 0 => new[k].paid = server.orders[k].paid
  PROVE  Serves /\ server'.orders = new
<1>1. PICK old, n : old = server.orders /\ n = Len(old)
  OBVIOUS
<1>2. OrdersOK(old) /\ n \in Nat /\ DOMAIN old = 1..n
  BY <1>1, OrdersAre DEF IInv, ServerOK
<1>3. new \in Seq({new[i] : i \in DOMAIN new}) /\ Len(new) = n
  BY <1>1, <1>2, SequenceIs
<1>4. OrdersOK(new)
  <2>1. ASSUME NEW i \in 1..n PROVE RecordOK(new[i])
    BY <1>1, <1>2 DEF OrdersOK, RecordOK, RecordFields
  <2> QED
    BY <1>3, <2>1 DEF OrdersOK
<1>5. Grows(old, new)
  BY <1>1, <1>2, <1>3 DEF Grows, Price
<1> QED
  BY <1>1, <1>4, <1>5, OrdersServe

LEMMA ServesKeeps ==
  ASSUME IInv, Serves, FlightsOK(flights', server'.orders, tour.who),
         UNCHANGED <<tour, location, history, local, memory, storage>>
  PROVE  IInv'
<1>1. PlacesOK(history \cup {location}, server'.orders) /\ PendingOK(storage.pending, server'.orders)
  BY GrowthKeeps DEF IInv, Serves
<1>2. MembersOnly'
  BY DEF IInv, Serves, MembersOnly
<1> QED
  BY <1>1, <1>2 DEF IInv, Serves, Placed, LocalOK, Shown, MemoryOK, StorageOK

LEMMA FlightsServed ==
  ASSUME Serves
  PROVE  \A F : Flock(F) => FlightsOK(F, server'.orders, tour.who)
BY GrowthKeeps DEF Serves, Flock

LEMMA ServerCreatesKeeps == ASSUME IInv, ServerCreates PROVE IInv'
<1>1. PICK f \in Waiting("create") :
    \/ /\ server' = [server EXCEPT !.orders = Append(@,
             [service |-> f.arg[1], quantity |-> f.arg[2], extra |-> f.arg[3],
              status |-> "created", paid |-> 0])]
       /\ \/ flights' = Answered(f, "ok", Len(server.orders) + 1)
          \/ flights' = Answered(f, "failed", 0)
       /\ UNCHANGED <<tour, location, history, local, memory, storage, cache>>
    \/ Answers(f, "failed", 0)
  BY DEF ServerCreates
<1>2. /\ FlightFields \subseteq DOMAIN f /\ FlightTyped(f) /\ f.kind = "create"
      /\ f.arg[1] \in 1..Len(Catalog) /\ f.arg[2] \in Nat /\ f.arg[3] \in Nat
      /\ f.arg[4] = Price([service |-> f.arg[1], quantity |-> f.arg[2], extra |-> f.arg[3],
                           status |-> "created", paid |-> 0])
  BY DEF Waiting, IInv, FlightsOK, FlightOK
<1>3. CASE /\ server' = [server EXCEPT !.orders = Append(@,
                 [service |-> f.arg[1], quantity |-> f.arg[2], extra |-> f.arg[3],
                  status |-> "created", paid |-> 0])]
           /\ \/ flights' = Answered(f, "ok", Len(server.orders) + 1)
              \/ flights' = Answered(f, "failed", 0)
           /\ UNCHANGED <<tour, location, history, local, memory, storage, cache>>
  <2>1. PICK record : record = [service |-> f.arg[1], quantity |-> f.arg[2], extra |-> f.arg[3],
                                status |-> "created", paid |-> 0]
    OBVIOUS
  <2>2. RecordOK(record)
    BY <1>2, <2>1 DEF RecordFields, RecordOK
  <2>3. server' = [server EXCEPT !.orders = Append(@, record)]
    BY <1>3, <2>1
  <2>4. /\ Serves
        /\ Len(server.orders) + 1 \in 1..Len(server'.orders)
        /\ server'.orders[Len(server.orders) + 1] = record
    BY <2>2, <2>3, AddedServes
  <2>5. PICK g : /\ flights' = (flights \ {f}) \cup {g}
                 /\ \/ g = [f EXCEPT !.reply = "ok", !.value = Len(server.orders) + 1]
                    \/ g = [f EXCEPT !.reply = "failed", !.value = 0]
    BY <1>3 DEF Answered
  <2>6. /\ FlightFields \subseteq DOMAIN g /\ g.kind = f.kind /\ g.arg = f.arg
        /\ g.reply # "failed" => g.value = Len(server.orders) + 1
        /\ FlightTyped(g)
    <3>1. Len(server.orders) \in Nat
      BY OrdersAre DEF IInv, ServerOK
    <3>2. PICK reply, value : /\ value \in Nat /\ g = [f EXCEPT !.reply = reply, !.value = value]
                              /\ reply # "failed" => value = Len(server.orders) + 1
      <4>1. CASE g = [f EXCEPT !.reply = "ok", !.value = Len(server.orders) + 1]
        <5>1. PICK n \in Nat : n = Len(server.orders) + 1
          BY <3>1
        <5>2. "ok" # "failed" /\ g = [f EXCEPT !.reply = "ok", !.value = n]
          BY <4>1, <5>1
        <5> QED
          BY <5>1, <5>2
      <4>2. CASE g = [f EXCEPT !.reply = "failed", !.value = 0]
        BY <4>2
      <4> QED
        BY <2>5, <4>1, <4>2
    <3> QED
      BY <1>2, <3>2 DEF FlightFields, FlightTyped
  <2>7. FlightOK(g, server'.orders, tour.who)
    BY <1>2, <2>1, <2>4, <2>6 DEF FlightOK, AccountKinds
  <2>8. FlightsOK(flights \ {f}, server'.orders, tour.who)
    BY <2>4, FlightsServed, WithoutFlight
  <2>9. FlightsOK(flights', server'.orders, tour.who)
    BY <2>5, <2>6, <2>7, <2>8, FS_Singleton, FS_Union DEF FlightsOK
  <2> QED
    BY <1>3, <2>4, <2>9, ServesKeeps
<1>4. CASE Answers(f, "failed", 0)
  <2>1. PICK g : g = [f EXCEPT !.reply = "failed", !.value = 0]
    OBVIOUS
  <2>2. FlightFields \subseteq DOMAIN g /\ g.kind = f.kind /\ g.arg = f.arg /\ g.reply = "failed"
        /\ FlightTyped(g)
    BY <1>2, <2>1 DEF FlightFields, FlightTyped
  <2>3. Flock({g})
    BY <1>2, <2>2, OneFlock DEF FlightOK, AccountKinds
  <2>4. Flock(Answered(f, "failed", 0))
    BY <2>1, <2>3, WithoutFlight, FlockParts DEF Answered
  <2> QED
    BY <1>4, <2>4, FliesKeeps DEF Answers
<1> QED
  BY <1>1, <1>3, <1>4

\* An answer to a charge leaves what is claimed of it.
LEMMA ChargeAnswered ==
  ASSUME IInv, NEW f \in Waiting("charge"), NEW reply, NEW value \in Nat
  PROVE  Flock(Answered(f, reply, value))
<1>1. /\ f \in flights /\ f.kind = "charge" /\ FlightFields \subseteq DOMAIN f /\ FlightTyped(f)
      /\ FlightOK(f, server.orders, tour.who)
  BY DEF Waiting, IInv, FlightsOK
<1>2. PICK g : g = [f EXCEPT !.reply = reply, !.value = value]
  OBVIOUS
<1>3. FlightFields \subseteq DOMAIN g /\ g.kind = "charge" /\ g.arg = f.arg /\ FlightTyped(g)
  BY <1>1, <1>2 DEF FlightFields, FlightTyped
<1>4. Flock({g})
  BY <1>1, <1>3, OneFlock DEF FlightOK, AccountKinds
<1> QED
  BY <1>2, <1>4, WithoutFlight, FlockParts DEF Answered

\* What an order costs, and what is to be paid for it, are whole numbers.
LEMMA PriceIs ==
  ASSUME NEW order, order.service \in 1..Len(Catalog), order.quantity \in Nat, order.extra \in Nat
  PROVE  Price(order) \in Int
<1>1. PICK price, extra : price = Catalog[order.service].price
                          /\ extra = ExtraPrice[Catalog[order.service].category]
  OBVIOUS
<1>2. price \in Int /\ extra \in Int
  <2>1. Catalog[order.service].price \in Int /\ ExtraPrice[Catalog[order.service].category] \in Int
    BY CatalogAssumption
  <2> QED
    BY <1>1, <2>1
<1>3. PICK services, extras : services = price * order.quantity /\ extras = extra * order.extra
  OBVIOUS
<1>4. services \in Int /\ extras \in Int
  BY <1>2, <1>3
<1>5. Price(order) = 100 * (services + extras)
  BY <1>1, <1>3 DEF Price
<1> QED
  BY <1>4, <1>5

LEMMA OrderPriceIs ==
  ASSUME IInv, NEW order \in 1..Len(server.orders)
  PROVE  Price(server.orders[order]) \in Int
BY PriceIs DEF IInv, ServerOK, OrdersOK, RecordOK

LEMMA BillIs ==
  ASSUME IInv, NEW f \in flights, f.kind \in {"popup", "charge", "redeem", "qr"}
  PROVE  f.arg[1] \in 1..Len(server.orders) /\ f.arg[2] \in Int
<1>1. /\ f.arg[1] \in 1..Len(server.orders) /\ f.arg[3] \in 0..1
      /\ f.arg[2] = Price(server.orders[f.arg[1]]) - f.arg[3] * RewardValue
  BY DEF IInv, FlightsOK, FlightOK
<1>2. Price(server.orders[f.arg[1]]) \in Int /\ RewardValue \in Nat
  BY <1>1, OrderPriceIs, CatalogAssumption
<1> QED
  BY <1>1, <1>2

LEMMA ServerChargesKeeps == ASSUME IInv, ServerCharges PROVE IInv'
<1>1. PICK f \in Waiting("charge") :
    \/ /\ server.orders[f.arg[1]].paid = 0
       /\ server' = [server EXCEPT !.orders[f.arg[1]].paid = f.arg[2],
                                   !.orders[f.arg[1]].status = "paid"]
       /\ \E reply \in {"ok", "failed"} : flights' = Answered(f, reply, 0)
       /\ UNCHANGED <<tour, location, history, local, memory, storage, cache>>
    \/ Answers(f, "failed", 0)
  BY DEF ServerCharges
<1>2. CASE /\ server.orders[f.arg[1]].paid = 0
           /\ server' = [server EXCEPT !.orders[f.arg[1]].paid = f.arg[2],
                                       !.orders[f.arg[1]].status = "paid"]
           /\ \E reply \in {"ok", "failed"} : flights' = Answered(f, reply, 0)
           /\ UNCHANGED <<tour, location, history, local, memory, storage, cache>>
  <2>1. PICK k, paid : k = f.arg[1] /\ paid = f.arg[2]
    OBVIOUS
  <2>2. PICK new : new = [[server.orders EXCEPT ![k] = [@ EXCEPT !.paid = paid]]
                             EXCEPT ![k] = [@ EXCEPT !.status = "paid"]]
    OBVIOUS
  <2>3. server' = [server EXCEPT !.orders = new]
    BY <1>2, <2>1, <2>2 DEF IInv, ServerOK
  <2>4. OrdersOK(server.orders) /\ DOMAIN server.orders = 1..Len(server.orders)
    BY OrdersAre DEF IInv, ServerOK
  <2>5. /\ DOMAIN new = DOMAIN server.orders /\ new = [i \in DOMAIN new |-> new[i]]
        /\ \A i \in DOMAIN server.orders \ {k} : new[i] = server.orders[i]
        /\ k \in DOMAIN server.orders =>
             new[k] = [[server.orders[k] EXCEPT !.paid = paid] EXCEPT !.status = "paid"]
    BY <2>2
  <2>9. paid \in Int
    BY <2>1, BillIs DEF Waiting
  <2>6. k \in DOMAIN server.orders =>
            /\ DOMAIN new[k] = DOMAIN server.orders[k]
            /\ \A field \in {"service", "quantity", "extra"} : new[k][field] = server.orders[k][field]
            /\ new[k].status # "created" /\ new[k].paid \in Int
            /\ server.orders[k].paid # 0 => new[k].paid = server.orders[k].paid
    <3> SUFFICES ASSUME k \in DOMAIN server.orders
                 PROVE  /\ DOMAIN new[k] = DOMAIN server.orders[k]
                        /\ \A field \in {"service", "quantity", "extra"} :
                             new[k][field] = server.orders[k][field]
                        /\ new[k].status # "created" /\ new[k].paid \in Int
      BY <1>2, <2>1
    <3>1. PICK row, half : row = server.orders[k] /\ half = [row EXCEPT !.paid = paid]
      OBVIOUS
    <3>2. RecordFields \subseteq DOMAIN row
      BY <2>4, <3>1 DEF OrdersOK, RecordOK
    <3>3. /\ DOMAIN half = DOMAIN row
          /\ \A field \in {"service", "quantity", "extra"} : half[field] = row[field]
          /\ half.paid = paid
      BY <3>1, <3>2 DEF RecordFields
    <3>4. new[k] = [half EXCEPT !.status = "paid"]
      BY <2>5, <3>1
    <3> QED
      BY <2>9, <3>1, <3>2, <3>3, <3>4 DEF RecordFields
  <2>7. Serves
    BY <2>3, <2>5, <2>6, ChangedServes
  <2>8. Flock(flights')
    BY <1>2, ChargeAnswered
  <2> QED
    BY <1>2, <2>7, <2>8, FlightsServed, ServesKeeps
<1>3. CASE Answers(f, "failed", 0)
  BY <1>3, ChargeAnswered, FliesKeeps DEF Answers
<1> QED
  BY <1>1, <1>2, <1>3

\* The order k becomes paid without a card, or its wash ends.
LEMMA StatusServes ==
  ASSUME IInv, NEW k, NEW status, status # "created",
         server' = [server EXCEPT !.orders[k].status = status]
  PROVE  Serves
<1>1. PICK new : new = [server.orders EXCEPT ![k] = [@ EXCEPT !.status = status]]
  OBVIOUS
<1>2. server' = [server EXCEPT !.orders = new]
  BY <1>1 DEF IInv, ServerOK
<1>3. OrdersOK(server.orders) /\ DOMAIN server.orders = 1..Len(server.orders)
  BY OrdersAre DEF IInv, ServerOK
<1>4. /\ DOMAIN new = DOMAIN server.orders /\ new = [i \in DOMAIN new |-> new[i]]
      /\ \A i \in DOMAIN server.orders \ {k} : new[i] = server.orders[i]
      /\ k \in DOMAIN server.orders => new[k] = [server.orders[k] EXCEPT !.status = status]
  BY <1>1
<1>5. k \in DOMAIN server.orders =>
            /\ DOMAIN new[k] = DOMAIN server.orders[k]
            /\ \A field \in {"service", "quantity", "extra"} : new[k][field] = server.orders[k][field]
            /\ new[k].status # "created" /\ new[k].paid \in Int
            /\ server.orders[k].paid # 0 => new[k].paid = server.orders[k].paid
  BY <1>3, <1>4 DEF OrdersOK, RecordOK, RecordFields
<1> QED
  BY <1>2, <1>4, <1>5, ChangedServes

(* Booking and paying *)

LEMMA FirstService ==
  ASSUME NEW category \in DOMAIN ExtraPrice
  PROVE  LET mine == ServicesOf(category) IN
         (CHOOSE s \in mine : \A t \in mine : s <= t) \in mine
<1>1. PICK mine : mine = ServicesOf(category)
  OBVIOUS
<1>2. mine \subseteq Nat /\ mine # {}
  BY <1>1, CatalogAssumption DEF ServicesOf
<1>3. PICK s \in mine : \A t \in mine : <<t, s>> \notin OpToRel(<, Nat)
  BY <1>2, NatLessThanWellFounded, WFMin
<1>4. ASSUME NEW t \in mine PROVE s <= t
  <2>1. s \in Nat /\ t \in Nat
    BY <1>2
  <2>2. <<t, s>> \in Nat \X Nat /\ <<t, s>>[1] = t /\ <<t, s>>[2] = s
    BY <2>1
  <2>3. ~(t < s)
    BY <1>3, <2>2 DEF OpToRel
  <2> QED
    BY <2>1, <2>3
<1> QED
  BY <1>1, <1>4

\* A form whose category or service has changed.
LEMMA DefaultsFit ==
  ASSUME IInv, NEW l, "page" \in DOMAIN l, l.page = "order", FormOK(l)
  PROVE  Fits(Defaults(l))
<1>1. PICK category : category = IF server.special # 0 THEN server.special
                                 ELSE IF l.category = 0 THEN 1 ELSE l.category
  OBVIOUS
<1>2. category \in DOMAIN ExtraPrice
  BY <1>1, CatalogAssumption DEF IInv, ServerOK, FormOK
<1>3. PICK first : first = CHOOSE s \in ServicesOf(category) : \A t \in ServicesOf(category) : s <= t
  OBVIOUS
<1>4. first \in ServicesOf(category)
  BY <1>2, <1>3, FirstService
<1>5. Defaults(l) = IF l.service \in ServicesOf(category) THEN [l EXCEPT !.category = category]
                    ELSE [l EXCEPT !.category = category, !.quantity = 1, !.service = first]
  BY <1>1, <1>3 DEF Defaults
<1>6. (\A s \in ServicesOf(category) : s # 0) /\ 1 \in 1..MaxQuantity
  BY CatalogAssumption DEF ServicesOf
<1>7. CASE l.service \in ServicesOf(category)
  <2>1. PICK m : m = [l EXCEPT !.category = category]
    OBVIOUS
  <2>2. Fits(m)
    BY <1>2, <1>6, <1>7, <2>1 DEF Fits, LocalOK, FormOK, BookingFields, Pages
  <2> QED
    BY <1>5, <1>7, <2>1, <2>2
<1>8. CASE l.service \notin ServicesOf(category)
  <2>1. PICK m : m = [l EXCEPT !.category = category, !.quantity = 1, !.service = first]
    OBVIOUS
  <2>2. Fits(m)
    BY <1>2, <1>4, <1>6, <1>8, <2>1 DEF Fits, LocalOK, FormOK, BookingFields, Pages
  <2> QED
    BY <1>5, <1>8, <2>1, <2>2
<1> QED
  BY <1>7, <1>8

LEMMA ChooseServiceKeeps == ASSUME IInv, ChooseService PROVE IInv'
<1>1. local.page = "order" /\ LocalOK(local) /\ local.step = 1
  BY DEF ChooseService, OrderFormShows, On, IInv
<1>2. PICK offer \in StepOneOffers \cup ServiceCardOffers :
       CASE offer[1] = "category" -> Sets(Defaults([local EXCEPT !.category = offer[2]]))
         [] offer[1] = "service" -> Sets([local EXCEPT !.service = offer[2]])
         [] offer[1] = "quantity" -> offer[2] <= MaxQuantity /\ Sets([local EXCEPT !.quantity = offer[2]])
         [] offer[1] = "extra" -> offer[2] <= 1 /\ Sets([local EXCEPT !.extra = offer[2]])
         [] offer[1] = "next" -> Sets([local EXCEPT !.step = 2])
  BY DEF ChooseService
<1>3. PICK n : n = offer[2]
  OBVIOUS
<1>4. /\ offer[1] \in {"category", "service", "quantity", "extra", "next"}
      /\ offer[1] = "category" => n \in DOMAIN ExtraPrice
      /\ offer[1] = "service" => n \in ServicesOf(local.category)
      /\ offer[1] = "quantity" => n \in {local.quantity + 1} \cup (IF local.quantity <= 1 THEN {} ELSE {local.quantity - 1})
      /\ offer[1] = "extra" => n \in {local.extra + 1} \cup (IF local.extra = 0 THEN {} ELSE {local.extra - 1})
  BY <1>3 DEF StepOneOffers, ServiceCardOffers
<1>5. CASE offer[1] = "category"
  <2>1. PICK l : l = [local EXCEPT !.category = n]
    OBVIOUS
  <2>2. "page" \in DOMAIN l /\ l.page = "order" /\ FormOK(l)
    BY <1>1, <1>4, <1>5, <2>1 DEF LocalOK, FormOK, BookingFields
  <2> QED
    BY <1>2, <1>3, <1>5, <2>1, <2>2, DefaultsFit, SetsKeeps
<1>6. CASE offer[1] = "service"
  <2>1. Fits([local EXCEPT !.service = n])
    BY <1>1, <1>4, <1>6 DEF Fits, LocalOK, FormOK, BookingFields
  <2> QED
    BY <1>2, <1>3, <1>6, <2>1, SetsKeeps
<1>7. CASE offer[1] = "quantity"
  <2>1. n <= MaxQuantity => n \in 1..MaxQuantity
    BY <1>1, <1>4, <1>7, CatalogAssumption DEF LocalOK, FormOK
  <2>2. n <= MaxQuantity => Fits([local EXCEPT !.quantity = n])
    BY <1>1, <2>1 DEF Fits, LocalOK, FormOK, BookingFields
  <2> QED
    BY <1>2, <1>3, <1>7, <2>2, SetsKeeps
<1>8. CASE offer[1] = "extra"
  <2>1. n <= 1 => n \in 0..1
    BY <1>1, <1>4, <1>8 DEF LocalOK, FormOK
  <2>2. n <= 1 => Fits([local EXCEPT !.extra = n])
    BY <1>1, <2>1 DEF Fits, LocalOK, FormOK, BookingFields
  <2> QED
    BY <1>2, <1>3, <1>8, <2>2, SetsKeeps
<1>9. CASE offer[1] = "next"
  <2>1. Fits([local EXCEPT !.step = 2])
    BY <1>1 DEF Fits, LocalOK, FormOK, BookingFields
  <2> QED
    BY <1>2, <1>3, <1>9, <2>1, SetsKeeps
<1> QED
  BY <1>4, <1>5, <1>6, <1>7, <1>8, <1>9

LEMMA PickerStarts == PickerOK(Picker)
<1>1. 1 \in 1..MaxMonth /\ 0 \in 0..MaxMonth
  BY CatalogAssumption
<1>2. <<1>> \in Seq(1..MaxMonth)
  BY <1>1
<1> QED
  BY <1>1, <1>2 DEF Picker, PickerOK

LEMMA OrderFormMountKeeps == ASSUME IInv, OrderFormMount PROVE IInv'
<1>1. StorageFits(storage')
  BY DEF OrderFormMount, IInv, StorageFits, StorageOK
<1>2. Fits(local')
  <2>1. PICK l : l = OrderFormPage
    OBVIOUS
  <2>2. "page" \in DOMAIN l /\ l.page = "order" /\ BookingFields \subseteq DOMAIN l
        /\ l.step = 1 /\ l.category = 0 /\ l.service = 0 /\ l.quantity = 1 /\ l.extra = 0
        /\ l.date = 0 /\ l.time = 0 /\ l.picker = Picker
    BY <2>1 DEF OrderFormPage, BookingFields
  <2>3. 1 \in 1..MaxQuantity
    BY CatalogAssumption
  <2>4. FormOK(l)
    BY <2>2, <2>3, PickerStarts DEF FormOK
  <2>5. Fits(l)
    BY <2>2, <2>4 DEF Fits, LocalOK, Pages
  <2> QED
    BY <2>1, <2>5 DEF OrderFormMount
<1>3. Flock(flights')
  BY AsksFlock, Kept DEF OrderFormMount, Keys
<1> QED
  BY <1>1, <1>2, <1>3, AtPage, Kept DEF OrderFormMount

LEMMA CatalogShowsKeeps == ASSUME IInv, CatalogShows PROVE IInv'
BY DefaultsFit, SetsKeeps DEF CatalogShows, On, IInv, LocalOK

LEMMA PickerFits ==
  ASSUME local.page = "order", LocalOK(local), NEW picker, PickerOK(picker)
  PROVE  Fits([local EXCEPT !.picker = picker])
BY DEF Fits, LocalOK, FormOK, BookingFields

LEMMA ChooseTimeKeeps == ASSUME IInv, ChooseTime PROVE IInv'
<1>1. local.page = "order" /\ LocalOK(local) /\ local.step = 2
  BY DEF ChooseTime, OrderFormShows, On, IInv
<1>2. PICK offer \in StepTwoOffers(local) :
       CASE offer[1] = "month" ->
                /\ Len(local.picker.timers) < MaxMonth
                /\ Sets([local EXCEPT !.picker = [local.picker EXCEPT !.month = offer[2], !.waiting = TRUE,
                                                                      !.timers = Append(@, offer[2])]])
         [] offer[1] = "day" -> Sets(OnDateTimeChange(local, offer[2], 0))
         [] offer[1] = "slot" -> Sets(OnDateTimeChange(local, local.date, offer[2]))
         [] offer[1] \in {"prev", "next"} -> Sets([local EXCEPT !.step = offer[2], !.picker = Picker])
  BY DEF ChooseTime
<1>3. PICK n : n = offer[2]
  OBVIOUS
<1>4. /\ offer[1] \in {"month", "day", "slot", "prev", "next"}
      /\ offer[1] = "month" => n \in 1..MaxMonth
      /\ offer[1] = "slot" => n = local.date
      /\ offer[1] = "prev" => n = 1
      /\ offer[1] = "next" => n = 3 /\ CanProceedToStep3(local)
  BY <1>3 DEF StepTwoOffers, PickerShows
<1>5. CASE offer[1] = "month"
  <2>1. PICK picker : picker = [local.picker EXCEPT !.month = n, !.waiting = TRUE,
                                                    !.timers = Append(local.picker.timers, n)]
    OBVIOUS
  <2>2. PickerOK(local.picker) /\ "picker" \in DOMAIN local
    BY <1>1 DEF LocalOK, FormOK, BookingFields
  <2>3. Append(local.picker.timers, n) \in Seq(1..MaxMonth)
    BY <1>4, <1>5, <2>2, AppendProperties DEF PickerOK
  <2>4. PickerOK(picker)
    BY <1>4, <1>5, <2>1, <2>2, <2>3 DEF PickerOK
  <2>5. Fits([local EXCEPT !.picker = picker])
    BY <1>1, <2>4, PickerFits
  <2>6. Sets([local EXCEPT !.picker = picker])
    BY <1>2, <1>3, <1>5, <2>1
  <2> QED
    BY <2>5, <2>6, SetsKeeps
<1>6. CASE offer[1] = "day"
  <2>1. Fits(OnDateTimeChange(local, n, 0))
    BY <1>1 DEF OnDateTimeChange, Fits, LocalOK, FormOK, BookingFields
  <2> QED
    BY <1>2, <1>3, <1>6, <2>1, SetsKeeps
<1>7. CASE offer[1] = "slot"
  <2>1. Fits(OnDateTimeChange(local, local.date, n))
    BY <1>1, <1>4, <1>7 DEF OnDateTimeChange, Fits, LocalOK, FormOK, BookingFields
  <2> QED
    BY <1>2, <1>3, <1>7, <2>1, SetsKeeps
<1>8. CASE offer[1] \in {"prev", "next"}
  <2>1. Fits([local EXCEPT !.step = n, !.picker = Picker])
    BY <1>1, <1>4, <1>8, PickerStarts
    DEF CanProceedToStep3, CanProceedToStep2, Fits, LocalOK, FormOK, BookingFields
  <2> QED
    BY <1>2, <1>3, <1>8, <2>1, SetsKeeps
<1> QED
  BY <1>4, <1>5, <1>6, <1>7, <1>8

\* What is submitted is billed as the server will: the service is of the category.
LEMMA HandleSubmitKeeps == ASSUME IInv, HandleSubmit PROVE IInv'
<1>1. local.page = "order" /\ LocalOK(local) /\ local.step = 3
  BY DEF HandleSubmit, OrderFormShows, On, IInv
<1>2. PICK f : f = Flight("create", None, <<local.service, local.quantity, local.extra, Total(local),
                                            local.date, local.time>>)
  OBVIOUS
<1>3. /\ FlightFields \subseteq DOMAIN f /\ f.kind = "create" /\ f.reply = None
      /\ f.arg = <<local.service, local.quantity, local.extra, Total(local), local.date, local.time>>
  BY <1>2, FlightIs
<1>4. /\ local.service \in 1..Len(Catalog) /\ Catalog[local.service].category = local.category
      /\ local.quantity \in Nat /\ local.extra \in Nat
  BY <1>1, CatalogAssumption DEF LocalOK, FormOK, ServicesOf
<1>5. Total(local) = Price([service |-> local.service, quantity |-> local.quantity, extra |-> local.extra,
                            status |-> "created", paid |-> 0])
  BY <1>4 DEF Total, Price
<1>6. Flock({f})
  <2>1. FlightTyped(f)
    BY <1>2, FlightTypes, FlightsTyped
  <2>2. FlightOK(f, server.orders, tour.who)
    BY <1>3, <1>4, <1>5 DEF FlightOK, AccountKinds, None
  <2> QED
    BY <1>3, <2>1, <2>2, OneFlock
<1>7. Fits([local EXCEPT !.submitting = TRUE])
  BY DEF IInv, Fits, LocalOK, FormOK, BookingFields
<1> QED
  BY <1>2, <1>6, <1>7, SubmitsKeeps DEF HandleSubmit

LEMMA SubmitEndsKeeps == ASSUME IInv, SubmitEnds PROVE IInv'
<1>1. PICK f \in Arriving("create") :
    IF f.reply = "failed" THEN Hears(f, [local EXCEPT !.submitting = FALSE])
    ELSE /\ storage' = [storage EXCEPT !.pending = <<f.value, f.arg[4]>>]
         /\ NavigateWith([At("/order/payment") EXCEPT !.order = f.value, !.amount = f.arg[4]],
                         flights \ {f})
         /\ UNCHANGED <<tour, memory, cache, server>>
  BY DEF SubmitEnds
<1>2. CASE f.reply = "failed"
  <2>1. Fits([local EXCEPT !.submitting = FALSE])
    BY DEF IInv, Fits, LocalOK, FormOK, BookingFields
  <2> QED
    BY <1>1, <1>2, <2>1, HearsKeeps
<1>3. CASE f.reply # "failed"
  <2>1. f.value \in 1..Len(server.orders) /\ f.arg[4] = Price(server.orders[f.value])
    BY <1>3 DEF Arriving, IInv, FlightsOK, FlightOK
  <2>2. PICK there : there = [path |-> "/order/payment", order |-> f.value, amount |-> f.arg[4], from |-> None]
    OBVIOUS
  <2>3. /\ LocationFields \subseteq DOMAIN there /\ there.path = "/order/payment"
        /\ there.order = f.value /\ there.amount = f.arg[4] /\ there.from = None
    BY <2>2, RecordIs
  <2>4. there = [At("/order/payment") EXCEPT !.order = f.value, !.amount = f.arg[4]]
    BY <2>2, AtOrder
  <2>5. Open(there)
    BY <2>1, <2>2, <2>3, OrderPriceIs DEF Open, LocationOK
  <2>6. StorageFits(storage')
    BY <1>1, <1>3, <2>1 DEF IInv, StorageFits, StorageOK, PendingOK
  <2>7. NavigateWith(there, flights \ {f}) /\ UNCHANGED <<tour, memory, cache, server>>
    BY <1>1, <1>3, <2>4
  <2> QED
    BY <2>5, <2>6, <2>7, NavigatesWith, Kept, WithoutFlight
<1> QED
  BY <1>1, <1>2, <1>3

\* The order of the location becomes the one that is kept for later.
LEMMA OrderEffectsKeep ==
  ASSUME IInv, location.path = "/order/payment", location.order # 0,
         NEW l, "page" \in DOMAIN l, l.page = "payment", LocalOK(l), OrderEffects(l)
  PROVE  IInv'
<1>1. StorageFits(storage')
  BY DEF OrderEffects, IInv, PlacesOK, LocationOK, StorageFits, StorageOK, PendingOK
<1>2. Fits(local')
  <2>1. l.checks \in Nat /\ {"applied", "discount", "checks"} \subseteq DOMAIN l
    BY DEF LocalOK
  <2>2. PICK n \in Nat : n = l.checks + 1
    BY <2>1
  <2>3. local' = [l EXCEPT !.order = location.order, !.checks = n]
    BY <2>2 DEF OrderEffects
  <2> QED
    BY <2>1, <2>3 DEF Fits, LocalOK, AtPayment
<1> QED
  BY <1>1, <1>2, AtPage, Kept DEF OrderEffects

LEMMA PaymentMountKeeps == ASSUME IInv, PaymentMount PROVE IInv'
<1>1. CASE location.order # 0
  <2>1. "page" \in DOMAIN PaymentPage /\ PaymentPage.page = "payment" /\ LocalOK(PaymentPage)
    BY DEF PaymentPage, LocalOK, Pages
  <2> QED
    BY <1>1, <2>1, OrderEffectsKeep DEF PaymentMount, Mounts
<1>2. CASE location.order = 0
  BY <1>2, Navigates, Kept DEF PaymentMount
<1> QED
  BY <1>1, <1>2

\* A bill goes from one request of the chain to the next as it is.
LEMMA BillGoesOn ==
  ASSUME IInv, NEW f \in flights, f.kind \in {"popup", "charge", "redeem", "qr"},
         NEW kind \in {"charge", "redeem", "qr"}
  PROVE  Flock(GoesOn(f, kind, f.arg))
<1>1. PICK g : g = Then(f, kind, f.arg)
  OBVIOUS
<1>2. FlightFields \subseteq DOMAIN g /\ FlightTyped(g) /\ g.kind = kind /\ g.arg = f.arg
  BY <1>1, ThenIs, ThenTypes, FlightsTyped
<1>3. FlightOK(g, server.orders, tour.who)
  BY <1>2 DEF IInv, FlightsOK, FlightOK, AccountKinds
<1>4. Flock({g})
  BY <1>2, <1>3, OneFlock
<1> QED
  BY <1>1, <1>4, WithoutFlight, FlockParts DEF GoesOn

\* What has been paid for an order is earned.
LEMMA PaidIsEarned ==
  ASSUME IInv, NEW order \in 1..Len(server.orders)
  PROVE  Earned(order, server.orders[order].paid \div 100, server.orders)
<1>1. 0 \div 100 = 0 /\ ~(0 > 0)
  OBVIOUS
<1>2. RecordOK(server.orders[order])
  BY DEF IInv, ServerOK, OrdersOK
<1>3. CASE server.orders[order].paid = 0
  BY <1>1, <1>3 DEF Earned
<1>4. CASE server.orders[order].paid # 0
  BY <1>2, <1>4 DEF RecordOK, Earned
<1> QED
  BY <1>3, <1>4

LEMMA ConfirmationIs ==
  ASSUME NEW order, NEW amount
  PROVE  LET there == Confirmation(order, amount) IN
         /\ LocationFields \subseteq DOMAIN there /\ there.path = "/order/confirmation"
         /\ there.order = order /\ there.amount = amount /\ there.from = None
         /\ there = [path |-> "/order/confirmation", order |-> order, amount |-> amount, from |-> None]
<1>1. PICK path : path = "/order/confirmation"
  OBVIOUS
<1>2. PICK there : there = [path |-> path, order |-> order, amount |-> amount, from |-> None]
  OBVIOUS
<1>3. there = Confirmation(order, amount)
  BY <1>1, <1>2, AtOrder DEF Confirmation
<1> QED
  BY <1>1, <1>2, <1>3, RecordIs

LEMMA OpenConfirmation ==
  ASSUME NEW order \in 1..Len(server.orders), NEW amount \in Int,
         Earned(order, amount, server.orders)
  PROVE  Open(Confirmation(order, amount))
BY ConfirmationIs DEF Open, LocationOK

LEMMA HandlePayKeeps == ASSUME IInv, HandlePay PROVE IInv'
<1>1. local.page = "payment" /\ LocalOK(local) /\ location.order # 0 /\ LocationOK(location, server.orders)
      /\ location.path = "/order/payment"
  BY DEF HandlePay, On, IInv, PlacesOK, Placed
<1>2. PICK f : f = Flight("popup", None, PayBill)
  OBVIOUS
<1>3. /\ FlightFields \subseteq DOMAIN f /\ f.kind = "popup"
      /\ f.arg = <<location.order, AmountToPay, IF local.applied THEN 1 ELSE 0>>
  BY <1>2, FlightIs DEF PayBill
<1>4. f.arg[2] = Price(server.orders[f.arg[1]]) - f.arg[3] * RewardValue
  <2>1. location.amount = Price(server.orders[location.order])
    BY <1>1 DEF LocationOK
  <2>2. RewardValue \in Nat
    BY CatalogAssumption
  <2>3. CASE local.applied
    BY <1>1, <1>3, <2>1, <2>2, <2>3 DEF AmountToPay, LocalOK
  <2>4. CASE ~local.applied
    BY <1>1, <1>3, <2>1, <2>2, <2>4 DEF AmountToPay, LocalOK
  <2> QED
    BY <2>3, <2>4
<1>5. Flock({f})
  <2>1. FlightTyped(f)
    BY <1>2, FlightTypes, FlightsTyped
  <2>2. FlightOK(f, server.orders, tour.who)
    BY <1>1, <1>3, <1>4 DEF FlightOK, LocationOK, AccountKinds
  <2> QED
    BY <1>3, <2>1, <2>2, OneFlock
<1>6. Fits([local EXCEPT !.paying = TRUE])
  BY DEF IInv, Fits, LocalOK, FormOK, BookingFields
<1> QED
  BY <1>2, <1>5, <1>6, SubmitsKeeps DEF HandlePay

LEMMA RedeemFreeEndsKeeps == ASSUME IInv, RedeemFreeEnds PROVE IInv'
<1>1. PICK f \in Waiting("redeemFree"), done \in BOOLEAN :
    /\ server' = IF done THEN [server EXCEPT !.orders[f.arg[1]].status = "paid"] ELSE server
    /\ NavigateWith(Confirmation(f.arg[1], 0), flights \ {f})
    /\ UNCHANGED <<tour, memory, storage, cache>>
  BY DEF RedeemFreeEnds
<1>2. Serves
  BY <1>1, StatusServes, Kept
<1>3. Open(Confirmation(f.arg[1], 0))
  <2>1. f.arg[1] \in 1..Len(server.orders)
    BY DEF Waiting, IInv, FlightsOK, FlightOK
  <2> QED
    BY <2>1, OpenConfirmation DEF Earned
<1> QED
  BY <1>1, <1>2, <1>3, NavigatesServed, Kept, WithoutFlight

LEMMA PayEndsKeeps == ASSUME IInv, PayEnds PROVE IInv'
<1>1. PICK f \in Waiting("refreshThen"), reply \in {"ok", "forbidden", "failed", "rejected"} :
        /\ reply \in RefreshReplies
        /\ HearsMe([f EXCEPT !.key = tour.who], reply, Confirmation(f.arg[1], f.arg[2]), flights \ {f})
  BY DEF PayEnds
<1>2. PICK g : g = [f EXCEPT !.key = tour.who]
  OBVIOUS
<1>3. /\ g.key = tour.who /\ g.key \in Roles
      /\ f.arg[1] \in 1..Len(server.orders) /\ f.arg[2] \in Int
      /\ Earned(f.arg[1], f.arg[2], server.orders)
  BY <1>2 DEF Waiting, IInv, FlightsOK, FlightOK, FlightFields
<1>4. Open(Confirmation(f.arg[1], f.arg[2]))
  BY <1>3, OpenConfirmation
<1>5. HearsMe(g, reply, Confirmation(f.arg[1], f.arg[2]), flights \ {f})
  BY <1>1, <1>2
<1>6. reply = "ok" /\ g.key = "user" => server.onboarded
  BY <1>1, <1>3, RefreshKnows
<1> QED
  BY <1>3, <1>4, <1>5, <1>6, WithoutFlight, HearsMeKeeps

LEMMA ConfirmationMountKeeps == ASSUME IInv, ConfirmationMount PROVE IInv'
<1>1. StorageFits(storage')
  BY DEF ConfirmationMount, IInv, StorageFits, StorageOK
<1>2. CASE location.order = 0
  BY <1>1, <1>2, Navigates, Kept DEF ConfirmationMount
<1>3. CASE location.order # 0
  <2>1. Fits(local')
    BY <1>3, OtherPage DEF ConfirmationMount, ConfirmationPage, Pages
  <2> QED
    BY <1>1, <1>3, <2>1, AtPage, Kept DEF ConfirmationMount, Stays
<1> QED
  BY <1>2, <1>3

LEMMA OrderPagesMountKeep == ASSUME IInv, OrderPagesMount PROVE IInv'
BY OrderFormMountKeeps, PaymentMountKeeps, ConfirmationMountKeeps DEF OrderPagesMount

LEMMA ApplyEndsKeeps == ASSUME IInv, ApplyEnds PROVE IInv'
<1>1. PICK l : l = [local EXCEPT !.paying = FALSE, !.applying = FALSE]
  OBVIOUS
<1>2. local.page = "payment" /\ (Sets(l) \/ Sets([l EXCEPT !.applied = TRUE, !.discount = RewardValue]))
  BY <1>1 DEF ApplyEnds
<1>3. Fits(l) /\ l.page = "payment" /\ {"page", "applied", "discount"} \subseteq DOMAIN l
  BY <1>1, <1>2 DEF IInv, Fits, LocalOK
<1>4. Fits([l EXCEPT !.applied = TRUE, !.discount = RewardValue])
  BY <1>3 DEF Fits, LocalOK
<1> QED
  BY <1>2, <1>3, <1>4, SetsKeeps

LEMMA QrEndsKeeps == ASSUME IInv, QrEnds PROVE IInv'
<1>1. PICK f \in Waiting("qr") :
    \/ Hears(f, [local EXCEPT !.paying = FALSE])
    \/ /\ flights' = GoesOn(f, "refreshThen", <<f.arg[1], server.orders[f.arg[1]].paid \div 100>>)
       /\ UNCHANGED <<tour, location, history, local, memory, storage, cache, server>>
  BY DEF QrEnds
<1>2. CASE Hears(f, [local EXCEPT !.paying = FALSE])
  <2>1. Fits([local EXCEPT !.paying = FALSE])
    BY DEF IInv, Fits, LocalOK, FormOK, BookingFields
  <2> QED
    BY <1>2, <2>1, HearsKeeps
<1>3. CASE /\ flights' = GoesOn(f, "refreshThen", <<f.arg[1], server.orders[f.arg[1]].paid \div 100>>)
           /\ UNCHANGED <<tour, location, history, local, memory, storage, cache, server>>
  <2>1. PICK order, amount : order = f.arg[1] /\ amount = server.orders[order].paid \div 100
    OBVIOUS
  <2>2. order \in 1..Len(server.orders) /\ Earned(order, amount, server.orders)
    BY <2>1, PaidIsEarned DEF Waiting, IInv, FlightsOK, FlightOK
  <2>8. amount \in Int
    BY <2>1, <2>2 DEF IInv, ServerOK, OrdersOK, RecordOK
  <2>3. PICK g : g = Then(f, "refreshThen", <<order, amount>>)
    OBVIOUS
  <2>4. /\ FlightFields \subseteq DOMAIN g /\ g.kind = "refreshThen" /\ g.arg = <<order, amount>>
        /\ FlightTyped(g)
    BY <2>3, ThenIs, ThenTypes, FlightsTyped DEF Waiting
  <2>5. Flock({g})
    <3>1. FlightOK(g, server.orders, tour.who)
      BY <2>2, <2>4, <2>8 DEF FlightOK, AccountKinds
    <3> QED
      BY <2>4, <3>1, OneFlock
  <2>6. flights' = (flights \ {f}) \cup {g}
    BY <1>3, <2>1, <2>3 DEF GoesOn
  <2>7. Flock(flights')
    BY <2>5, <2>6, WithoutFlight, FlockParts
  <2> QED
    BY <1>3, <2>7, FliesKeeps
<1> QED
  BY <1>1, <1>2, <1>3

LEMMA VerifyArrivesKeeps == ASSUME IInv, VerifyArrives PROVE IInv'
<1>1. PICK f \in Waiting("verify") :
    \/ Hears(f, local)
    \/ /\ local' = IF f.mine THEN [local EXCEPT !.failure = "unverified"] ELSE local
       /\ \/ flights' = GoesOn(f, "leave", <<0>>)
          \/ flights' = GoesOn(f, "leave", f.arg)
       /\ UNCHANGED <<tour, location, history, memory, storage, cache, server>>
  BY DEF VerifyArrives
<1>2. Fits([local EXCEPT !.failure = "unverified"])
  BY DEF IInv, Fits, LocalOK, FormOK, BookingFields
<1>3. \A arg : Flock(GoesOn(f, "leave", arg))
  BY GoesOnFree DEF Bound, AccountKinds, Waiting, Arriving
<1>4. CASE Hears(f, local)
  BY <1>4, HearsKeeps, Kept
<1>5. CASE ~Hears(f, local)
  <2>1. Fits(local') /\ Flock(flights')
    BY <1>1, <1>2, <1>3, <1>5, Kept
  <2> QED
    BY <1>1, <1>5, <2>1, AtPage, Kept
<1> QED
  BY <1>4, <1>5

LEMMA OrderPagesSettleKeep == ASSUME IInv, OrderPagesSettle PROVE IInv'
<1>1. CASE AvailabilityArrives
  <2>1. PICK timers : timers = local.picker.timers
    OBVIOUS
  <2>2. local.page = "order" /\ LocalOK(local) /\ timers # <<>>
    BY <1>1, <2>1 DEF AvailabilityArrives, OrderFormShows, On, IInv
  <2>3. PickerOK(local.picker) /\ "picker" \in DOMAIN local /\ timers \in Seq(1..MaxMonth)
    BY <2>1, <2>2 DEF LocalOK, FormOK, BookingFields, PickerOK
  <2>4. Head(timers) \in 1..MaxMonth /\ Tail(timers) \in Seq(1..MaxMonth)
    BY <2>2, <2>3, HeadTailProperties
  <2>5. PICK picker : picker = [local.picker EXCEPT !.shown = Head(timers), !.waiting = FALSE,
                                                    !.timers = Tail(timers)]
    OBVIOUS
  <2>6. PickerOK(picker)
    BY <2>3, <2>4, <2>5 DEF PickerOK
  <2>7. Fits([local EXCEPT !.picker = picker])
    BY <2>2, <2>6, PickerFits
  <2>8. Sets([local EXCEPT !.picker = picker])
    BY <1>1, <2>1, <2>5 DEF AvailabilityArrives
  <2> QED
    BY <2>7, <2>8, SetsKeeps
<1>2. CASE PaymentOtherOrder
  BY <1>2, OrderEffectsKeep DEF PaymentOtherOrder, On, IInv, LocalOK, Placed
<1>3. CASE SdkTimeout
  <2>1. Fits([local EXCEPT !.yoco = TRUE])
    BY DEF IInv, Fits, LocalOK, FormOK, BookingFields
  <2> QED
    BY <1>3, <2>1, SetsKeeps DEF SdkTimeout
<1>4. CASE EligibilityArrives
  <2>1. /\ local.page = "payment" /\ local.checks \in Nat /\ local.checks > 0
        /\ {"applied", "discount", "checks"} \subseteq DOMAIN local
    BY <1>4 DEF EligibilityArrives, IInv, LocalOK
  <2>2. PICK n \in Nat : n = local.checks - 1
    BY <2>1
  <2>3. \A eligible : Fits([local EXCEPT !.checks = n, !.eligible = eligible])
    BY <2>1 DEF IInv, Fits, LocalOK
  <2> QED
    BY <1>4, <2>2, <2>3, SetsKeeps DEF EligibilityArrives
<1>5. CASE RewardsArrive
  <2>1. \A reward : Fits([local EXCEPT !.fetching = FALSE, !.reward = reward])
    BY DEF IInv, Fits, LocalOK, FormOK, BookingFields
  <2> QED
    BY <1>5, <2>1, SetsKeeps DEF RewardsArrive
<1>6. CASE ChargeEnds
  <2>1. PICK f \in Arriving("charge") :
      IF f.reply = "failed" THEN Hears(f, [local EXCEPT !.paying = FALSE])
      ELSE /\ flights' = GoesOn(f, IF f.arg[3] = 1 THEN "redeem" ELSE "qr", f.arg)
           /\ UNCHANGED <<tour, location, history, local, memory, storage, cache, server>>
    BY <1>6 DEF ChargeEnds
  <2>2. Fits([local EXCEPT !.paying = FALSE])
    BY DEF IInv, Fits, LocalOK, FormOK, BookingFields
  <2>3. f \in flights /\ f.kind = "charge"
    BY DEF Arriving
  <2>4. \A kind \in {"redeem", "qr"} : Flock(GoesOn(f, kind, f.arg))
    BY <2>3, BillGoesOn
  <2> QED
    BY <2>1, <2>2, <2>4, HearsKeeps, FliesKeeps
<1>7. CASE RedeemEnds
  BY <1>7, BillGoesOn, FliesKeeps DEF RedeemEnds, Waiting
<1>8. CASE LinkArrives
  <2>1. Fits([local EXCEPT !.loading = FALSE, !.order = location.order])
    BY DEF IInv, Fits, LocalOK, FormOK, BookingFields
  <2>2. CASE Navigate("/", flights) /\ UNCHANGED <<tour, memory, storage, cache, server>>
    BY <2>2, Navigates, Kept
  <2>3. CASE SetsAndSends([local EXCEPT !.loading = FALSE, !.order = location.order],
                          {Flight("verify", None, <<location.order>>)})
    BY <2>1, <2>3, SendsKeeps DEF Bound, AccountKinds
  <2> QED
    BY <1>8, <2>2, <2>3 DEF LinkArrives
<1>9. CASE LeaveTimer
  <2>1. PICK f \in Waiting("leave") :
          /\ Navigate(IF f.arg = <<0>> THEN "/" ELSE "/order", flights \ {f})
          /\ UNCHANGED <<tour, memory, storage, cache, server>>
    BY <1>9 DEF LeaveTimer
  <2>2. PICK path : path = IF f.arg = <<0>> THEN "/" ELSE "/order"
    OBVIOUS
  <2> QED
    BY <2>1, <2>2, Navigates, Kept, WithoutFlight
<1> QED
  BY <1>1, <1>2, <1>3, <1>4, <1>5, <1>6, <1>7, <1>8, <1>9,
     CatalogShowsKeeps, ServerCreatesKeeps, SubmitEndsKeeps, ApplyEndsKeeps, RedeemFreeEndsKeeps,
     ServerChargesKeeps, QrEndsKeeps, PayEndsKeeps, VerifyArrivesKeeps
  DEF OrderPagesSettle

LEMMA OrderPagesActionsKeep == ASSUME IInv, OrderPagesActions PROVE IInv'
<1>1. CASE ReviewBack
  <2>1. Fits([local EXCEPT !.step = 2])
    BY DEF IInv, Fits, LocalOK, FormOK, BookingFields
  <2> QED
    BY <1>1, <2>1, SetsKeeps DEF ReviewBack
<1>2. CASE SdkArrives
  <2>1. Fits([local EXCEPT !.yoco = TRUE])
    BY DEF IInv, Fits, LocalOK, FormOK, BookingFields
  <2>2. MemoryFits([memory EXCEPT !.sdk = TRUE])
    BY DEF IInv, MemoryFits, MemoryOK
  <2> QED
    BY <1>2, <2>1, <2>2, AtPage, Kept DEF SdkArrives
<1>3. CASE HandleApplyReward
  <2>1. Fits([local EXCEPT !.paying = TRUE, !.applying = TRUE])
    BY DEF IInv, Fits, LocalOK, FormOK, BookingFields
  <2> QED
    BY <1>3, <2>1, SetsKeeps DEF HandleApplyReward
<1>4. CASE HandlePayFree
  <2>3. location.order \in 1..Len(server.orders)
    BY <1>4 DEF HandlePayFree, On, IInv, Placed, PlacesOK, LocationOK
  <2>1. CASE SetsAndSends(local, {Flight("redeemFree", None, PayBill)})
    <3>1. PICK f : f = Flight("redeemFree", None, PayBill)
      OBVIOUS
    <3>2. FlightFields \subseteq DOMAIN f /\ FlightTyped(f) /\ f.kind = "redeemFree" /\ f.arg = PayBill
      BY <3>1, FlightIs, FlightTypes, FlightsTyped
    <3>3. FlightOK(f, server.orders, tour.who)
      BY <2>3, <3>2 DEF FlightOK, PayBill, AccountKinds
    <3> QED
      BY <2>1, <3>1, <3>2, <3>3, OneFlock, SubmitsKeeps, Kept
  <2>2. CASE NavigateWith(Confirmation(location.order, 0), flights)
             /\ UNCHANGED <<tour, memory, storage, cache, server>>
    <3>1. Open(Confirmation(location.order, 0))
      BY <2>3, OpenConfirmation DEF Earned
    <3> QED
      BY <2>2, <3>1, NavigatesWith, Kept
  <2> QED
    BY <1>4, <2>1, <2>2 DEF HandlePayFree
<1>5. CASE PopupEnds
  <2>1. PICK f \in Waiting("popup") :
          \/ Hears(f, [local EXCEPT !.paying = FALSE])
          \/ /\ flights' = GoesOn(f, "charge", f.arg)
             /\ UNCHANGED <<tour, location, history, local, memory, storage, cache, server>>
    BY <1>5 DEF PopupEnds
  <2>2. Fits([local EXCEPT !.paying = FALSE])
    BY DEF IInv, Fits, LocalOK, FormOK, BookingFields
  <2>3. Flock(GoesOn(f, "charge", f.arg))
    BY BillGoesOn DEF Waiting
  <2> QED
    BY <2>1, <2>2, <2>3, HearsKeeps, FliesKeeps
<1>6. CASE OpenLink
  <2>1. PICK order \in 1..Len(server.orders) :
          Moving /\ Reloads([Confirmation(order, 0) EXCEPT !.from = "link"]) /\ UNCHANGED storage
    BY <1>6 DEF OpenLink
  <2>2. PICK there : there = [Confirmation(order, 0) EXCEPT !.from = "link"]
    OBVIOUS
  <2>3. /\ LocationFields \subseteq DOMAIN there /\ there.path = "/order/confirmation"
        /\ there.order = order /\ there.amount = 0 /\ there.from = "link"
        /\ there = [path |-> "/order/confirmation", order |-> order, amount |-> 0, from |-> "link"]
    BY <2>2, ConfirmationIs DEF LocationFields
  <2>4. LocationOK(there, server.orders)
    BY <2>3 DEF LocationOK, Earned
  <2>5. there.path \in Shown
    BY <1>6, <2>3 DEF OpenLink, Shown
  <2> QED
    BY <2>1, <2>2, <2>3, <2>4, <2>5, MovingSame, ReloadsKeeps, Kept
<1>7. CASE WashDone
  <2>1. PICK order : server' = [server EXCEPT !.orders[order].status = "completed"]
    BY <1>7 DEF WashDone
  <2>2. Serves
    BY <2>1, StatusServes
  <2>3. UNCHANGED <<tour, location, history, local, flights, memory, storage>>
    BY <1>7 DEF WashDone
  <2> QED
    BY <2>2, <2>3, FlightsServed, Kept, ServesKeeps
<1>8. CASE ConfirmationLinks
  <2>1. PICK path \in ConfirmationOffers \ {"calendar"} : Navigate(path, flights)
    BY <1>8 DEF ConfirmationLinks
  <2>2. path # "/order/payment"
    BY <2>1 DEF ConfirmationOffers
  <2> QED
    BY <1>8, <2>1, <2>2, Navigates, Kept DEF ConfirmationLinks
<1>9. CASE CalendarOpens \/ CalendarCloses
  <2>1. \A open : Fits([local EXCEPT !.calendar = open])
    BY DEF IInv, Fits, LocalOK, FormOK, BookingFields
  <2> QED
    BY <1>9, <2>1, SetsKeeps DEF CalendarOpens, CalendarCloses
<1> QED
  BY <1>1, <1>2, <1>3, <1>4, <1>5, <1>6, <1>7, <1>8, <1>9,
     ChooseServiceKeeps, ChooseTimeKeeps, HandleSubmitKeeps, HandlePayKeeps
  DEF OrderPagesActions

(* The pages of the staff *)

\* A page of which nothing is claimed is edited.
LEMMA Edited ==
  ASSUME IInv,
         local.page \notin {"order", "payment", "welcome", "vehicles", "washHistory", "transactions", "users"}
  PROVE  \A l : "page" \in DOMAIN l /\ l.page = local.page => Fits(l)
BY DEF IInv, Fits, LocalOK

LEMMA StaffPagesMountKeep == ASSUME IInv, StaffPagesMount PROVE IInv'
<1>1. CASE DashboardMount
  BY <1>1, AsksKeeps, OtherPage DEF DashboardMount, DashboardPage, Keys, Pages
<1>2. CASE VerificationMount
  BY <1>2, AsksKeeps, OtherPage DEF VerificationMount, VerificationPage, Keys, Pages
<1>3. CASE VehiclesMount
  BY <1>3, SetsKeeps DEF VehiclesMount, VehiclesPage, Fits, LocalOK, Pages
<1>4. CASE HistoryMount
  BY <1>4, SetsKeeps DEF HistoryMount, HistoryPage, PagesOf, Fits, LocalOK, Pages
<1>5. CASE AnalyticsMount
  BY <1>5, AsksKeeps, OtherPage DEF AnalyticsMount, Keys, Pages
<1>6. CASE CustomersMount
  BY <1>6, AsksKeeps, OtherPage DEF CustomersMount, Keys, Pages
<1>7. CASE VisitMount
  BY <1>7, SetsKeeps, OtherPage DEF VisitMount, VisitPage, Pages
<1> QED
  BY <1>1, <1>2, <1>3, <1>4, <1>5, <1>6, <1>7 DEF StaffPagesMount

LEMMA StaffPollsKeep == ASSUME IInv, StaffPolls PROVE IInv'
BY IntervalKeeps DEF StaffPolls, ActivePolls, VerificationsPoll

\* A request that writes has been answered: its lists are fetched again, or
\* nothing has been written.
LEMMA WrittenKeeps ==
  ASSUME IInv, NEW f, NEW done, NEW keys, NEW written,
         IF done THEN Invalidates(keys, written, flights \ {f})
                 ELSE flights' = flights \ {f} /\ UNCHANGED cache,
         Fits(local'), UNCHANGED <<tour, location, history, memory, storage, server>>
  PROVE  IInv'
<1>1. Flock(flights')
  BY InvalidatesFlock, WithoutFlight
<1> QED
  BY <1>1, AtPage, Kept

LEMMA VerificationActionsKeep ==
  ASSUME IInv, ChooseMethod \/ VerifyPayment \/ OpenRecord \/ ConfirmStartWash \/ VehicleModal
  PROVE  IInv'
<1>1. local.page = "verification" /\ "page" \in DOMAIN local
  BY DEF ChooseMethod, VerifyPayment, OpenRecord, ConfirmStartWash, VehicleModal, On, IInv, LocalOK
<1>2. \A l : "page" \in DOMAIN l /\ l.page = "verification" => Fits(l)
  BY <1>1, Edited
<1>3. CASE ChooseMethod
  <2>1. /\ \A offer : Fits([local EXCEPT !.method = offer])
        /\ Fits([local EXCEPT !.scanning = ~@])
        /\ \A order : Fits([local EXCEPT !.typed = order])
        /\ Fits([local EXCEPT !.dialog = FALSE])
    BY <1>1, <1>2
  <2> QED
    BY <1>3, <2>1, SetsKeeps DEF ChooseMethod
<1>4. CASE VerifyPayment
  <2>1. /\ Fits([local EXCEPT !.processing = TRUE])
        /\ Fits([local EXCEPT !.scanning = FALSE, !.processing = TRUE])
    BY <1>1, <1>2
  <2> QED
    BY <1>4, <2>1, SendsKeeps DEF VerifyPayment, Bound, AccountKinds
<1>5. CASE OpenRecord
  <2>1. \A order : Fits([local EXCEPT !.records = @ \cup {order}])
    BY <1>1, <1>2
  <2> QED
    BY <1>5, <2>1, SetsKeeps DEF OpenRecord
<1>6. CASE ConfirmStartWash
  <2>1. Fits([local EXCEPT !.vehicles = TRUE]) /\ Fits([local EXCEPT !.starting = TRUE])
    BY <1>1, <1>2
  <2> QED
    BY <1>6, <2>1, SetsKeeps, SendsKeeps DEF ConfirmStartWash, Bound, AccountKinds
<1>7. CASE VehicleModal
  <2>1. /\ Fits([local EXCEPT !.vehicles = FALSE])
        /\ Fits([local EXCEPT !.chosen = local.selected])
        /\ Fits(IF local.chosen # local.selected THEN local
                ELSE [local EXCEPT !.vehicle = local.chosen, !.vehicles = FALSE])
        /\ Fits([local EXCEPT !.creating = @ \cup {local.selected}])
    BY <1>1, <1>2
  <2> QED
    BY <1>7, <2>1, SetsKeeps DEF VehicleModal
<1> QED
  BY <1>3, <1>4, <1>5, <1>6, <1>7

\* A period is kept in localStorage.
LEMMA QueriedKeeps ==
  ASSUME IInv, NEW l, Fits(l), NEW period \in {"week", "month", "custom"}, Queried(l, period)
  PROVE  IInv'
<1>1. StorageFits(storage')
  BY DEF Queried, IInv, StorageFits, StorageOK
<1>2. \A shows : Fits([l EXCEPT !.shows = shows])
  BY DEF Fits, LocalOK, FormOK, BookingFields
<1>3. Fits(local')
  BY <1>2 DEF Queried
<1> QED
  BY <1>1, <1>3, AtPage, Kept DEF Queried

LEMMA HistoryActionsKeep ==
  ASSUME IInv, HandleFilterChange \/ TypedFilter \/ TurnPage
  PROVE  IInv'
<1>1. local.page = "washHistory" /\ {"page", "filter", "number"} \subseteq DOMAIN local
      /\ local.number \in Nat \ {0} /\ local.number <= PagesOf(local.filter)
      /\ storage.period \in {"week", "month", "custom"}
  BY DEF HandleFilterChange, TypedFilter, TurnPage, On, IInv, LocalOK, StorageOK
<1>2. PICK kept : kept = storage.period /\ kept \in {"week", "month", "custom"}
  BY <1>1
<1>3. \A l : /\ {"page", "filter", "number"} \subseteq DOMAIN l /\ l.page = "washHistory"
            /\ l.number \in Nat \ {0} /\ l.number <= PagesOf(l.filter)
            => Fits(l)
  BY <1>1 DEF Fits, LocalOK, Pages
<1>4. \A filter : 1 <= PagesOf(filter)
  BY DEF PagesOf
<1>5. ASSUME NEW l, {"page", "filter", "number"} \subseteq DOMAIN l, l.page = "washHistory", l.number = 1
      PROVE  Fits(l)
  BY <1>3, <1>4, <1>5
<1>6. CASE HandleFilterChange
  <2>1. PICK offer \in HistoryOffers :
          CASE offer = "period" -> \E period \in Periods \cup {"custom"} :
                                      Queried([local EXCEPT !.number = 1], period)
            [] offer = "choose" -> \E filter \in {0, 1} :
                                      Queried([local EXCEPT !.filter = filter, !.number = 1], storage.period)
            [] offer = "clear" -> Queried([local EXCEPT !.filter = 0, !.number = 1], storage.period)
            [] offer = "type" -> \E filter \in {0, 1} : Sets([local EXCEPT !.typing = {filter}])
            [] offer \in {"open", "close"} -> Sets([local EXCEPT !.wash = ~@])
    BY <1>6 DEF HandleFilterChange
  <2>2. offer \in {"period", "choose", "clear", "type", "open", "close"}
    BY <2>1 DEF HistoryOffers, FilterOffers, WashListOffers, WashModalOffers
  <2>3. CASE offer = "period"
    <3>1. PICK l, period : /\ l = [local EXCEPT !.number = 1] /\ Queried(l, period)
                           /\ period \in {"week", "month", "custom"}
      BY <2>1, <2>3 DEF Periods
    <3> QED
      BY <1>1, <1>5, <3>1, QueriedKeeps
  <2>4. CASE offer = "choose"
    <3>1. PICK l, filter : l = [local EXCEPT !.filter = filter, !.number = 1] /\ Queried(l, kept)
      BY <1>2, <2>1, <2>4
    <3> QED
      BY <1>1, <1>2, <1>5, <3>1, QueriedKeeps
  <2>5. CASE offer = "clear"
    <3>1. PICK l : l = [local EXCEPT !.filter = 0, !.number = 1] /\ Queried(l, kept)
      BY <1>2, <2>1, <2>5
    <3> QED
      BY <1>1, <1>2, <1>5, <3>1, QueriedKeeps
  <2>6. CASE offer = "type"
    <3>1. \A filter : Fits([local EXCEPT !.typing = {filter}])
      BY <1>1, <1>3
    <3> QED
      BY <2>1, <2>6, <3>1, SetsKeeps
  <2>7. CASE offer \in {"open", "close"}
    <3>1. Fits([local EXCEPT !.wash = ~@])
      BY <1>1, <1>3
    <3> QED
      BY <2>1, <2>7, <3>1, SetsKeeps
  <2> QED
    BY <2>2, <2>3, <2>4, <2>5, <2>6, <2>7
<1>7. CASE TypedFilter
  <2>1. PICK l, filter : l = [local EXCEPT !.filter = filter, !.number = 1, !.typing = {}]
                         /\ Queried(l, kept)
    BY <1>2, <1>7 DEF TypedFilter
  <2>2. Fits(l)
    BY <1>1, <1>5, <2>1
  <2> QED
    BY <1>2, <2>1, <2>2, QueriedKeeps
<1>8. CASE TurnPage
  <2>1. PICK l, number : /\ number \in PagingOffers /\ l = [local EXCEPT !.number = number]
                         /\ Queried(l, kept)
    BY <1>8, <1>2 DEF TurnPage
  <2>2. number \in Nat \ {0} /\ number <= PagesOf(local.filter)
    BY <1>1, <2>1 DEF PagingOffers, PagesOf
  <2>3. Fits(l)
    BY <1>1, <1>3, <2>1, <2>2
  <2> QED
    BY <1>2, <2>1, <2>3, QueriedKeeps
<1> QED
  BY <1>6, <1>7, <1>8

LEMMA VehiclesActionsKeep ==
  ASSUME IInv, ManageVehicles \/ SearchStarts \/ SearchEnds \/ VehicleAdded \/ VehicleDeleted
  PROVE  IInv'
<1> DEFINE Searched(l) ==
             /\ {"page", "query", "timer", "searching", "failed", "results"} \subseteq DOMAIN l
             /\ l.page = "vehicles"
             /\ ~l.timer /\ ~l.searching /\ ~l.failed => l.results \in {0, l.query}
<1>1. local.page = "vehicles" /\ Searched(local)
  BY DEF ManageVehicles, SearchStarts, SearchEnds, VehicleAdded, VehicleDeleted, On, IInv, LocalOK
<1>2. \A l : Searched(l) => Fits(l)
  BY <1>1 DEF Fits, LocalOK, Pages
<1>3. ASSUME NEW l, Searched(l), NEW text PROVE Fits(Typed(l, text))
  <2>1. PICK m : m = Typed(l, text)
    OBVIOUS
  <2>2. Searched(m)
    BY <1>3, <2>1 DEF Typed
  <2> QED
    BY <1>2, <2>1, <2>2
<1>4. CASE ManageVehicles
  <2>1. /\ \A offer : Fits([local EXCEPT !.tab = offer])
        /\ Fits([local EXCEPT !.selected = local.results])
        /\ Fits([local EXCEPT !.deleting = @ \cup {local.results}])
        /\ \A owner : Fits([local EXCEPT !.owner = owner])
        /\ Fits([local EXCEPT !.loading = TRUE, !.adding = local.owner])
    BY <1>1, <1>2
  <2>2. \A text : Fits(Typed(local, text))
    BY <1>1, <1>3
  <2>3. \A offer \in VehiclesOffers : offer \in {"search", "adds", "type", "select", "delete", "owner", "add"}
    BY DEF VehiclesOffers, SearchTabOffers, AddTabOffers
  <2> QED
    BY <1>4, <2>1, <2>2, <2>3, SetsKeeps DEF ManageVehicles
<1>5. CASE SearchStarts
  <2>1. Fits([local EXCEPT !.timer = FALSE, !.searching = TRUE, !.loading = TRUE])
    BY <1>1, <1>2
  <2> QED
    BY <1>5, <2>1, SetsKeeps DEF SearchStarts
<1>6. CASE SearchEnds
  <2>1. PICK l : l = [local EXCEPT !.searching = FALSE, !.loading = FALSE]
    OBVIOUS
  <2>2. (\E found \in {0, l.query} : Sets([l EXCEPT !.results = found])) \/ Sets([l EXCEPT !.failed = TRUE])
    BY <1>6, <2>1 DEF SearchEnds
  <2>3. (\A found \in {0, l.query} : Fits([l EXCEPT !.results = found])) /\ Fits([l EXCEPT !.failed = TRUE])
    BY <1>1, <1>2, <2>1
  <2> QED
    BY <2>2, <2>3, SetsKeeps
<1>7. CASE VehicleAdded
  <2>1. PICK l, added : /\ l = [local EXCEPT !.adding = 0, !.loading = FALSE]
                        /\ added = [l EXCEPT !.tab = "search", !.owner = 0]
    OBVIOUS
  <2>2. Sets(l) \/ Sets(IF l.query = local.adding THEN added ELSE Typed(added, local.adding))
    BY <1>7, <2>1 DEF VehicleAdded
  <2>3. Searched(l)
    BY <1>1, <2>1
  <2>4. Searched(added)
    BY <2>1, <2>3
  <2>5. Fits(l) /\ Fits(added) /\ Fits(Typed(added, local.adding))
    BY <1>2, <1>3, <2>3, <2>4
  <2> QED
    BY <2>2, <2>5, SetsKeeps
<1>8. CASE VehicleDeleted
  <2>1. PICK vehicle, l :
          /\ l = [local EXCEPT !.deleting = @ \ {vehicle}]
          /\ \/ Sets(l)
             \/ Sets([l EXCEPT !.results = IF @ = vehicle THEN 0 ELSE @, !.selected = 0])
    BY <1>8 DEF VehicleDeleted
  <2>2. Searched(l)
    BY <1>1, <2>1
  <2>3. Fits(l) /\ Fits([l EXCEPT !.results = IF @ = vehicle THEN 0 ELSE @, !.selected = 0])
    BY <1>2, <2>2
  <2> QED
    BY <2>1, <2>3, SetsKeeps
<1> QED
  BY <1>4, <1>5, <1>6, <1>7, <1>8

LEMMA StaffPagesActionsKeep == ASSUME IInv, StaffPagesActions PROVE IInv'
<1>1. CASE HandleEndClick
  <2>1. \A order : Fits([local EXCEPT !.confirm = order])
    BY DEF IInv, Fits, LocalOK, FormOK, BookingFields
  <2> QED
    BY <1>1, <2>1, SetsKeeps DEF HandleEndClick
<1>2. CASE ManagerToggles
  <2>1. Fits([local EXCEPT !.auto = ~@]) /\ Fits([local EXCEPT !.confirm = 0])
    BY DEF IInv, Fits, LocalOK, FormOK, BookingFields
  <2> QED
    BY <1>2, <2>1, SetsKeeps DEF ManagerToggles
<1>3. CASE ManagerRefetches
  BY <1>3, RefetchedFlock, FliesKeeps, Kept DEF ManagerRefetches, Refetches
<1>4. CASE ConfirmEnd
  <2>1. Fits([local EXCEPT !.ending = TRUE])
    BY DEF IInv, Fits, LocalOK, FormOK, BookingFields
  <2> QED
    BY <1>4, <2>1, SendsKeeps DEF ConfirmEnd, Bound, AccountKinds
<1>5. CASE AnalyticsToggles
  <2>1. local.page = "analytics" /\ "page" \in DOMAIN local
    BY <1>5 DEF AnalyticsToggles, On, IInv, LocalOK
  <2>2. Fits([local EXCEPT !.linear = ~@])
    BY <2>1, Edited
  <2>3. \/ \E period \in {"week", "month", "custom"} : Queried(local, period)
        \/ Sets([local EXCEPT !.linear = ~@])
    BY <1>5 DEF AnalyticsToggles, AnalyticsOffers, Periods
  <2> QED
    BY <2>1, <2>2, <2>3, QueriedKeeps, SetsKeeps, Kept
<1>6. CASE HandleRefresh
  <2>1. Fits([local EXCEPT !.refreshing = TRUE])
    BY DEF IInv, Fits, LocalOK, FormOK, BookingFields
  <2> QED
    BY <1>6, <2>1, SendsKeeps DEF HandleRefresh, Bound, AccountKinds
<1>7. CASE TypeCell
  <2>1. \A cell : Fits([local EXCEPT !.cell = cell])
    BY DEF IInv, Fits, LocalOK, FormOK, BookingFields
  <2> QED
    BY <1>7, <2>1, SetsKeeps DEF TypeCell
<1>8. CASE ConfirmAndLog
  <2>1. Fits([local EXCEPT !.status = None]) /\ Fits([local EXCEPT !.status = None, !.loading = "log"])
    BY DEF IInv, Fits, LocalOK, FormOK, BookingFields
  <2> QED
    BY <1>8, <2>1, SetsKeeps, SendsKeeps DEF ConfirmAndLog, Bound, AccountKinds
<1>9. CASE HandleStartWash
  <2>1. Fits([local EXCEPT !.loading = "wash", !.status = None])
    BY DEF IInv, Fits, LocalOK, FormOK, BookingFields
  <2> QED
    BY <1>9, <2>1, SetsKeeps DEF HandleStartWash
<1> QED
  BY <1>1, <1>2, <1>3, <1>4, <1>5, <1>6, <1>7, <1>8, <1>9,
     VerificationActionsKeep, HistoryActionsKeep, VehiclesActionsKeep
  DEF StaffPagesActions

LEMMA VerificationSettlesKeep ==
  ASSUME IInv, PaymentVerified \/ RecordArrives \/ WashStarted \/ VehicleCreated
  PROVE  IInv'
<1>1. CASE PaymentVerified
  <2>1. PICK f \in Waiting("verifyPayment"), done \in BOOLEAN :
          LET l == [local EXCEPT !.processing = FALSE, !.typed = 0] IN
          /\ IF ~f.mine THEN UNCHANGED local ELSE IF done THEN Shows(l, f.arg[1]) ELSE local' = l
          /\ IF done THEN Invalidates({"verifications"}, {"verifications"}, flights \ {f})
                     ELSE flights' = flights \ {f} /\ UNCHANGED cache
          /\ UNCHANGED <<tour, location, history, memory, storage, server>>
    BY <1>1 DEF PaymentVerified
  <2>2. PICK l : l = [local EXCEPT !.processing = FALSE, !.typed = 0]
    OBVIOUS
  <2>3. Fits(l) /\ \A order, vehicle : Fits([l EXCEPT !.selected = order, !.vehicle = vehicle, !.dialog = TRUE])
    BY <2>2 DEF IInv, Fits, LocalOK, FormOK, BookingFields
  <2>4. \/ UNCHANGED local \/ local' = l
        \/ \E vehicle : local' = [l EXCEPT !.selected = f.arg[1], !.vehicle = vehicle, !.dialog = TRUE]
    BY <2>1, <2>2 DEF Shows
  <2>5. Fits(local')
    <3>1. CASE UNCHANGED local
      BY <3>1, Kept
    <3>2. CASE local' = l
      BY <2>3, <3>2
    <3>3. ASSUME NEW vehicle,
                 local' = [l EXCEPT !.selected = f.arg[1], !.vehicle = vehicle, !.dialog = TRUE]
          PROVE  Fits(local')
      BY <2>3, <3>3
    <3> QED
      BY <2>4, <3>1, <3>2, <3>3
  <2> QED
    BY <2>1, <2>5, WrittenKeeps
<1>2. CASE RecordArrives
  <2>1. PICK order, l :
          /\ l = [local EXCEPT !.records = @ \ {order}]
          /\ \/ Sets(l)
             \/ Shows(l, order) /\ UNCHANGED <<tour, location, history, flights, memory, storage, cache, server>>
    BY <1>2 DEF RecordArrives
  <2>2. Fits(l) /\ \A vehicle : Fits([l EXCEPT !.selected = order, !.vehicle = vehicle, !.dialog = TRUE])
    BY <2>1 DEF IInv, Fits, LocalOK, FormOK, BookingFields
  <2>3. CASE Sets(l)
    BY <2>2, <2>3, SetsKeeps
  <2>4. CASE Shows(l, order) /\ UNCHANGED <<tour, location, history, flights, memory, storage, cache, server>>
    <3>1. Fits(local')
      BY <2>2, <2>4 DEF Shows
    <3> QED
      BY <2>4, <3>1, AtPage, Kept
  <2> QED
    BY <2>1, <2>3, <2>4
<1>3. CASE WashStarted
  <2>1. PICK f \in Waiting("startWash") :
          \/ Hears(f, [local EXCEPT !.starting = FALSE])
          \/ /\ Navigate("/staff/dashboard",
                         Refetched({"verifications"}, FlightsAfter({"active"}, {"active"}, flights \ {f})))
             /\ UNCHANGED <<tour, memory, storage, server>>
    BY <1>3 DEF WashStarted
  <2>2. Fits([local EXCEPT !.starting = FALSE])
    BY DEF IInv, Fits, LocalOK, FormOK, BookingFields
  <2>3. Flock(Refetched({"verifications"}, FlightsAfter({"active"}, {"active"}, flights \ {f})))
    BY WithoutFlight, InvalidatedFlock, RefetchedFlock
  <2> QED
    BY <2>1, <2>2, <2>3, HearsKeeps, Navigates, Kept
<1>4. CASE VehicleCreated
  <2>1. PICK owner, l :
          /\ l = [local EXCEPT !.creating = @ \ {owner}]
          /\ \/ Sets(l)
             \/ Sets([l EXCEPT !.vehicle = IF local.selected = 0 THEN @ ELSE owner, !.vehicles = FALSE])
    BY <1>4 DEF VehicleCreated
  <2>2. Fits(l) /\ \A vehicle : Fits([l EXCEPT !.vehicle = vehicle, !.vehicles = FALSE])
    BY <2>1 DEF IInv, Fits, LocalOK, FormOK, BookingFields
  <2> QED
    BY <2>1, <2>2, SetsKeeps
<1> QED
  BY <1>1, <1>2, <1>3, <1>4

LEMMA StaffPagesSettleKeep == ASSUME IInv, StaffPagesSettle PROVE IInv'
<1>1. CASE WashEnded
  <2>1. PICK f \in Waiting("endWash"), done \in BOOLEAN :
          /\ local' = IF f.mine THEN [local EXCEPT !.ending = FALSE, !.confirm = 0] ELSE local
          /\ IF done THEN Invalidates({"active"}, {"active"}, flights \ {f})
                     ELSE flights' = flights \ {f} /\ UNCHANGED cache
          /\ UNCHANGED <<tour, location, history, memory, storage, server>>
    BY <1>1 DEF WashEnded
  <2>2. Fits(local')
    BY <2>1 DEF IInv, Fits, LocalOK, FormOK, BookingFields
  <2> QED
    BY <2>1, <2>2, WrittenKeeps
<1>2. CASE HistoryArrives
  <2>1. \A shows : Fits([local EXCEPT !.shows = shows])
    BY DEF IInv, Fits, LocalOK, FormOK, BookingFields
  <2> QED
    BY <1>2, <2>1, SetsKeeps DEF HistoryArrives
<1>3. CASE AnalyticsArrives
  <2>1. Fits([local EXCEPT !.shows = "data"])
    BY DEF IInv, Fits, LocalOK, FormOK, BookingFields
  <2> QED
    BY <1>3, <2>1, SetsKeeps DEF AnalyticsArrives
<1>4. CASE Recomputed
  <2>1. PICK f \in Waiting("recompute"), done \in BOOLEAN :
          /\ local' = IF f.mine THEN [local EXCEPT !.refreshing = FALSE, !.refreshed = @ \/ done] ELSE local
          /\ IF done THEN Invalidates({"customers"}, {"customers"}, flights \ {f})
                     ELSE flights' = flights \ {f} /\ UNCHANGED cache
          /\ UNCHANGED <<tour, location, history, memory, storage, server>>
    BY <1>4 DEF Recomputed
  <2>2. Fits(local')
    BY <2>1 DEF IInv, Fits, LocalOK, FormOK, BookingFields
  <2> QED
    BY <2>1, <2>2, WrittenKeeps
<1>5. CASE RefreshedFades
  <2>1. Fits([local EXCEPT !.refreshed = FALSE])
    BY DEF IInv, Fits, LocalOK, FormOK, BookingFields
  <2> QED
    BY <1>5, <2>1, SetsKeeps DEF RefreshedFades
<1>6. CASE VisitLogged
  <2>1. PICK f, l :
          /\ l = [local EXCEPT !.loading = None]
          /\ \/ ForcedOut
             \/ Hears(f, [l EXCEPT !.last = 0, !.status = "failed"])
             \/ Hears(f, [l EXCEPT !.last = f.arg[1], !.status = "logged", !.cell = 0])
    BY <1>6 DEF VisitLogged
  <2>2. /\ Fits([l EXCEPT !.last = 0, !.status = "failed"])
        /\ Fits([l EXCEPT !.last = f.arg[1], !.status = "logged", !.cell = 0])
    BY <2>1 DEF IInv, Fits, LocalOK, FormOK, BookingFields
  <2> QED
    BY <2>1, <2>2, ForcedOutKeeps, HearsKeeps
<1>7. CASE ManualWashStarted
  <2>1. \A status : Fits([local EXCEPT !.loading = None, !.status = status])
    BY DEF IInv, Fits, LocalOK, FormOK, BookingFields
  <2> QED
    BY <1>7, <2>1, SetsKeeps DEF ManualWashStarted
<1> QED
  BY <1>1, <1>2, <1>3, <1>4, <1>5, <1>6, <1>7,
     VerificationSettlesKeep, HistoryActionsKeep, VehiclesActionsKeep
  DEF StaffPagesSettle

(* The pages of the administrators *)

LEMMA SupersededFlock == ASSUME NEW F, Flock(F), NEW keys PROVE Flock(Superseded(keys, F))
<1>1. ASSUME NEW f \in Superseded(keys, F) PROVE \E g \in F : Kin(f, g)
  <2>1. PICK g \in F : \/ f = g
                       \/ g.kind = "refreshLists" /\ \E arg : f = [g EXCEPT !.arg = arg]
    BY <1>1 DEF Superseded
  <2>2. FlightFields \subseteq DOMAIN g /\ FlightTyped(g)
    BY DEF Flock, FlightsOK
  <2>3. Kin(f, g)
    BY <2>1, <2>2 DEF Kin, FlightFields, Bound, AccountKinds, FlightTyped
  <2> QED
    BY <2>3
<1>2. PICK h : h = [f \in F |-> IF f.kind = "refreshLists"
                                 THEN [f EXCEPT !.arg[1] = @ \ {key \in keys : Has(key) \/ ~Fetching(key)}]
                                 ELSE f]
  OBVIOUS
<1>3. Superseded(keys, F) = {h[f] : f \in F}
  BY <1>2 DEF Superseded
<1>4. IsFiniteSet(Superseded(keys, F))
  BY <1>3, ImageFinite DEF Flock, FlightsOK
<1> QED
  BY <1>1, <1>4, KinFlock

LEMMA TableFetchFlock == ASSUME NEW key PROVE Flock({TableFetch(key)})
BY FreeFlight DEF TableFetch, FlightFields, FlightTyped, Bound, AccountKinds

LEMMA TableAgainFlock == ASSUME NEW F, Flock(F), NEW table PROVE Flock(TableAgain(F, table))
<1>1. PICK G : G = {TableFetch(TableKey(local))} /\ TableAgain(F, table) \subseteq F \cup G
  BY DEF TableAgain, TableFetches
<1>2. Flock(F \cup G)
  BY <1>1, TableFetchFlock, FlockParts
<1> QED
  BY <1>1, <1>2, FlockSubset

\* What the table of users holds is no matter here.
LEMMA TableFits ==
  ASSUME IInv
  PROVE  \A table : MemoryFits([memory EXCEPT !.table = table])
BY DEF IInv, MemoryFits, MemoryOK

LEMMA ShowsEntryKeeps ==
  ASSUME IInv, NEW key, ShowsEntry(key), Fits(local'),
         UNCHANGED <<tour, location, history, storage, server>>
  PROVE  IInv'
<1>1. PICK asks : /\ asks \subseteq {TableFetch(key)} /\ flights' = flights \cup asks
                  /\ memory' = [memory EXCEPT !.table[key].failed = @ /\ asks = {}]
  BY DEF ShowsEntry
<1>2. Flock(asks)
  BY <1>1, TableFetchFlock, FlockSubset
<1>3. Flock(flights')
  BY <1>1, <1>2, Kept, FlockParts
<1>4. PICK table : memory' = [memory EXCEPT !.table = table]
  BY <1>1
<1>5. MemoryFits(memory')
  BY <1>4, TableFits
<1> QED
  BY <1>3, <1>5, AtPage, Kept

LEMMA TurnsToKeeps == ASSUME IInv, NEW l, TurnsTo(l), Fits(l) PROVE IInv'
<1>1. local' = l /\ UNCHANGED <<tour, location, history, storage, cache, server>>
  BY DEF TurnsTo
<1>2. CASE TableKey(l) = TableKey(local)
  BY <1>1, <1>2, AtPage, Kept DEF TurnsTo
<1>3. CASE TableKey(l) # TableKey(local)
  BY <1>1, <1>3, ShowsEntryKeeps DEF TurnsTo
<1> QED
  BY <1>2, <1>3

LEMMA AdminPagesMountKeep == ASSUME IInv, AdminPagesMount PROVE IInv'
<1>1. CASE InventoryMount
  BY <1>1, AsksKeeps, OtherPage DEF InventoryMount, InventoryPage, Keys, Lists, Pages
<1>2. CASE UsersMount
  <2>1. Fits(local')
    BY <1>2 DEF UsersMount, UsersPage, Fits, LocalOK, TableFields, Pages
  <2> QED
    BY <1>2, <2>1, ShowsEntryKeeps DEF UsersMount
<1>3. CASE TransactionsMount
  BY <1>3, SetsKeeps DEF TransactionsMount, TransactionsPage, MaxPages, Fits, LocalOK, Pages
<1> QED
  BY <1>1, <1>2, <1>3 DEF AdminPagesMount

LEMMA InventoryActionsKeep ==
  ASSUME IInv, EditInventory \/ RefreshInventory \/ WriteInventory
  PROVE  IInv'
<1>1. local.page = "inventory" /\ "page" \in DOMAIN local
  BY DEF EditInventory, RefreshInventory, WriteInventory, On, IInv, LocalOK
<1>2. \A l : "page" \in DOMAIN l /\ l.page = "inventory" => Fits(l)
  BY <1>1, Edited
<1>3. CASE EditInventory
  <2>1. /\ \A list : Fits([local EXCEPT !.filled = @ \cup {list}])
        /\ \A editing : Fits([local EXCEPT !.editing = editing])
        /\ \A confirm : Fits([local EXCEPT !.confirm = confirm])
    BY <1>1, <1>2
  <2>2. \/ \E list : Sets([local EXCEPT !.filled = @ \cup {list}])
        \/ \E editing : Sets([local EXCEPT !.editing = editing])
        \/ \E confirm : Sets([local EXCEPT !.confirm = confirm])
    <3>1. PICK list \in Lists : \E offer \in InventoryOffers(list) :
            CASE offer = "fill" -> Sets([local EXCEPT !.filled = @ \cup {list}])
              [] offer = "edit" -> \E item : Sets([local EXCEPT !.editing[list] = item])
              [] offer = "cancel" -> Sets([local EXCEPT !.editing[list] = 0])
              [] offer = "remove" -> \E item : Sets([local EXCEPT !.confirm = <<list, item>>])
              [] offer = "keep" -> Sets([local EXCEPT !.confirm = NoItem])
              [] OTHER -> FALSE
      BY <1>3 DEF EditInventory
    <3>2. ASSUME NEW item, Sets([local EXCEPT !.editing[list] = item])
          PROVE  \E editing : Sets([local EXCEPT !.editing = editing])
      BY <3>2
    <3> QED
      BY <3>1, <3>2
  <2> QED
    BY <2>1, <2>2, SetsKeeps
<1>4. CASE RefreshInventory
  BY <1>4, SupersededFlock, RefetchedFlock, FliesKeeps, Kept DEF RefreshInventory
<1>5. CASE WriteInventory
  <2>1. PICK list, offer :
          /\ offer \in {"createItem", "save", "delete"}
          /\ SetsAndSends([local EXCEPT !.submitting = TRUE], {Flight(offer, list, <<>>)})
    BY <1>5 DEF WriteInventory
  <2>2. Fits([local EXCEPT !.submitting = TRUE]) /\ offer \notin Bound
    BY <1>1, <1>2, <2>1 DEF Bound, AccountKinds
  <2> QED
    BY <2>1, <2>2, SendsKeeps
<1> QED
  BY <1>3, <1>4, <1>5

LEMMA WriteEndsFit == ASSUME IInv, NEW kind PROVE Fits(WriteEnds(local, kind))
BY DEF WriteEnds, IInv, Fits, LocalOK, FormOK, BookingFields

LEMMA InventorySettlesKeep ==
  ASSUME IInv, (\E kind \in Writes : InventoryWritten(kind)) \/ ListsRefreshed
  PROVE  IInv'
<1>1. ASSUME NEW kind \in Writes, InventoryWritten(kind) PROVE IInv'
  <2>1. PICK f \in {g \in Waiting(kind) : g.key \in Lists} :
    \/ Hears(f, WriteEnds(local, kind))
    \/ LET lists == IF kind = "createItem" /\ f.key = "extras" THEN Lists ELSE {f.key}
           awaited == lists \cap Watched IN
       /\ local' = IF f.mine THEN AfterWrite(f) ELSE local
       /\ flights' = FlightsAfter(lists, {f.key}, Superseded(awaited, flights \ {f}))
                     \cup {Then(f, "refreshLists", <<awaited, kind>>)}
       /\ cache' = CacheAfter(lists, {f.key})
       /\ UNCHANGED <<tour, location, history, memory, storage, server>>
    BY <1>1 DEF InventoryWritten
  <2>2. CASE Hears(f, WriteEnds(local, kind))
    BY <2>2, WriteEndsFit, HearsKeeps
  <2>3. CASE ~Hears(f, WriteEnds(local, kind))
    <3>1. PICK lists, awaited, g :
            /\ flights' = FlightsAfter(lists, {f.key}, Superseded(awaited, flights \ {f})) \cup {g}
            /\ g = Then(f, "refreshLists", <<awaited, kind>>)
      BY <2>1, <2>3
    <3>2. FlightFields \subseteq DOMAIN g /\ FlightTyped(g) /\ g.kind = "refreshLists"
      BY <3>1, ThenIs, ThenTypes, FlightsTyped DEF Waiting
    <3>3. Flock({g})
      BY <3>2, FreeFlight DEF Bound, AccountKinds
    <3>4. Flock(FlightsAfter(lists, {f.key}, Superseded(awaited, flights \ {f})))
      BY WithoutFlight, SupersededFlock, InvalidatedFlock
    <3>5. Flock(flights')
      BY <3>1, <3>3, <3>4, FlockParts
    <3>6. Fits(local')
      BY <2>1, <2>3 DEF AfterWrite, IInv, Fits, LocalOK, FormOK, BookingFields
    <3> QED
      BY <2>1, <2>3, <3>5, <3>6, AtPage, Kept
  <2> QED
    BY <2>2, <2>3
<1>2. CASE ListsRefreshed
  BY <1>2, WriteEndsFit, HearsKeeps DEF ListsRefreshed
<1> QED
  BY <1>1, <1>2

LEMMA UsersActionsKeep ==
  ASSUME IInv, UsersTyped \/ UsersDebounced \/ UsersTurn \/ UserForms \/ UsersReload \/ EditRole \/ SaveRole
  PROVE  IInv'
<1>1. local.page = "users" /\ "page" \in DOMAIN local
  BY DEF UsersTyped, UsersDebounced, UsersTurn, UserForms, UsersReload, EditRole, SaveRole, On, IInv, LocalOK
<1>2. \A l : DOMAIN l = DOMAIN local /\ l.page = "users" => Fits(l)
  BY <1>1 DEF IInv, Fits, LocalOK
<1>3. CASE UsersTyped
  <2>1. Fits([local EXCEPT !.number = 1, !.search = 1 - @]) /\ Fits([local EXCEPT !.search = 0])
    BY <1>1, <1>2
  <2> QED
    BY <1>3, <2>1, TurnsToKeeps DEF UsersTyped
<1>4. CASE UsersDebounced
  <2>1. Fits([local EXCEPT !.sent = local.search])
    BY <1>1, <1>2
  <2> QED
    BY <1>4, <2>1, TurnsToKeeps DEF UsersDebounced
<1>5. CASE UsersTurn
  <2>1. \A number : Fits([local EXCEPT !.number = number])
    BY <1>1, <1>2
  <2> QED
    BY <1>5, <2>1, TurnsToKeeps DEF UsersTurn
<1>6. CASE UserForms
  <2>1. \A form : Fits([local EXCEPT !.form = form]) /\ Fits([local EXCEPT !.sending = @ \cup {form}])
    BY <1>1, <1>2
  <2> QED
    BY <1>6, <2>1, SetsKeeps, SendsKeeps DEF UserForms, UserFormKinds, Bound, AccountKinds
<1>7. CASE UsersReload
  <2>1. flights' = TableAgain(flights, memory.table)
        /\ UNCHANGED <<tour, location, history, local, storage, cache, server>>
    BY <1>7 DEF UsersReload
  <2>2. PICK table : memory' = [memory EXCEPT !.table = table]
    BY <1>7 DEF UsersReload
  <2> QED
    BY <2>1, <2>2, TableAgainFlock, TableFits, AtPage, Kept
<1>8. CASE EditRole
  <2>1. \A user : Fits([local EXCEPT !.editing = IF @ = user THEN 0 ELSE user])
    BY <1>1, <1>2
  <2> QED
    BY <1>8, <2>1, SetsKeeps DEF EditRole
<1>9. CASE SaveRole
  <2> DEFINE row == [Row(local) EXCEPT !.stale = FALSE]
  <2>10. PICK key, arg, n :
          /\ key = TableKey(local) /\ n = FreeNumber(RoleFlights)
          /\ arg = <<local.editing, 1 - row.roles[local.editing], row, <<>>>>
    OBVIOUS
  <2>11. PICK F, g : /\ F = {Keeps(f, key) : f \in {h \in flights : h.kind # "users" \/ h.arg[1] # key}}
                    /\ g = [Flight("role", None, arg) EXCEPT !.n = n]
    OBVIOUS
  <2>1. flights' = F \cup {g}
    BY <1>9, <2>10, <2>11 DEF SaveRole
  <2>2. Flock(F)
    <3>1. ASSUME NEW f \in F PROVE \E h \in flights : Kin(f, h)
      <4>1. PICK h \in flights : f = Keeps(h, key)
        BY <2>11
      <4>2. PICK kept : f = h \/ (h.kind = "role" /\ f = [h EXCEPT !.arg = kept])
        <5>1. PICK kept : kept = [h.arg EXCEPT ![4] = key]
          OBVIOUS
        <5>2. [h EXCEPT !.arg[4] = key] = [h EXCEPT !.arg = kept]
          BY <5>1
        <5> QED
          BY <4>1, <5>2 DEF Keeps, RoleFlights
      <4>3. FlightFields \subseteq DOMAIN h /\ FlightTyped(h)
        BY DEF IInv, FlightsOK
      <4>4. Kin(f, h)
        BY <4>2, <4>3 DEF Kin, FlightFields, Bound, AccountKinds, FlightTyped
      <4> QED
        BY <4>4
    <3>2. PICK G, keep : /\ G = {h \in flights : h.kind # "users" \/ h.arg[1] # key}
                         /\ keep = [h \in G |-> Keeps(h, key)]
      OBVIOUS
    <3>3. IsFiniteSet(G) /\ F = {keep[h] : h \in G}
      BY <2>11, <3>2, FS_Subset, FlightsTyped
    <3>4. IsFiniteSet(F)
      BY <3>3, ImageFinite
    <3> QED
      BY <3>1, <3>4, Kept, KinFlock
  <2>3. Flock({g})
    <3>1. n \in Nat
      <4>1. IsFiniteSet(RoleFlights)
        BY FS_Subset, FlightsTyped DEF RoleFlights
      <4> QED
        BY <2>10, <4>1, FreeNumberIs
    <3>2. PICK f : f = Flight("role", None, arg)
      OBVIOUS
    <3>3. FlightFields \subseteq DOMAIN f /\ FlightTyped(f) /\ f.kind = "role" /\ g = [f EXCEPT !.n = n]
      BY <2>11, <3>2, FlightIs, FlightTypes, FlightsTyped
    <3>4. FlightFields \subseteq DOMAIN g /\ FlightTyped(g) /\ g.kind = "role"
      BY <3>1, <3>3 DEF FlightFields, FlightTyped
    <3> QED
      BY <3>4, FreeFlight DEF Bound, AccountKinds
  <2>4. Flock(flights')
    BY <2>1, <2>2, <2>3, FlockParts
  <2>5. PICK table : memory' = [memory EXCEPT !.table = table]
    BY <1>9 DEF SaveRole
  <2>6. Fits([local EXCEPT !.editing = 0])
    BY <1>1, <1>2
  <2>7. local' = [local EXCEPT !.editing = 0] /\ UNCHANGED <<tour, location, history, storage, cache, server>>
    BY <1>9 DEF SaveRole
  <2> QED
    BY <2>4, <2>5, <2>6, <2>7, TableFits, AtPage, Kept
<1> QED
  BY <1>3, <1>4, <1>5, <1>6, <1>7, <1>8, <1>9

LEMMA UserAddedKeeps == ASSUME IInv, NEW form \in UserFormKinds, UserAdded(form) PROVE IInv'
<1>1. PICK f, l :
    /\ l = [local EXCEPT !.sending = @ \ {form}]
    /\ \/ Hears(f, l)
       \/ /\ local' = IF f.mine THEN [l EXCEPT !.form = IF @ = form THEN None ELSE @] ELSE local
          /\ flights' = TableAgain(flights \ {f}, memory.table)
          /\ memory' = [memory EXCEPT !.table = StaleTable(@)]
          /\ UNCHANGED <<tour, location, history, storage, cache, server>>
  BY DEF UserAdded
<1>2. Fits(l) /\ \A some : Fits([l EXCEPT !.form = some])
  BY <1>1 DEF IInv, Fits, LocalOK, FormOK, BookingFields
<1>3. CASE Hears(f, l)
  BY <1>2, <1>3, HearsKeeps
<1>4. CASE /\ local' = IF f.mine THEN [l EXCEPT !.form = IF @ = form THEN None ELSE @] ELSE local
           /\ flights' = TableAgain(flights \ {f}, memory.table)
           /\ memory' = [memory EXCEPT !.table = StaleTable(@)]
           /\ UNCHANGED <<tour, location, history, storage, cache, server>>
  <2>1. Fits(local')
    BY <1>2, <1>4, Kept
  <2>2. Flock(flights')
    BY <1>4, WithoutFlight, TableAgainFlock
  <2>3. MemoryFits(memory')
    BY <1>4, TableFits
  <2> QED
    BY <1>4, <2>1, <2>2, <2>3, AtPage, Kept
<1> QED
  BY <1>1, <1>3, <1>4

LEMMA ServerSetsRoleKeeps == ASSUME IInv, ServerSetsRole PROVE IInv'
<1>1. PICK f \in Waiting("role") :
    \/ /\ server' = [server EXCEPT !.roles[f.arg[1]] = f.arg[2]]
       /\ \E reply \in {"ok", "failed"} : flights' = Answered(f, reply, 0)
       /\ UNCHANGED <<tour, location, history, local, memory, storage, cache>>
    \/ Answers(f, "failed", 0)
  BY DEF ServerSetsRole
<1>2. f \in flights /\ f.kind \notin Bound
  BY DEF Waiting, Bound, AccountKinds
<1>3. CASE /\ server' = [server EXCEPT !.roles[f.arg[1]] = f.arg[2]]
           /\ \E reply \in {"ok", "failed"} : flights' = Answered(f, reply, 0)
           /\ UNCHANGED <<tour, location, history, local, memory, storage, cache>>
  <2>1. PICK roles : server' = [server EXCEPT !.roles = roles]
    BY <1>3
  <2>2. Serves
    BY <2>1 DEF IInv, ServerOK, Serves, Grows
  <2>3. Flock(flights')
    BY <1>2, <1>3, AnsweredFree
  <2> QED
    BY <1>3, <2>2, <2>3, FlightsServed, ServesKeeps
<1>4. CASE Answers(f, "failed", 0)
  BY <1>2, <1>4, AnswersKeeps
<1> QED
  BY <1>1, <1>3, <1>4

LEMMA UsersSettleKeep ==
  ASSUME IInv, ServerListsUsers \/ UsersArrive \/ RoleSettles
  PROVE  IInv'
<1>1. CASE ServerListsUsers
  <2>1. PICK f, arg :
          /\ f \in Waiting("users")
          /\ flights' = (flights \ {f}) \cup {[f EXCEPT !.reply = "ok", !.arg = arg]}
          /\ UNCHANGED <<tour, location, history, local, memory, storage, cache, server>>
    BY <1>1 DEF ServerListsUsers
  <2>2. f \in flights /\ f.kind = "users" /\ FlightFields \subseteq DOMAIN f /\ FlightTyped(f)
    BY <2>1 DEF Waiting, IInv, FlightsOK
  <2>3. PICK g : g = [f EXCEPT !.reply = "ok", !.arg = arg]
    OBVIOUS
  <2>4. Flock({g})
    BY <2>2, <2>3, FreeFlight DEF FlightFields, Bound, AccountKinds, FlightTyped
  <2>5. Flock(flights')
    BY <2>1, <2>3, <2>4, WithoutFlight, FlockParts
  <2> QED
    BY <2>1, <2>5, FliesKeeps
<1>2. CASE UsersArrive
  <2>1. PICK f : /\ flights' = flights \ {f}
                 /\ UNCHANGED <<tour, location, history, local, storage, cache, server>>
                 /\ \E table : memory' = [memory EXCEPT !.table = table]
    BY <1>2 DEF UsersArrive
  <2>2. Flock(flights') /\ MemoryFits(memory')
    BY <2>1, WithoutFlight, TableFits
  <2> QED
    BY <2>1, <2>2, AtPage, Kept
<1>3. CASE RoleSettles
  <2>1. PICK f, back :
          /\ memory' = [memory EXCEPT !.table = StaleTable(back)]
          /\ flights' = {IF g.kind = "users" /\ g.reply = "ok" THEN [g EXCEPT !.value = 1] ELSE g
                           : g \in TableAgain(flights \ {f}, back)}
          /\ local' = IF f.mine THEN [local EXCEPT !.editing = 0] ELSE local
          /\ UNCHANGED <<tour, location, history, storage, cache, server>>
    BY <1>3 DEF RoleSettles
  <2>2. PICK G : G = TableAgain(flights \ {f}, back)
    OBVIOUS
  <2>3. Flock(G)
    BY <2>2, WithoutFlight, TableAgainFlock
  <2>4. ASSUME NEW g \in flights' PROVE \E h \in G : Kin(g, h)
    <3>1. PICK h \in G : g = IF h.kind = "users" /\ h.reply = "ok" THEN [h EXCEPT !.value = 1] ELSE h
      BY <2>1, <2>2
    <3>2. FlightFields \subseteq DOMAIN h /\ FlightTyped(h)
      BY <2>3 DEF Flock, FlightsOK
    <3>3. Kin(g, h)
      BY <3>1, <3>2 DEF Kin, FlightFields, Bound, AccountKinds, FlightTyped
    <3> QED
      BY <3>3
  <2>5. Flock(flights')
    <3>1. PICK mark : mark = [g \in G |-> IF g.kind = "users" /\ g.reply = "ok" THEN [g EXCEPT !.value = 1] ELSE g]
      OBVIOUS
    <3>2. flights' = {mark[g] : g \in G}
      BY <2>1, <2>2, <3>1
    <3>3. IsFiniteSet(flights')
      BY <2>3, <3>2, ImageFinite DEF Flock, FlightsOK
    <3> QED
      BY <2>3, <2>4, <3>3, KinFlock
  <2>6. Fits(local')
    BY <2>1 DEF IInv, Fits, LocalOK, FormOK, BookingFields
  <2>7. MemoryFits(memory')
    BY <2>1, TableFits
  <2> QED
    BY <2>1, <2>5, <2>6, <2>7, AtPage, Kept
<1> QED
  BY <1>1, <1>2, <1>3

\* Asking for other transactions stays at their page.
LEMMA TransactionsKeep ==
  ASSUME IInv, FilterTransactions \/ TransactionsDebounced \/ TurnTransactions \/ TransactionsArrive
  PROVE  IInv'
<1> DEFINE Numbered(l) ==
             /\ {"page", "number", "failed", "kept"} \subseteq DOMAIN l /\ l.page = "transactions"
             /\ l.number \in 1..MaxPages /\ l.kept \in 0..MaxPages
           Paged(l) == Numbered(l) /\ l.number <= ComputedTotalPages(l)
<1>1. local.page = "transactions" /\ Paged(local)
  BY DEF FilterTransactions, TransactionsDebounced, TurnTransactions, TransactionsArrive, On, IInv, LocalOK,
     ComputedTotalPages
<1>2. \A l : Paged(l) => Fits(l)
  BY <1>1 DEF Fits, LocalOK, ComputedTotalPages, Pages
<1>3. ASSUME NEW l, Numbered(l), NEW m \in Asked(l)
      PROVE  /\ Numbered(m) /\ m.number = l.number
             /\ l.number = 1 => l.number <= ComputedTotalPages(m)
             /\ m.kept = 0 => l.kept = 0
  <2>1. ASSUME NEW fetching, NEW pages \in 1..MaxPages, m = Cached(l, fetching, pages)
        PROVE  /\ Numbered(m) /\ m.number = l.number /\ ~m.failed /\ m.kept # 0
    BY <1>3, <2>1 DEF Cached
  <2>2. CASE m = [l EXCEPT !.fetching = TRUE, !.failed = FALSE, !.own = FALSE]
    BY <1>3, <2>2 DEF ComputedTotalPages
  <2> QED
    BY <1>3, <2>1, <2>2 DEF Asked, ComputedTotalPages, MaxPages
<1>4. ASSUME NEW l, Numbered(l), l.kept = 0 => l.number = 1, NEW m \in Clamped(l)
      PROVE  Paged(m)
  <2>1. PICK k : k = [l EXCEPT !.number = ComputedTotalPages(l)]
    OBVIOUS
  <2>2. CASE l.number <= ComputedTotalPages(l)
    BY <1>4, <2>2 DEF Clamped
  <2>3. CASE ~(l.number <= ComputedTotalPages(l))
    <3>1. l.kept # 0 /\ ComputedTotalPages(l) = 1
      BY <1>4, <2>3 DEF ComputedTotalPages, MaxPages
    <3>2. Numbered(k) /\ k.number = 1
      BY <1>4, <2>1, <3>1 DEF MaxPages
    <3>3. m \in Asked(k)
      BY <1>4, <2>1, <2>3, <3>1 DEF Clamped
    <3> QED
      BY <1>3, <3>2, <3>3
  <2> QED
    BY <2>2, <2>3
<1>5. ASSUME NEW l, Numbered(l), l.kept = 0 => l.number = 1, Asks(l) PROVE IInv'
  <2>1. PICK m \in Asked(l) : \E n \in Clamped(m) : Sets(n)
    BY <1>5 DEF Asks
  <2>2. Numbered(m) /\ m.number = l.number
    BY <1>3, <1>5, <2>1
  <2>3. m.kept = 0 => m.number = 1
    BY <1>3, <1>5, <2>1, <2>2
  <2> QED
    BY <1>2, <1>4, <2>1, <2>2, <2>3, SetsKeeps
<1>6. CASE FilterTransactions
  <2>1. \/ \E l : Asks(l) /\ l \in {[local EXCEPT !.number = 1], [local EXCEPT !.number = 1, !.search = 0]}
        \/ \E l : Sets(l) /\ l \in {[local EXCEPT !.search = 1 - @], [local EXCEPT !.search = 0],
                                    [local EXCEPT !.fetching = TRUE, !.failed = FALSE]}
    BY <1>6 DEF FilterTransactions
  <2>2. ASSUME NEW l, Asks(l), l \in {[local EXCEPT !.number = 1], [local EXCEPT !.number = 1, !.search = 0]}
        PROVE  IInv'
    <3>1. Numbered(l) /\ l.number = 1
      <4>1. ASSUME l = [local EXCEPT !.number = 1] PROVE Numbered(l) /\ l.number = 1
        BY <1>1, <4>1 DEF MaxPages
      <4>2. ASSUME l = [local EXCEPT !.number = 1, !.search = 0] PROVE Numbered(l) /\ l.number = 1
        BY <1>1, <4>2 DEF MaxPages
      <4> QED
        BY <2>2, <4>1, <4>2
    <3> QED
      BY <1>5, <2>2, <3>1
  <2>3. ASSUME NEW l, Sets(l), l \in {[local EXCEPT !.search = 1 - @], [local EXCEPT !.search = 0],
                                      [local EXCEPT !.fetching = TRUE, !.failed = FALSE]}
        PROVE  IInv'
    <3>1. ASSUME l = [local EXCEPT !.search = 1 - @] PROVE Paged(l)
      BY <1>1, <3>1 DEF ComputedTotalPages
    <3>2. ASSUME l = [local EXCEPT !.search = 0] PROVE Paged(l)
      BY <1>1, <3>2 DEF ComputedTotalPages
    <3>3. ASSUME l = [local EXCEPT !.fetching = TRUE, !.failed = FALSE] PROVE Paged(l)
      BY <1>1, <3>3 DEF ComputedTotalPages, MaxPages
    <3>4. Paged(l)
      BY <2>3, <3>1, <3>2, <3>3
    <3> QED
      BY <1>2, <2>3, <3>4, SetsKeeps
  <2> QED
    BY <2>1, <2>2, <2>3
<1>7. CASE TransactionsDebounced
  <2>1. PICK l : l = [local EXCEPT !.sent = local.search, !.number = 1]
    OBVIOUS
  <2>2. Numbered(l) /\ l.number = 1
    BY <1>1, <2>1 DEF MaxPages
  <2> QED
    BY <1>5, <1>7, <2>1, <2>2 DEF TransactionsDebounced
<1>8. CASE TurnTransactions
  <2>1. PICK number, l : number \in TransactionsPaging /\ l = [local EXCEPT !.number = number] /\ Asks(l)
    BY <1>8 DEF TurnTransactions
  <2>2. Numbered(l) /\ (l.kept = 0 => l.number = 1)
    BY <1>1, <2>1 DEF TransactionsPaging, ComputedTotalPages, MaxPages
  <2> QED
    BY <1>5, <2>1, <2>2
<1>9. CASE TransactionsArrive
  <2>1. PICK l : l = [local EXCEPT !.fetching = FALSE]
    OBVIOUS
  <2>2. Numbered(l) /\ (l.kept = 0 => l.number = 1)
    BY <1>1, <2>1 DEF ComputedTotalPages, MaxPages
  <2>3. PICK m, n : /\ \/ m = [l EXCEPT !.failed = ~local.own]
                       \/ \E pages \in 1..MaxPages : m = [l EXCEPT !.own = TRUE, !.kept = pages]
                    /\ n \in Clamped(m) /\ Sets(n)
    BY <1>9, <2>1 DEF TransactionsArrive
  <2>4. CASE m = [l EXCEPT !.failed = ~local.own]
    BY <1>2, <1>4, <2>2, <2>3, <2>4, SetsKeeps
  <2>5. ASSUME NEW pages \in 1..MaxPages, m = [l EXCEPT !.own = TRUE, !.kept = pages] PROVE IInv'
    <3>1. Numbered(m) /\ m.kept # 0
      BY <2>2, <2>5 DEF MaxPages
    <3> QED
      BY <1>2, <1>4, <2>3, <3>1, SetsKeeps
  <2> QED
    BY <2>3, <2>4, <2>5
<1> QED
  BY <1>6, <1>7, <1>8, <1>9

LEMMA AdminPagesKeep == ASSUME IInv, AdminPagesSettle \/ AdminPagesActions PROVE IInv'
BY InventoryActionsKeep, InventorySettlesKeep, UsersActionsKeep, UserAddedKeeps, ServerSetsRoleKeeps,
   UsersSettleKeep, TransactionsKeep
DEF AdminPagesSettle, AdminPagesActions

(* The whole *)

LEMMA InitOK == ASSUME Init PROVE IInv
<1>1. tour \in [who : STRING, signedIn : BOOLEAN, paths : SUBSET STRING,
                uses : SUBSET STRING, moves : Nat, orders : Nat]
  BY ToursAssumption DEF Init
<1>2. {"who", "paths"} \subseteq DOMAIN tour /\ tour.who \in Roles
  BY <1>1, AccountsAssumption DEF Init
<1>3. PICK special \in IF Uses("category") THEN Specials ELSE {0} :
        server = [onboarded |-> tour.signedIn, special |-> special, orders |-> <<>>, roles |-> <<0, 0>>]
  BY DEF Init
<1>4. OrdersOK(<<>>)
  <2>1. <<>> \in Seq({<<>>[i] : i \in DOMAIN <<>>}) /\ Len(<<>>) = 0
    BY EmptySeq
  <2> QED
    BY <2>1 DEF OrdersOK
<1>5. ServerOK(server) /\ server.orders = <<>>
  BY <1>3, <1>4 DEF ServerOK
<1>6. PICK path \in tour.paths : location = At(path)
  BY DEF Init
<1>7. /\ LocationFields \subseteq DOMAIN location /\ location.order = 0 /\ location.amount = 0
      /\ location = [path |-> path, order |-> 0, amount |-> 0, from |-> None] /\ location.path = path
  BY <1>6, AtIs
<1>8. LocationOK(location, server.orders) /\ location.path \in Shown
  BY <1>7 DEF LocationOK, Earned, Shown
<1>9. history = {} /\ flights = {} /\ local = Unmounted /\ memory = MemoryAtBoot
  BY DEF Init
<1>10. PlacesOK(history \cup {location}, server.orders) /\ FlightsOK(flights, server.orders, tour.who)
  BY <1>7, <1>8, <1>9, NoFlock DEF PlacesOK, Flock
<1>11. "pending" \in DOMAIN storage /\ PendingOK(storage.pending, server.orders) /\ StorageOK(storage)
  <2>1. PICK account : /\ account \in {None} \cup Roles
                       /\ storage = [token |-> account, role |-> account, draft |-> FALSE, data |-> FALSE,
                                     justOnboarded |-> FALSE, pending |-> <<>>, wash |-> None, period |-> "week"]
    BY <1>2 DEF Init
  <2> QED
    BY <2>1 DEF PendingOK, StorageOK
<1>12. LocalOK(local) /\ Placed(local, location)
  BY <1>9 DEF Unmounted, LocalOK, Placed, None, Pages
<1>13. {"user", "table"} \subseteq DOMAIN memory /\ MemoryOK(memory) /\ MembersOnly
  BY <1>9 DEF MemoryAtBoot, MemoryOK, MembersOnly, None
<1> QED
  BY <1>2, <1>5, <1>8, <1>9, <1>10, <1>11, <1>12, <1>13 DEF IInv

LEMMA NextKeeps == ASSUME IInv, [Next]_vars PROVE IInv'
<1>1. CASE UNCHANGED vars
  <2>1. UNCHANGED <<tour, location, history, local, flights, memory, storage, server>>
    BY <1>1 DEF vars
  <2> QED
    BY <2>1, AtPage, Kept
<1>2. CASE PagesMount
  BY <1>2, SessionPagesMountKeep, OrderPagesMountKeep, AccountPagesMountKeep, StaffPagesMountKeep,
     AdminPagesMountKeep
  DEF PagesMount
<1>3. CASE PagesSettle
  BY <1>3, SessionPagesSettleKeep, OrderPagesSettleKeep, AccountPagesSettleKeep, StaffPagesSettleKeep,
     AdminPagesKeep
  DEF PagesSettle
<1> QED
  BY <1>1, <1>2, <1>3, SessionKeeps, PollsKeep, StaffPollsKeep, QueryArrivesKeeps,
     SessionPagesActionsKeep, OrderPagesActionsKeep, AccountPagesActionsKeep, StaffPagesActionsKeep,
     AdminPagesKeep
  DEF Next

\* The invariant holds in every state of the tab.
THEOREM Invariant == Spec => []IInv
<1>1. Init => IInv
  BY InitOK
<1>2. IInv /\ [Next]_vars => IInv'
  BY NextKeeps
<1> QED
  BY <1>1, <1>2, PTL DEF Spec

\* A customer whose registration has not been completed never counts as signed
\* in: an answer of /auth/me names only an account that may sign in, and what
\* the exchange of a code has onboarded stays so (AuthProvider.tsx
\* internalFetchMe, Login.tsx, OTPVerify.tsx).
THEOREM OnlyMembers == Spec => []MembersOnly
<1>1. IInv => MembersOnly
  BY DEF IInv
<1> QED
  BY <1>1, Invariant, PTL

\* What is asked of the customer is the price of the order as the server has
\* it, less a reward, through every detour: another order, a reload, Back to an
\* earlier payment, a popup left open (OrderForm.tsx, Payment.tsx).
THEOREM OrderBilled == Spec => []BillsTheOrder
<1>1. IInv => BillsTheOrder
  <2> SUFFICES ASSUME IInv PROVE BillsTheOrder
    OBVIOUS
  <2>1. location.path = "/order/payment" /\ location.order # 0
          => location.amount = Price(server.orders[location.order])
    BY DEF IInv, PlacesOK, LocationOK
  <2>2. storage.pending # <<>> => storage.pending[2] = Price(server.orders[storage.pending[1]])
    BY DEF IInv, PendingOK
  <2>3. \A f \in flights : f.kind = "charge"
          => f.arg[2] = Price(server.orders[f.arg[1]]) - f.arg[3] * RewardValue
    BY DEF IInv, FlightsOK, FlightOK
  <2> QED
    BY <2>1, <2>2, <2>3 DEF BillsTheOrder
<1> QED
  BY <1>1, Invariant, PTL

\* A slot is booked for the day it was offered for, and what is reviewed has a
\* service of the chosen category, a day and a slot, however often the customer
\* goes back and changes one of them (OrderForm.tsx, DateTimePicker.tsx).
THEOREM BookedConsistently == Spec => []BookingConsistent
<1>1. IInv => BookingConsistent
  BY DEF IInv, LocalOK, FormOK, BookingConsistent
<1> QED
  BY <1>1, Invariant, PTL

\* A confirmation that shows an amount shows what has been paid for its order,
\* whichever page the customer was at when the charge was answered
\* (Payment.tsx, OrderConfirmation.tsx).
THEOREM ConfirmedIsEarned == Spec => []ConfirmationEarned
<1>1. IInv => ConfirmationEarned
  BY DEF IInv, PlacesOK, LocationOK, Earned, ConfirmationEarned
<1> QED
  BY <1>1, Invariant, PTL

\* What a list shows fits what is asked of it: the search for vehicles at rest
\* shows what the typed text finds, or nothing, and neither the wash history
\* nor the transactions are at a page that is not there, however typing,
\* answers and turned pages overlap (EnhancedVehicleManager.tsx,
\* EnhancedWashHistory.tsx, TransactionsAdmin.tsx).
THEOREM ListsFollow == Spec => []ListsFollowQueries
<1>1. IInv => ListsFollowQueries
  BY DEF IInv, LocalOK, ListsFollowQueries, ComputedTotalPages
<1> QED
  BY <1>1, Invariant, PTL

(* The query cache: what misses an acknowledged write is marked and fetched *)

Entries == [data : BOOLEAN, stale : BOOLEAN, failed : BOOLEAN, misses : {None, "cached", "overtaken"}]

\* Data that miss a write stay marked as stale until other data replace them,
\* and are fetched as long as the page shows them.
CacheOK ==
    /\ cache \in [Keys -> Entries]
    /\ \A key \in Keys : cache[key].misses = "cached" =>
         cache[key].stale /\ (key \in Watched => Fetching(key) \/ cache[key].failed)

\* No fetch of the tab is missing from F, whatever became of the other flights.
Framed(F) == \A f \in F : FlightFields \subseteq DOMAIN f
Fetched(F) ==
    /\ Framed(F)
    /\ \A f \in flights : f.kind = "query" => \E g \in F : g.kind = "query" /\ g.key = f.key

\* Nor has anything become of the fetches and the changes of the table of users.
Twins(f, g) == f.kind = g.kind /\ f.arg = g.arg /\ f.reply = g.reply /\ f.value = g.value
Spared(F) ==
    /\ \A f \in F : f.kind \in {"users", "role"} => \E g \in flights : Twins(f, g)
    /\ \A f \in flights : f.kind = "role" => \E g \in F : g.kind = "role"

Whole(F) == Fetched(F) /\ Spared(F)

Watching == {"order", "loyalty", "profile", "dashboard", "verification", "analytics", "customers", "inventory"}

\* A page that observes no key but those observed before.
Observes(l) == l.page = local.page \/ l.page \notin Watching

\* The page does not come to show another part of the table of users.
SameView(l) == l.page = "users" =>
    /\ local.page = "users"
    /\ l.number = local.number /\ l.search = local.search /\ l.sent = local.sent

Watches(l) == Observes(l) /\ SameView(l)

\* The tab has been loaded anew.
Restarted ==
    /\ cache' = EmptyCache /\ memory' = MemoryAtBoot /\ flights' = {}
    /\ local' = Unmounted /\ UNCHANGED server

\* What most steps do to the cache and to the table of users.
Undisturbed ==
    \/ Restarted
    \/ UNCHANGED cache /\ Whole(flights') /\ Watches(local')

\* What the table of users does to the cache.
Turned == UNCHANGED cache /\ Fetched(flights') /\ Observes(local')

\* What the fetches do to it that a page or a timer starts.
Fetches == \E keys :
    /\ cache' = Pending(cache, keys) /\ Whole(flights') /\ SameView(local')
    /\ \A key \in keys : Fetching(key)'
    /\ \A key \in Watched' : key \in Watched \/ Fetching(key)' \/ ~cache[key].stale

\* And what acknowledged writes do to it.
Acknowledges == \E keys, written, asked :
    /\ written \subseteq keys
    /\ cache' \in {CacheAfter(keys, written), Pending(CacheAfter(keys, written), asked)}
    /\ Whole(flights') /\ Watches(local')
    /\ \A key \in Watched' \cap (keys \cup asked) : Fetching(key)'

LEMMA WatchedOf ==
  ASSUME Observes(local')
  PROVE  Watched' \subseteq Watched
BY DEF Observes, Watching, Watched

LEMMA FetchesGoOn ==
  ASSUME Fetched(flights'), NEW key, Fetching(key)
  PROVE  Fetching(key)'
BY DEF Fetched, Fetching, FetchOf

LEMMA PendingAt ==
  ASSUME NEW C \in [Keys -> Entries], NEW keys
  PROVE  /\ Pending(C, keys) \in [Keys -> Entries]
         /\ \A key \in Keys :
              /\ Pending(C, keys)[key].misses = C[key].misses
              /\ Pending(C, keys)[key].stale = C[key].stale
              /\ key \notin keys => Pending(C, keys)[key].failed = C[key].failed
<1>1. ASSUME NEW key \in Keys
      PROVE  /\ Pending(C, keys)[key] \in Entries
             /\ Pending(C, keys)[key].misses = C[key].misses
             /\ Pending(C, keys)[key].stale = C[key].stale
             /\ key \notin keys => Pending(C, keys)[key].failed = C[key].failed
  <2>1. C[key] \in Entries
    OBVIOUS
  <2>2. Pending(C, keys)[key] = IF key \in keys /\ ~C[key].data
                                  THEN [C[key] EXCEPT !.failed = FALSE] ELSE C[key]
    BY DEF Pending
  <2> QED
    BY <2>1, <2>2 DEF Entries
<1>2. Pending(C, keys) \in [Keys -> Entries]
  BY <1>1 DEF Pending
<1> QED
  BY <1>1, <1>2

LEMMA WrittenAt ==
  ASSUME CacheOK, NEW keys, NEW written, written \subseteq keys
  PROVE  /\ CacheAfter(keys, written) \in [Keys -> Entries]
         /\ \A key \in Keys :
              /\ CacheAfter(keys, written)[key].misses = "cached"
                   => CacheAfter(keys, written)[key].stale /\ (key \notin keys => cache[key].misses = "cached")
              /\ key \notin keys => CacheAfter(keys, written)[key].failed = cache[key].failed
<1> DEFINE M == Missing(written)
           S == Stale(keys, M)
<1>1. ASSUME NEW key \in Keys
      PROVE  /\ M[key] \in Entries
             /\ M[key].misses = "cached" => cache[key].misses = "cached" \/ (key \in written /\ cache[key].data)
             /\ M[key].data = cache[key].data /\ M[key].stale = cache[key].stale
             /\ M[key].failed = cache[key].failed
  <2>1. cache[key] \in Entries
    BY DEF CacheOK
  <2>2. M[key] = IF key \in written /\ cache[key].data
                   THEN [cache[key] EXCEPT !.misses = "cached"] ELSE cache[key]
    BY DEF Missing, Has
  <2> QED
    BY <2>1, <2>2 DEF Entries
<1>2. ASSUME NEW key \in Keys
      PROVE  /\ S[key] \in Entries
             /\ S[key].misses = "cached" => S[key].stale /\ (key \notin keys => cache[key].misses = "cached")
             /\ key \notin keys => S[key].failed = cache[key].failed
  <2>1. /\ cache[key].misses = "cached" => cache[key].stale
        /\ S[key] = IF key \in keys THEN [M[key] EXCEPT !.stale = @ \/ M[key].data] ELSE M[key]
    BY DEF CacheOK, Stale
  <2> HIDE DEF M, S
  <2>2. CASE key \in keys
    <3>1. S[key] \in Entries /\ S[key].misses = M[key].misses /\ S[key].stale = (M[key].stale \/ M[key].data)
      BY <1>1, <2>1, <2>2 DEF Entries
    <3> QED
      BY <1>1, <2>1, <2>2, <3>1
  <2>3. CASE key \notin keys
    BY <1>1, <2>1, <2>3
  <2> QED
    BY <2>2, <2>3
<1>3. S \in [Keys -> Entries]
  BY <1>2 DEF Stale
<1>4. CacheAfter(keys, written) = Pending(S, keys \cap Watched)
  BY DEF CacheAfter
<1> HIDE DEF M, S
<1> QED
  BY <1>2, <1>3, <1>4, PendingAt

LEMMA CacheSteps ==
  ASSUME CacheOK, Undisturbed \/ Fetches \/ Acknowledges \/ Turned
  PROVE  CacheOK'
<1>1. CASE cache' = EmptyCache
  BY <1>1 DEF CacheOK, EmptyCache, Entries, None
<1>2. CASE Turned
  BY <1>2, WatchedOf, FetchesGoOn DEF CacheOK, Turned
<1>3. CASE Fetches
  <2>1. PICK keys :
          /\ cache' = Pending(cache, keys) /\ Fetched(flights')
          /\ \A key \in keys : Fetching(key)'
          /\ \A key \in Watched' : key \in Watched \/ Fetching(key)' \/ ~cache[key].stale
    BY <1>3 DEF Fetches, Whole
  <2> QED
    BY <2>1, PendingAt, FetchesGoOn DEF CacheOK
<1>4. CASE Acknowledges
  <2>1. PICK keys, written, asked :
          /\ written \subseteq keys
          /\ cache' \in {CacheAfter(keys, written), Pending(CacheAfter(keys, written), asked)}
          /\ Fetched(flights') /\ Observes(local')
          /\ \A key \in Watched' \cap (keys \cup asked) : Fetching(key)'
    BY <1>4 DEF Acknowledges, Whole, Watches, Observes, SameView
  <2>2. PICK C : C = CacheAfter(keys, written)
    OBVIOUS
  <2>3. /\ C \in [Keys -> Entries] /\ cache' \in [Keys -> Entries]
        /\ \A key \in Keys :
             /\ cache'[key].misses = C[key].misses /\ cache'[key].stale = C[key].stale
             /\ key \notin asked => cache'[key].failed = C[key].failed
    BY <2>1, <2>2, WrittenAt, PendingAt
  <2>4. \A key \in Keys :
             /\ C[key].misses = "cached" => C[key].stale /\ (key \notin keys => cache[key].misses = "cached")
             /\ key \notin keys => C[key].failed = cache[key].failed
    BY <2>1, <2>2, WrittenAt
  <2>5. ASSUME NEW key \in Keys, cache'[key].misses = "cached", key \in Watched'
        PROVE  Fetching(key)' \/ cache'[key].failed
    <3>1. key \in Watched
      BY <2>1, <2>5, WatchedOf
    <3>2. CASE key \in keys \cup asked
      BY <2>1, <2>5, <3>2
    <3>3. CASE key \notin keys \cup asked
      BY <2>1, <2>3, <2>4, <2>5, <3>1, <3>3, FetchesGoOn DEF CacheOK
    <3> QED
      BY <3>2, <3>3
  <2> QED
    BY <2>3, <2>4, <2>5 DEF CacheOK
<1> QED
  BY <1>1, <1>2, <1>3, <1>4 DEF Undisturbed, Restarted, Turned, Whole, Watches, Observes, SameView

LEMMA Arrives ==
  ASSUME CacheOK, NEW key \in Keys, QueryArrives(key)
  PROVE  CacheOK'
<1>1. PICK f \in FetchOf(key) :
        /\ flights' = flights \ {f}
        /\ \/ cache' = [cache EXCEPT ![key].failed = TRUE]
           \/ \E misses \in {None, "overtaken"} :
                cache' = [cache EXCEPT ![key] = [data |-> TRUE, stale |-> FALSE,
                                                 failed |-> FALSE, misses |-> misses]]
  BY DEF QueryArrives
<1>2. \A k : k # key /\ Fetching(k) => Fetching(k)'
  BY <1>1 DEF Fetching, FetchOf
<1>3. Watched' = Watched
  BY DEF QueryArrives, Watched
<1>4. cache \in [Keys -> Entries]
  BY DEF CacheOK
<1>5. CASE cache' = [cache EXCEPT ![key].failed = TRUE]
  <2>1. /\ cache' \in [Keys -> Entries] /\ cache'[key].failed
        /\ \A k \in Keys : cache'[k].misses = cache[k].misses /\ cache'[k].stale = cache[k].stale
        /\ \A k \in Keys \ {key} : cache'[k] = cache[k]
    BY <1>4, <1>5 DEF Entries
  <2> QED
    BY <1>2, <1>3, <2>1 DEF CacheOK
<1>6. ASSUME NEW misses \in {None, "overtaken"},
             cache' = [cache EXCEPT ![key] = [data |-> TRUE, stale |-> FALSE,
                                              failed |-> FALSE, misses |-> misses]]
      PROVE  CacheOK'
  <2>1. /\ cache' \in [Keys -> Entries] /\ cache'[key].misses # "cached"
        /\ \A k \in Keys \ {key} : cache'[k] = cache[k]
    BY <1>4, <1>6 DEF Entries, None
  <2> QED
    BY <1>2, <1>3, <2>1 DEF CacheOK
<1> QED
  BY <1>1, <1>5, <1>6

(* Fetches outlive what becomes of other flights *)

LEMMA FramedParts ==
  ASSUME NEW F, NEW G, Framed(F), Framed(G)
  PROVE  Framed(F \cup G) /\ \A S : Framed(F \ S)
BY DEF Framed

LEMMA FramedNew ==
  /\ \A kind, key, arg : Framed({Flight(kind, key, arg)})
  /\ \A g, kind, arg : Framed({Then(g, kind, arg)})
  /\ \A keys : Framed({Fetch(key) : key \in keys})
  /\ Framed({})
BY FlightIs, ThenIs DEF Framed, Fetch, FlightFields

\* Flights that belong to neither.
Others(F) == Framed(F) /\ \A f \in F : f.kind \notin {"users", "role"}

LEMMA OthersNew ==
  /\ \A kind, key, arg : kind \notin {"users", "role"} => Others({Flight(kind, key, arg)})
  /\ \A g, kind, arg : kind \notin {"users", "role"} => Others({Then(g, kind, arg)})
  /\ \A keys : Others({Fetch(key) : key \in keys})
  /\ Others({})
BY FlightIs, ThenIs DEF Others, Framed, Fetch, FlightFields

LEMMA WholeNow == ASSUME IInv PROVE Whole(flights)
BY DEF IInv, FlightsOK, Whole, Fetched, Framed, Spared, Twins

LEMMA FetchedRest ==
  ASSUME NEW F, Fetched(F), NEW f, f.kind # "query"
  PROVE  Fetched(F \ {f})
BY DEF Fetched, Framed

LEMMA WholeRest ==
  ASSUME NEW F, Whole(F), NEW f, f.kind \notin {"query", "users", "role"}
  PROVE  Whole(F \ {f})
<1>1. Spared(F \ {f})
  BY DEF Whole, Spared
<1> QED
  BY <1>1, FetchedRest DEF Whole

LEMMA FetchedMore ==
  ASSUME NEW F, Fetched(F), NEW G, Framed(G)
  PROVE  Fetched(F \cup G)
BY DEF Fetched, Framed

LEMMA WholeMore ==
  ASSUME NEW F, Whole(F), NEW G, Others(G)
  PROVE  Whole(F \cup G)
<1>1. Spared(F \cup G)
  BY DEF Whole, Others, Spared
<1> QED
  BY <1>1, FetchedMore DEF Whole, Others

LEMMA WholeGoesOn ==
  ASSUME IInv, NEW f, f.kind \notin {"query", "users", "role"}, NEW kind, kind \notin {"users", "role"}, NEW arg
  PROVE  Whole(GoesOn(f, kind, arg))
BY WholeNow, WholeRest, WholeMore, OthersNew DEF GoesOn

LEMMA WholeAnswered ==
  ASSUME IInv, NEW f \in flights, f.kind \notin {"query", "users", "role"}, NEW reply, NEW value
  PROVE  Whole(Answered(f, reply, value))
<1>1. PICK g : g = [f EXCEPT !.reply = reply, !.value = value]
  OBVIOUS
<1>2. Others({g})
  BY <1>1, WholeNow DEF Whole, Fetched, Framed, FlightFields, Others
<1>3. Whole((flights \ {f}) \cup {g})
  BY <1>2, WholeNow, WholeRest, WholeMore
<1> QED
  BY <1>1, <1>3 DEF Answered

\* Flights that differ in nothing that makes them a fetch.
Alike(f, g) ==
    /\ FlightFields \subseteq DOMAIN f
    /\ f.kind = g.kind /\ f.key = g.key

LEMMA FetchedAlike ==
  ASSUME NEW F, Fetched(F), NEW G,
         \A f \in G : \E g \in F : Alike(f, g), \A g \in F : \E f \in G : Alike(f, g)
  PROVE  Fetched(G)
BY DEF Fetched, Framed, Alike

\* Nor in anything the table of users makes of them.
Same(f, g) == Alike(f, g) /\ (g.kind \in {"users", "role"} => Twins(f, g))

LEMMA WholeAlike ==
  ASSUME NEW F, Whole(F), NEW G,
         \A f \in G : \E g \in F : Same(f, g), \A g \in F : \E f \in G : Same(f, g)
  PROVE  Whole(G)
<1>1. Fetched(G)
  BY FetchedAlike DEF Whole, Same
<1>2. Spared(G)
  <2>1. ASSUME NEW f \in G, f.kind \in {"users", "role"} PROVE \E g \in flights : Twins(f, g)
    <3>1. PICK g \in F : Same(f, g)
      OBVIOUS
    <3>2. Twins(f, g) /\ g.kind \in {"users", "role"}
      BY <2>1, <3>1 DEF Same, Alike
    <3> QED
      BY <3>2 DEF Whole, Spared, Twins
  <2>2. ASSUME NEW f \in flights, f.kind = "role" PROVE \E g \in G : g.kind = "role"
    <3>1. PICK g \in F : g.kind = "role"
      BY <2>2 DEF Whole, Spared
    <3> QED
      BY <3>1 DEF Same, Alike
  <2> QED
    BY <2>1, <2>2 DEF Spared
<1> QED
  BY <1>1, <1>2 DEF Whole

LEMMA WholeOrphaned == ASSUME NEW F, Whole(F) PROVE Whole(Orphaned(F))
<1> DEFINE G == {g \in F : g.kind \notin Cleared}
<1>1. Whole(G)
  BY DEF Whole, Fetched, Spared, Framed, Cleared
<1>2. \A g \in G : Same([g EXCEPT !.mine = FALSE], g)
  BY <1>1 DEF Same, Twins, Alike, Whole, Fetched, Framed, FlightFields
<1>3. Orphaned(F) = {[g EXCEPT !.mine = FALSE] : g \in G}
  BY DEF Orphaned
<1>4. /\ \A f \in Orphaned(F) : \E g \in G : Same(f, g)
      /\ \A g \in G : \E f \in Orphaned(F) : Same(f, g)
  <2> HIDE DEF G
  <2>1. \A g \in G : [g EXCEPT !.mine = FALSE] \in Orphaned(F)
    BY <1>3
  <2>2. \A f \in Orphaned(F) : \E g \in G : f = [g EXCEPT !.mine = FALSE]
    BY <1>3
  <2> QED
    BY <1>2, <2>1, <2>2
<1> QED
  BY <1>1, <1>4, WholeAlike

LEMMA WholeOvertaken == ASSUME NEW F, Whole(F), NEW keys PROVE Whole(Overtaken(keys, F))
<1> DEFINE H(g) == IF g.kind = "query" /\ g.key \in keys THEN [g EXCEPT !.value = 1] ELSE g
<1>1. \A g \in F : Same(H(g), g)
  BY DEF Same, Twins, Alike, Whole, Fetched, Framed, FlightFields
<1>2. Overtaken(keys, F) = {H(g) : g \in F}
  BY DEF Overtaken
<1> HIDE DEF H
<1> QED
  BY <1>1, <1>2, WholeAlike

\* The observed keys among those that are to be fetched again are being fetched.
LEMMA WholeRefetched ==
  ASSUME NEW F, Whole(F), NEW keys
  PROVE  /\ Whole(Refetched(keys, F))
         /\ \A key \in keys \cap Watched : \E f \in Refetched(keys, F) : f.kind = "query" /\ f.key = key
<1> DEFINE again == keys \cap Watched
           kept == {f \in F : f.kind = "query" /\ f.key \in again /\ ~Has(f.key)}
           new == {Fetch(key) : key \in again \ {f.key : f \in kept}}
           others == {f \in F : f.kind # "query" \/ f.key \notin again}
<1>1. Refetched(keys, F) = others \cup kept \cup new
  BY DEF Refetched
<1>2. Framed(others \cup kept)
  BY DEF Whole, Fetched, Framed
<1>3. Others(new)
  BY OthersNew
<1>4. \A key \in again : \E f \in kept \cup new : f.kind = "query" /\ f.key = key
  <2>1. ASSUME NEW key \in again, key \notin {f.key : f \in kept}
        PROVE  Fetch(key) \in new /\ Fetch(key).kind = "query" /\ Fetch(key).key = key
    BY <2>1 DEF Fetch
  <2> QED
    BY <2>1
<1>5. \A f \in F : f.kind = "query" /\ f.key \notin again => f \in others
  OBVIOUS
<1>6. Framed(Refetched(keys, F))
  BY <1>1, <1>2, <1>3, FramedParts DEF Others
<1>8. Spared(Refetched(keys, F))
  <2>1. \A f \in others \cup kept : f \in F
    OBVIOUS
  <2>2. \A f \in F : f.kind = "role" => f \in others
    OBVIOUS
  <2> HIDE DEF others, kept, new
  <2> QED
    BY <1>1, <1>3, <2>1, <2>2 DEF Whole, Spared, Others
<1> HIDE DEF others, kept, new
<1>7. \A f \in flights : f.kind = "query" => \E g \in Refetched(keys, F) : g.kind = "query" /\ g.key = f.key
  BY <1>1, <1>4, <1>5 DEF Whole, Fetched
<1> QED
  BY <1>1, <1>4, <1>6, <1>7, <1>8 DEF Whole, Fetched

LEMMA WholeAfter ==
  ASSUME NEW F, Whole(F), NEW keys, NEW written
  PROVE  /\ Whole(FlightsAfter(keys, written, F))
         /\ \A key \in keys \cap Watched :
              \E f \in FlightsAfter(keys, written, F) : f.kind = "query" /\ f.key = key
BY WholeOvertaken, WholeRefetched DEF FlightsAfter

LEMMA WholeRepolled == ASSUME NEW F, Whole(F) PROVE Whole(Repolled(F))
<1>1. PICK chain, old, G :
        /\ chain = {f \in F : f.kind = "poll" /\ f.mine}
        /\ old = {[f EXCEPT !.kind = "pollOld", !.n = FreeNumber({g \in F : g.kind = "pollOld"})] : f \in chain}
        /\ G = F \ (chain \cup {f \in F : f.kind = "pollTimer"})
  OBVIOUS
<1>2. Repolled(F) \in {F, G \cup old \cup {Flight("poll", None, <<>>)}}
  BY <1>1 DEF Repolled
<1>3. Others(old)
  <2> SUFFICES ASSUME NEW f \in old
               PROVE  FlightFields \subseteq DOMAIN f /\ f.kind = "pollOld"
    BY DEF Others, Framed
  <2>1. PICK g \in chain : f = [g EXCEPT !.kind = "pollOld",
                                         !.n = FreeNumber({h \in F : h.kind = "pollOld"})]
    BY <1>1
  <2>2. FlightFields \subseteq DOMAIN g
    BY <1>1 DEF Whole, Fetched, Framed
  <2> QED
    BY <2>1, <2>2 DEF FlightFields
<1>4. Whole(G)
  BY <1>1 DEF Whole, Fetched, Framed, Spared
<1> QED
  BY <1>2, <1>3, <1>4, WholeMore, OthersNew

(* What the shapes of handlers leave undisturbed *)

\* The page, the table and the roles have their names: changing other fields
\* keeps them.
LEMMA NamedPage ==
  ASSUME IInv
  PROVE  /\ "page" \in DOMAIN local
         /\ local.page = "users" => {"number", "search", "sent"} \subseteq DOMAIN local
         /\ "table" \in DOMAIN memory /\ "roles" \in DOMAIN server
BY DEF IInv, LocalOK, TableFields, ServerOK

LEMMA SetsCalm ==
  ASSUME IInv, NEW l, Sets(l), Watches(l)
  PROVE  Undisturbed
BY WholeNow DEF Sets, Undisturbed

LEMMA SendsCalm ==
  ASSUME IInv, NEW l, NEW F, SetsAndSends(l, F), Watches(l), Others(F)
  PROVE  Undisturbed
BY WholeNow, WholeMore DEF SetsAndSends, Undisturbed

LEMMA HearsCalm ==
  ASSUME IInv, NEW f, f.kind \notin {"query", "users", "role"}, NEW l, Hears(f, l), Watches(l)
  PROVE  Undisturbed
BY WholeNow, WholeRest DEF Hears, Undisturbed, Watches, Observes, SameView

LEMMA AnswersCalm ==
  ASSUME IInv, NEW f \in flights, f.kind \notin {"query", "users", "role"}, NEW reply, NEW value, Answers(f, reply, value)
  PROVE  Undisturbed
BY WholeAnswered DEF Answers, Undisturbed, Watches, Observes, SameView

LEMMA NavigatesCalm ==
  ASSUME NEW there, NEW F, NavigateWith(there, F), Whole(F), UNCHANGED cache
  PROVE  Undisturbed
BY WholeOrphaned DEF NavigateWith, Undisturbed, Watches, Observes, SameView, Unmounted, None, Watching

LEMMA NavigateCalm ==
  ASSUME NEW path, NEW F, Navigate(path, F), Whole(F), UNCHANGED cache
  PROVE  Undisturbed
BY NavigatesCalm DEF Navigate

LEMMA ReloadsCalm == ASSUME NEW there, Reloads(there) PROVE Undisturbed
BY DEF Reloads, Undisturbed, Restarted

LEMMA ForcedCalm == ASSUME ForcedOut PROVE Undisturbed
BY ReloadsCalm DEF ForcedOut

LEMMA HearsMeCalm ==
  ASSUME NEW f, NEW reply, NEW there, NEW before, HearsMe(f, reply, there, before), Whole(before)
  PROVE  Undisturbed
<1>1. CASE reply = "rejected"
  BY <1>1, ForcedCalm DEF HearsMe
<1>2. CASE reply # "rejected"
  <2>1. PICK F : F = IF reply = "ok" THEN Repolled(before) ELSE before
    OBVIOUS
  <2>2. Whole(F)
    BY <2>1, WholeRepolled
  <2>3. /\ UNCHANGED cache
        /\ \/ \E to : NavigateWith(to, F)
           \/ flights' = F /\ UNCHANGED local
    BY <1>2, <2>1 DEF HearsMe
  <2> QED
    BY <2>2, <2>3, NavigatesCalm DEF Undisturbed, Watches, Observes, SameView
<1> QED
  BY <1>1, <1>2

\* The page keeps what it shows while the chain of awaits goes on.
LEMMA FliesCalm ==
  ASSUME UNCHANGED cache, Whole(flights'), Watches(local')
  PROVE  Undisturbed
BY DEF Undisturbed

LEMMA SessionCalm == ASSUME IInv, SessionSettles \/ Moves PROVE Undisturbed
<1>1. CASE Boot
  BY <1>1, WholeNow, WholeMore, OthersNew DEF Boot, Undisturbed, Watches, Observes, SameView
<1>2. CASE BootEnds
  BY <1>2, WholeNow, WholeRest, HearsMeCalm DEF BootEnds, Waiting
<1>3. CASE RefreshEnds
  BY <1>3, WholeNow, WholeRest, HearsMeCalm DEF RefreshEnds, Waiting
<1>4. CASE GuardActs
  BY <1>4, WholeNow, WholeOrphaned, NavigateCalm
  DEF GuardActs, Undisturbed, Watches, Observes, SameView, Unmounted, None, Watching
<1>5. CASE Moves
  BY <1>5, WholeNow, ReloadsCalm, NavigateCalm, NavigatesCalm, FliesCalm
  DEF Moves, FollowLink, GoBack, Reload, NavLogout, SignsOut, Watches, Observes, SameView
<1> QED
  BY <1>1, <1>2, <1>3, <1>4, <1>5 DEF SessionSettles

LEMMA SessionPagesCalm ==
  ASSUME IInv, SessionPagesMount \/ SessionPagesSettle \/ SessionPagesActions
  PROVE  Undisturbed
<1>1. CASE SessionPagesMount
  <2>1. CASE OtpMount
    BY <2>1, WholeNow, NavigatesCalm DEF OtpMount, OtpPage, Undisturbed, Watches, Observes, SameView, Watching
  <2>2. CASE ~OtpMount
    BY <1>1, <2>2, SetsCalm
    DEF SessionPagesMount, LoginMount, SignupMount, OnboardingMount, ForgotMount, ResetMount,
       LoginPage, OnboardingPage, PasswordPage, Watches, Observes, SameView, Watching
  <2> QED
    BY <2>1, <2>2
<1>2. CASE SessionPagesActions
  <2>1. CASE OnboardingType
    BY <2>1, WholeNow, NamedPage DEF OnboardingType, Undisturbed, Watches, Observes, SameView
  <2>2. CASE GooglePopupEnds
    BY <2>2, HearsCalm, WholeGoesOn, NamedPage, FliesCalm DEF GooglePopupEnds, Watches, Observes, SameView, Waiting
  <2>3. CASE OtpBack
    BY <2>3, NavigatesCalm, WholeNow DEF OtpBack
  <2>4. CASE ~(OnboardingType \/ GooglePopupEnds \/ OtpBack)
    BY <1>2, <2>4, SetsCalm, SendsCalm, OthersNew, NamedPage
    DEF SessionPagesActions, LoginSubmit, GoogleStarts, SignupSubmit,
       ProfileSubmit, PhoneSubmit, OtpType, OtpResend, OtpSubmit, ForgotSubmit, ResetSubmit, Watches, Observes, SameView
  <2> QED
    BY <2>1, <2>2, <2>3, <2>4
<1>3. CASE SessionPagesSettle
  <2>1. CASE LoginEnds
    BY <2>1, WholeNow, WholeRest, HearsCalm, ForcedCalm, NavigateCalm, NavigatesCalm, NamedPage
    DEF LoginEnds, Waiting, Watches, Observes, SameView
  <2>2. CASE SocialEnds
    <3>1. PICK f \in Waiting("social"), reply \in {"ok", "profile", "phone", "unauthorized", "failed"} :
            \/ ForcedOut \/ Hears(f, [local EXCEPT !.failure = "social"])
            \/ UNCHANGED cache /\ \E there : NavigateWith(there, flights \ {f})
            \/ flights' = GoesOn(f, "token", <<0>>) /\ UNCHANGED <<local, cache>>
      BY <2>2 DEF SocialEnds
    <3>2. f.kind = "social"
      BY DEF Waiting
    <3> QED
      BY <3>1, <3>2, WholeNow, WholeRest, WholeGoesOn, HearsCalm, ForcedCalm, FliesCalm,
         NavigatesCalm, NamedPage
      DEF Watches, Observes, SameView
  <2>3. CASE SignupEnds \/ SmsEnds
    BY <2>3, WholeNow, WholeRest, HearsCalm, NavigatesCalm, NamedPage
    DEF SignupEnds, SmsEnds, Waiting, Watches, Observes, SameView
  <2>4. CASE RecaptchaStarts \/ OtpTimer \/ ForgotEnds
    BY <2>4, SetsCalm, SendsCalm, OthersNew, NamedPage DEF RecaptchaStarts, OtpTimer, ForgotEnds, Watches, Observes, SameView
  <2>5. CASE RecaptchaEnds
    BY <2>5, WholeNow, WholeRest, HearsCalm, FliesCalm, NamedPage DEF RecaptchaEnds, Waiting, Watches, Observes, SameView
  <2>6. CASE ProfileSaved \/ ResendEnds
    BY <2>6, HearsCalm, ForcedCalm, NamedPage DEF ProfileSaved, ResendEnds, Waiting, Watches, Observes, SameView
  <2>7. CASE ConfirmEnds
    BY <2>7, HearsCalm, WholeGoesOn, FliesCalm, NamedPage DEF ConfirmEnds, OtpFails, Waiting, Watches, Observes, SameView
  <2>8. CASE ExchangeEnds
    <3>1. PICK f \in Waiting("exchange") :
            /\ UNCHANGED cache
            /\ flights' = flights \ {f} \/ \E kind \in {"token", "exchange"} : \E arg : flights' = GoesOn(f, kind, arg)
            /\ UNCHANGED local \/ local' = [local EXCEPT !.loading = FALSE, !.failure = "otp"]
      BY <2>8 DEF ExchangeEnds
    <3>2. f.kind = "exchange"
      BY DEF Waiting
    <3>3. Whole(flights')
      BY <3>1, <3>2, WholeNow, WholeRest, WholeGoesOn
    <3>4. Watches(local')
      <4>1. CASE UNCHANGED local
        BY <4>1 DEF Watches, Observes, SameView
      <4>2. CASE local' = [local EXCEPT !.loading = FALSE, !.failure = "otp"]
        BY <4>2, NamedPage DEF Watches, Observes, SameView
      <4> QED
        BY <3>1, <4>1, <4>2
    <3> QED
      BY <3>1, <3>3, <3>4, FliesCalm
  <2>9. CASE TokenEnds
    <3>1. PICK f \in Waiting("token"), reply \in {"ok", "forbidden", "failed", "rejected"} :
            \/ HearsMe(f, reply,
                       IF reply # "ok" THEN Nowhere
                       ELSE IF f.arg = <<0>> THEN At("/")
                       ELSE IF HomeOf(f.key) # "/" THEN At(HomeOf(f.key)) ELSE Nowhere,
                       IF reply = "ok" /\ f.arg = <<1>>
                         THEN GoesOn(f, "register", <<>>) ELSE flights \ {f})
            \/ /\ UNCHANGED cache /\ flights' = flights \ {f}
               /\ local' = IF f.arg = <<1>> THEN [local EXCEPT !.loading = FALSE, !.failure = "otp"]
                           ELSE [local EXCEPT !.failure = "social"]
      BY <2>9 DEF TokenEnds
    <3>2. f.kind = "token"
      BY DEF Waiting
    <3>3. PICK F : F = IF reply = "ok" /\ f.arg = <<1>> THEN GoesOn(f, "register", <<>>) ELSE flights \ {f}
      OBVIOUS
    <3>4. Whole(F)
      BY <3>2, <3>3, WholeNow, WholeRest, WholeGoesOn
    <3>5. CASE \E there : HearsMe(f, reply, there, F)
      BY <3>4, <3>5, HearsMeCalm
    <3>6. CASE UNCHANGED cache /\ flights' = flights \ {f} /\ Watches(local')
      BY <3>2, <3>6, WholeNow, WholeRest, FliesCalm
    <3> QED
      BY <3>1, <3>3, <3>5, <3>6, NamedPage DEF Watches, Observes, SameView
  <2>10. CASE RegisterEnds \/ ResetTimer
    BY <2>10, WholeNow, WholeRest, NavigateCalm DEF RegisterEnds, ResetTimer, Waiting
  <2>11. CASE ResetEnds
    BY <2>11, HearsCalm, WholeGoesOn, FliesCalm, NamedPage DEF ResetEnds, Waiting, Watches, Observes, SameView
  <2> QED
    BY <1>3, <2>1, <2>2, <2>3, <2>4, <2>5, <2>6, <2>7, <2>8, <2>9, <2>10, <2>11 DEF SessionPagesSettle
<1> QED
  BY <1>1, <1>2, <1>3

LEMMA OrderPagesCalm ==
  ASSUME IInv, OrderPagesSettle \/ OrderPagesActions
  PROVE  Undisturbed
<1>1. CASE OrderPagesSettle
  <2>1. CASE CatalogShows
    BY <2>1, SetsCalm, NamedPage DEF CatalogShows, Defaults, Watches, Observes, SameView
  <2>2. CASE AvailabilityArrives \/ SdkTimeout \/ EligibilityArrives \/ RewardsArrive \/ ApplyEnds
    BY <2>2, SetsCalm, NamedPage
    DEF AvailabilityArrives, SdkTimeout, EligibilityArrives, RewardsArrive, ApplyEnds, Watches, Observes, SameView
  <2>3. CASE ServerCreates \/ ServerCharges
    <3>1. PICK f \in Waiting("create") \cup Waiting("charge") :
            \/ \E reply, value : flights' = Answered(f, reply, value) /\ UNCHANGED <<local, cache>>
            \/ Answers(f, "failed", 0)
      BY <2>3 DEF ServerCreates, ServerCharges
    <3>2. f \in flights /\ f.kind \notin {"query", "users", "role"}
      BY DEF Waiting
    <3> QED
      BY <3>1, <3>2, WholeAnswered, AnswersCalm, FliesCalm DEF Watches, Observes, SameView
  <2>4. CASE SubmitEnds
    BY <2>4, WholeNow, WholeRest, HearsCalm, NavigatesCalm, NamedPage DEF SubmitEnds, Arriving, Watches, Observes, SameView
  <2>5. CASE PaymentOtherOrder
    BY <2>5, WholeNow, FliesCalm, NamedPage DEF PaymentOtherOrder, OrderEffects, Watches, Observes, SameView
  <2>6. CASE RedeemFreeEnds \/ LeaveTimer
    BY <2>6, WholeNow, WholeRest, NavigateCalm, NavigatesCalm DEF RedeemFreeEnds, LeaveTimer, Waiting
  <2>7. CASE ChargeEnds \/ RedeemEnds \/ QrEnds
    BY <2>7, WholeGoesOn, HearsCalm, FliesCalm, NamedPage
    DEF ChargeEnds, RedeemEnds, QrEnds, Waiting, Arriving, Watches, Observes, SameView
  <2>8. CASE PayEnds
    BY <2>8, WholeNow, WholeRest, HearsMeCalm DEF PayEnds, Waiting
  <2>9. CASE LinkArrives
    BY <2>9, WholeNow, SendsCalm, OthersNew, NavigateCalm, NamedPage DEF LinkArrives, Watches, Observes, SameView
  <2>10. CASE VerifyArrives
    BY <2>10, WholeGoesOn, HearsCalm, FliesCalm, NamedPage DEF VerifyArrives, Waiting, Watches, Observes, SameView
  <2> QED
    BY <1>1, <2>1, <2>2, <2>3, <2>4, <2>5, <2>6, <2>7, <2>8, <2>9, <2>10 DEF OrderPagesSettle
<1>2. CASE OrderPagesActions
  <2>1. CASE ChooseService
    <3>1. \A offer \in StepOneOffers \cup ServiceCardOffers :
            offer[1] \in {"category", "service", "quantity", "extra", "next"}
      BY DEF StepOneOffers, ServiceCardOffers
    <3> QED
      BY <2>1, <3>1, SetsCalm, NamedPage DEF ChooseService, Defaults, Watches, Observes, SameView
  <2>2. CASE ChooseTime
    <3>1. \A offer \in StepTwoOffers(local) : offer[1] \in {"month", "day", "slot", "prev", "next"}
      BY DEF StepTwoOffers, PickerShows
    <3> QED
      BY <2>2, <3>1, SetsCalm, NamedPage DEF ChooseTime, OnDateTimeChange, Watches, Observes, SameView
  <2>3. CASE ReviewBack \/ HandleApplyReward \/ CalendarOpens \/ CalendarCloses
    BY <2>3, SetsCalm, NamedPage DEF ReviewBack, HandleApplyReward, CalendarOpens, CalendarCloses, Watches, Observes, SameView
  <2>4. CASE HandleSubmit \/ HandlePay
    BY <2>4, SendsCalm, OthersNew, NamedPage DEF HandleSubmit, HandlePay, Watches, Observes, SameView
  <2>5. CASE SdkArrives
    BY <2>5, WholeNow, FliesCalm, NamedPage DEF SdkArrives, Watches, Observes, SameView
  <2>6. CASE HandlePayFree
    BY <2>6, WholeNow, SendsCalm, OthersNew, NavigatesCalm DEF HandlePayFree, Watches, Observes, SameView
  <2>7. CASE PopupEnds
    BY <2>7, WholeGoesOn, HearsCalm, FliesCalm, NamedPage DEF PopupEnds, Waiting, Watches, Observes, SameView
  <2>8. CASE OpenLink
    BY <2>8, ReloadsCalm DEF OpenLink
  <2>9. CASE WashDone
    BY <2>9, WholeNow, FliesCalm DEF WashDone, Watches, Observes, SameView
  <2>10. CASE ConfirmationLinks
    BY <2>10, WholeNow, NavigateCalm DEF ConfirmationLinks
  <2> QED
    BY <1>2, <2>1, <2>2, <2>3, <2>4, <2>5, <2>6, <2>7, <2>8, <2>9, <2>10 DEF OrderPagesActions
<1> QED
  BY <1>1, <1>2

(* The steps that ask or write *)

\* A fetch that F holds is under way when F are the flights.
LEMMA FetchingIn ==
  ASSUME NEW key, \E f \in flights' : f.kind = "query" /\ f.key = key
  PROVE  Fetching(key)'
BY DEF Fetching, FetchOf

\* A page mounts and asks for all it observes.
LEMMA MountFetches ==
  ASSUME IInv, NEW keys, MountAsks(keys, flights), Watched' \subseteq keys, SameView(local')
  PROVE  Fetches
<1>1. PICK aged, due, asked :
        /\ due = {key \in keys : ~Has(key) \/ cache[key].stale \/ key \in aged}
        /\ asked = {key \in due : ~Fetching(key)}
        /\ flights' = flights \cup {Fetch(key) : key \in asked}
        /\ cache' = Pending(cache, asked)
  BY DEF MountAsks
<1>2. Whole(flights')
  BY <1>1, WholeNow, WholeMore, OthersNew
<1>3. ASSUME NEW key \in asked PROVE Fetching(key)'
  <2>1. Fetch(key) \in flights' /\ Fetch(key).kind = "query" /\ Fetch(key).key = key
    BY <1>1 DEF Fetch
  <2> QED
    BY <2>1, FetchingIn
<1>4. ASSUME NEW key \in Watched' PROVE Fetching(key)' \/ ~cache[key].stale
  BY <1>1, <1>2, <1>3, FetchesGoOn DEF Whole
<1> QED
  BY <1>1, <1>2, <1>3, <1>4 DEF Fetches

LEMMA MountWatches ==
  ASSUME OrderFormMount \/ LoyaltyMount \/ ProfileMount \/ DashboardMount \/ VerificationMount
         \/ AnalyticsMount \/ CustomersMount \/ InventoryMount
  PROVE  /\ \E keys : MountAsks(keys, flights) /\ Watched' \subseteq keys
         /\ SameView(local')
<1>1. CASE OrderFormMount
  BY <1>1 DEF OrderFormMount, OrderFormPage, Watched, SameView
<1>2. CASE LoyaltyMount
  BY <1>2 DEF LoyaltyMount, Watched, SameView
<1>3. CASE ProfileMount
  BY <1>3 DEF ProfileMount, ProfilePage, Watched, SameView
<1>4. CASE DashboardMount
  BY <1>4 DEF DashboardMount, DashboardPage, Keys, Watched, SameView
<1>5. CASE VerificationMount
  BY <1>5 DEF VerificationMount, VerificationPage, Keys, Watched, SameView
<1>6. CASE AnalyticsMount
  BY <1>6 DEF AnalyticsMount, Watched, SameView
<1>7. CASE CustomersMount
  BY <1>7 DEF CustomersMount, Watched, SameView
<1>8. CASE InventoryMount
  BY <1>8 DEF InventoryMount, InventoryPage, Lists, Watched, SameView
<1> QED
  BY <1>1, <1>2, <1>3, <1>4, <1>5, <1>6, <1>7, <1>8

LEMMA InvalidatesCalm ==
  ASSUME NEW keys, NEW written, written \subseteq keys, NEW F, Whole(F), Invalidates(keys, written, F),
         Watches(local')
  PROVE  Acknowledges
<1>1. /\ flights' = FlightsAfter(keys, written, F)
      /\ cache' = CacheAfter(keys, written)
  BY DEF Invalidates
<1>2. \A key \in Watched' \cap (keys \cup {}) : Fetching(key)'
  BY <1>1, WholeAfter, FetchingIn, WatchedOf DEF Watches
<1> QED
  BY <1>1, <1>2, WholeAfter DEF Acknowledges

\* The table of users asks for entries of its own.
LEMMA UsersAsk ==
  ASSUME IInv, NEW key, ShowsEntry(key), UNCHANGED cache, Observes(local')
  PROVE  Turned
<1>1. PICK asks : asks \subseteq {TableFetch(key)} /\ flights' = flights \cup asks
  BY DEF ShowsEntry
<1>2. Framed(asks)
  BY <1>1 DEF Framed, TableFetch, FlightFields
<1> QED
  BY <1>1, <1>2, WholeNow, FetchedMore DEF Whole, Turned

LEMMA MountsCalm ==
  ASSUME IInv, PagesMount
  PROVE  Undisturbed \/ Fetches \/ (UsersMount /\ Turned)
<1>1. CASE PaymentMount
  <2>1. CASE OrderEffects(PaymentPage)
    BY <2>1, WholeNow, FliesCalm DEF OrderEffects, PaymentPage, Watches, Observes, SameView, Watching
  <2>2. CASE ~OrderEffects(PaymentPage)
    BY <1>1, <2>2, WholeNow, NavigateCalm DEF PaymentMount
  <2> QED
    BY <2>1, <2>2
<1>2. CASE ConfirmationMount
  <2>1. \/ Navigate("/", flights) /\ UNCHANGED cache
        \/ UNCHANGED <<flights, cache>> /\ local'.page = "confirmation"
    <3>1. [ConfirmationPage EXCEPT !.loading = TRUE, !.order = 0].page = "confirmation"
          /\ ConfirmationPage.page = "confirmation"
      BY DEF ConfirmationPage
    <3> QED
      BY <1>2, <3>1 DEF ConfirmationMount
  <2> QED
    BY <2>1, WholeNow, NavigateCalm, FliesCalm DEF Watches, Observes, SameView, Watching
<1>3. CASE WelcomeMount
  <2>1. Whole(flights \cup {Flight("poll", None, <<>>)})
    BY WholeNow, WholeMore, OthersNew
  <2>2. UNCHANGED cache
    BY <1>3 DEF WelcomeMount
  <2>3. \/ \E path : Navigate(path, flights \cup {Flight("poll", None, <<>>)})
        \/ flights' = flights \cup {Flight("poll", None, <<>>)} /\ local' = WelcomePage
    BY <1>3 DEF WelcomeMount
  <2>4. WelcomePage.page = "welcome"
    BY DEF WelcomePage
  <2> QED
    BY <2>1, <2>2, <2>3, <2>4, NavigateCalm, FliesCalm DEF Watches, Observes, SameView, Watching
<1>4. CASE PastOrdersMount \/ AccountMount \/ VehiclesMount \/ HistoryMount \/ VisitMount \/ TransactionsMount
  BY <1>4, SetsCalm
  DEF PastOrdersMount, AccountMount, VehiclesMount, HistoryMount, VisitMount, TransactionsMount,
     PastOrdersPage, VehiclesPage, HistoryPage, VisitPage, TransactionsPage, Watches, Observes, SameView, Watching
<1>5. CASE UsersMount
  BY <1>5, UsersAsk DEF UsersMount, UsersPage, Observes, Watching
<1> QED
  BY <1>1, <1>2, <1>3, <1>4, <1>5, SessionPagesCalm, MountWatches, MountFetches
  DEF PagesMount, OrderPagesMount, AccountPagesMount, StaffPagesMount, AdminPagesMount

LEMMA AccountPagesCalm ==
  ASSUME IInv, AccountPagesSettle \/ AccountPagesActions \/ Polls
  PROVE  Undisturbed \/ Acknowledges
<1>1. CASE ClaimEnds \/ PastOrdersArrive \/ OrderDetailsArrive
  BY <1>1, SetsCalm, NamedPage DEF ClaimEnds, PastOrdersArrive, OrderDetailsArrive, Watches, Observes, SameView
<1>2. CASE SaveEnds \/ EditingEnds
  BY <1>2, HearsCalm, ForcedCalm, WholeGoesOn, FliesCalm, NamedPage
  DEF SaveEnds, EditingEnds, Waiting, Watches, Observes, SameView
<1>3. CASE AccountRefreshed
  BY <1>3, WholeGoesOn, HearsMeCalm DEF AccountRefreshed, Waiting
<1>4. ASSUME NEW kind \in Mutations, ProfileMutated(kind) PROVE Undisturbed \/ Acknowledges
  <2>1. PICK f \in Waiting(kind), done \in BOOLEAN :
          /\ local' = AfterMutation(f, done)
          /\ IF done
               THEN Invalidates({"profile"}, {"profile"},
                      (flights \ {f}) \cup (IF kind = "updateProfile"
                                              THEN {Flight("refresh", tour.who, <<>>)} ELSE {}))
               ELSE flights' = flights \ {f} /\ UNCHANGED cache
    BY <1>4 DEF ProfileMutated
  <2>2. PICK G : G = IF kind = "updateProfile" THEN {Flight("refresh", tour.who, <<>>)} ELSE {}
    OBVIOUS
  <2>3. Whole(flights \ {f}) /\ Others(G)
    BY <2>2, WholeNow, WholeRest, OthersNew DEF Waiting, Mutations
  <2>4. Watches(local')
    BY <2>1, NamedPage DEF AfterMutation, Watches, Observes, SameView
  <2>5. CASE done
    <3>1. Invalidates({"profile"}, {"profile"}, (flights \ {f}) \cup G)
      BY <2>1, <2>2, <2>5
    <3> QED
      BY <2>3, <2>4, <3>1, WholeMore, InvalidatesCalm
  <2>6. CASE ~done
    BY <2>1, <2>3, <2>4, <2>6, FliesCalm
  <2> QED
    BY <2>5, <2>6
<1>5. CASE AccountPagesActions
  <2>1. CASE CloseModal \/ HandleClaimReward \/ HandleRewardClick \/ LoadOrderDetails \/ CloseOrder \/ HandleEdit
    BY <2>1, SetsCalm, NamedPage
    DEF CloseModal, HandleClaimReward, HandleRewardClick, LoadOrderDetails, CloseOrder, HandleEdit, Watches, Observes, SameView
  <2>2. CASE WelcomeLinks \/ LoyaltyTries \/ LoyaltyLinks \/ HandleBookAgain \/ HandleLogout
    BY <2>2, WholeNow, NavigateCalm, ReloadsCalm
    DEF WelcomeLinks, LoyaltyTries, LoyaltyLinks, HandleBookAgain, HandleLogout, SignsOut
  <2>3. CASE HandleSave
    BY <2>3, SendsCalm, OthersNew, NamedPage DEF HandleSave, Watches, Observes, SameView
  <2>4. CASE ProfileRefreshes
    <3>1. Invalidates({"profile"}, {}, flights) /\ Watches(local')
      BY <2>4 DEF ProfileRefreshes, Watches, Observes, SameView
    <3> QED
      BY <3>1, WholeNow, InvalidatesCalm
  <2>5. CASE ProfileForms
    <3>1. \A offer \in ProfileOffers :
             offer \in {"refresh", "edit", "update", "cancel", "closeForm", "add", "openForm", "delete"}
      BY DEF ProfileOffers, PersonalOffers, VehicleFormOffers
    <3> QED
      BY <2>5, <3>1, SetsCalm, SendsCalm, OthersNew, NamedPage DEF ProfileForms, Watches, Observes, SameView
  <2> QED
    BY <1>5, <2>1, <2>2, <2>3, <2>4, <2>5 DEF AccountPagesActions
<1>6. CASE PollArrives
  <2>1. PICK f, kept, rewards :
          /\ f \in Waiting("poll") \cup Waiting("pollOld") /\ UNCHANGED cache
          /\ local' \in {local, [local EXCEPT !.wash = kept], [local EXCEPT !.wash = kept, !.rewards = rewards]}
          /\ flights' = (flights \ {f}) \cup (IF f.kind = "poll" /\ f.mine
                                                THEN {Flight("pollTimer", None, <<>>)} ELSE {})
    BY <1>6 DEF PollArrives
  <2>2. Whole(flights \ {f})
    BY <2>1, WholeNow, WholeRest DEF Waiting
  <2>3. Whole(flights')
    BY <2>1, <2>2, WholeMore, OthersNew
  <2>4. Watches(local')
    BY <2>1, NamedPage DEF Watches, Observes, SameView
  <2> QED
    BY <2>1, <2>3, <2>4, FliesCalm
<1>7. CASE PollTimer
  BY <1>7, WholeGoesOn, FliesCalm DEF PollTimer, Waiting, Watches, Observes, SameView
<1> QED
  BY <1>1, <1>2, <1>3, <1>4, <1>5, <1>6, <1>7 DEF AccountPagesSettle, AccountPagesActions, Polls

\* What is asked again at an interval.
LEMMA IntervalFetches ==
  ASSUME IInv, NEW key, IntervalFires(key)
  PROVE  Fetches
<1>1. flights' = flights \cup {Fetch(key)} /\ cache' = Pending(cache, {key}) /\ Watched' = Watched /\ UNCHANGED local
  BY DEF IntervalFires, Watched
<1>2. Whole(flights')
  <2>1. Others({Fetch(key)})
    BY DEF Others, Framed, Fetch, FlightFields
  <2> QED
    BY <1>1, <2>1, WholeNow, WholeMore
<1>3. Fetching(key)'
  <2>1. Fetch(key) \in flights' /\ Fetch(key).kind = "query" /\ Fetch(key).key = key
    BY <1>1 DEF Fetch
  <2> QED
    BY <2>1, FetchingIn
<1> QED
  BY <1>1, <1>2, <1>3 DEF Fetches, SameView

\* The end of a write that touches "keys", acknowledged or not.
LEMMA EndsCalm ==
  ASSUME IInv, NEW f, f.kind \notin {"query", "users", "role"}, NEW done \in BOOLEAN, NEW keys, Watches(local'),
         IF done THEN Invalidates(keys, keys, flights \ {f}) ELSE flights' = flights \ {f} /\ UNCHANGED cache
  PROVE  Undisturbed \/ Acknowledges
<1>1. Whole(flights \ {f})
  BY WholeNow, WholeRest
<1>2. CASE done
  BY <1>1, <1>2, InvalidatesCalm
<1>3. CASE ~done
  BY <1>1, <1>3, FliesCalm
<1> QED
  BY <1>2, <1>3

\* Fetching more leaves no fetch out.
LEMMA RefetchedKeeps ==
  ASSUME NEW F, NEW keys, NEW g \in F, g.kind = "query"
  PROVE  \E h \in Refetched(keys, F) : h.kind = "query" /\ h.key = g.key
<1> DEFINE again == keys \cap Watched
           kept == {f \in F : f.kind = "query" /\ f.key \in again /\ ~Has(f.key)}
<1>1. CASE g.key \in again /\ g.key \notin {f.key : f \in kept}
  <2>1. Fetch(g.key) \in Refetched(keys, F)
    BY <1>1 DEF Refetched
  <2> QED
    BY <2>1 DEF Fetch
<1>2. CASE g.key \in {f.key : f \in kept}
  BY <1>2 DEF Refetched
<1>3. CASE g.key \notin again
  BY <1>3 DEF Refetched
<1> QED
  BY <1>1, <1>2, <1>3

LEMMA WashStartedCalm ==
  ASSUME IInv, WashStarted
  PROVE  Undisturbed \/ Acknowledges
<1>1. PICK f \in Waiting("startWash") :
        \/ Hears(f, [local EXCEPT !.starting = FALSE])
        \/ /\ Navigate("/staff/dashboard",
                       Refetched({"verifications"}, FlightsAfter({"active"}, {"active"}, flights \ {f})))
           /\ cache' = Pending(CacheAfter({"active"}, {"active"}), {"verifications"} \cap Watched)
  BY DEF WashStarted
<1>2. f.kind = "startWash"
  BY DEF Waiting
<1>3. CASE Hears(f, [local EXCEPT !.starting = FALSE])
  BY <1>2, <1>3, HearsCalm, NamedPage DEF Watches, Observes, SameView
<1>4. CASE ~Hears(f, [local EXCEPT !.starting = FALSE])
  <2>1. PICK after, F : after = FlightsAfter({"active"}, {"active"}, flights \ {f})
                        /\ F = Refetched({"verifications"}, after)
    OBVIOUS
  <2>2. /\ Whole(after) /\ Whole(F)
        /\ \A key \in {"active"} \cap Watched : \E g \in after : g.kind = "query" /\ g.key = key
        /\ \A key \in {"verifications"} \cap Watched : \E g \in F : g.kind = "query" /\ g.key = key
    <3>1. Whole(flights \ {f})
      BY <1>2, WholeNow, WholeRest
    <3>2. \A keys, written :
            LET G == FlightsAfter(keys, written, flights \ {f}) IN
            Whole(G) /\ \A key \in keys \cap Watched : \E g \in G : g.kind = "query" /\ g.key = key
      BY <3>1, WholeAfter
    <3>3. Whole(after) /\ \A key \in {"active"} \cap Watched : \E g \in after : g.kind = "query" /\ g.key = key
      BY <2>1, <3>2
    <3> QED
      BY <2>1, <3>3, WholeRefetched
  <2>3. \A key \in {"active"} \cap Watched : \E g \in F : g.kind = "query" /\ g.key = key
    <3>1. ASSUME NEW g \in after, g.kind = "query" PROVE \E h \in F : h.kind = "query" /\ h.key = g.key
      BY <2>1, <3>1, RefetchedKeeps
    <3> QED
      BY <2>2, <3>1
  <2>4. \/ flights' = F /\ UNCHANGED local
        \/ flights' = Orphaned(F) /\ local' = Unmounted
    BY <1>1, <1>4, <2>1 DEF Navigate, NavigateWith
  <2>5. Whole(flights') /\ Watches(local')
    BY <2>2, <2>4, WholeOrphaned DEF Watches, Observes, SameView, Unmounted, None, Watching
  <2>6. \A key \in Watched' \cap ({"active"} \cup ({"verifications"} \cap Watched)) : Fetching(key)'
    <3>1. CASE flights' = F /\ UNCHANGED local
      BY <2>2, <2>3, <2>5, <3>1, WatchedOf, FetchingIn DEF Watches
    <3>2. CASE local' = Unmounted
      BY <3>2 DEF Watched, Unmounted, None
    <3> QED
      BY <2>4, <3>1, <3>2
  <2> QED
    BY <1>1, <1>4, <2>5, <2>6 DEF Acknowledges
<1> QED
  BY <1>3, <1>4

LEMMA QueriedCalm ==
  ASSUME IInv, NEW l, NEW period, Queried(l, period), "page" \in DOMAIN l, Watches(l)
  PROVE  Undisturbed
BY WholeNow, FliesCalm DEF Queried, Watches, Observes, SameView

LEMMA StaffPagesCalm ==
  ASSUME IInv, StaffPagesSettle \/ StaffPagesActions \/ StaffPolls
  PROVE  Undisturbed \/ Fetches \/ Acknowledges
<1>1. CASE StaffPolls
  BY <1>1, IntervalFetches DEF StaffPolls, ActivePolls, VerificationsPoll
<1>2. CASE StaffPagesSettle
  <2>1. CASE WashEnded
    <3>1. PICK f \in Waiting("endWash"), done \in BOOLEAN :
            /\ local' = IF f.mine THEN [local EXCEPT !.ending = FALSE, !.confirm = 0] ELSE local
            /\ IF done THEN Invalidates({"active"}, {"active"}, flights \ {f})
                       ELSE flights' = flights \ {f} /\ UNCHANGED cache
      BY <2>1 DEF WashEnded
    <3>2. f.kind \notin {"query", "users", "role"} /\ Watches(local')
      BY <3>1, NamedPage DEF Waiting, Watches, Observes, SameView
    <3> QED
      BY <3>1, <3>2, EndsCalm
  <2>2. CASE Recomputed
    <3>1. PICK f \in Waiting("recompute"), done \in BOOLEAN :
            /\ local' = IF f.mine THEN [local EXCEPT !.refreshing = FALSE, !.refreshed = @ \/ done] ELSE local
            /\ IF done THEN Invalidates({"customers"}, {"customers"}, flights \ {f})
                       ELSE flights' = flights \ {f} /\ UNCHANGED cache
      BY <2>2 DEF Recomputed
    <3>2. f.kind \notin {"query", "users", "role"} /\ Watches(local')
      BY <3>1, NamedPage DEF Waiting, Watches, Observes, SameView
    <3> QED
      BY <3>1, <3>2, EndsCalm
  <2>3. CASE PaymentVerified
    <3>1. PICK f \in Waiting("verifyPayment"), done \in BOOLEAN :
            /\ \/ UNCHANGED local
               \/ \E selected, vehicle :
                    local' = [[local EXCEPT !.processing = FALSE, !.typed = 0] EXCEPT
                                !.selected = selected, !.vehicle = vehicle, !.dialog = TRUE]
               \/ local' = [local EXCEPT !.processing = FALSE, !.typed = 0]
            /\ IF done THEN Invalidates({"verifications"}, {"verifications"}, flights \ {f})
                       ELSE flights' = flights \ {f} /\ UNCHANGED cache
      BY <2>3 DEF PaymentVerified, Shows
    <3>2. f.kind \notin {"query", "users", "role"} /\ Watches(local')
      BY <3>1, NamedPage DEF Waiting, Watches, Observes, SameView
    <3> QED
      BY <3>1, <3>2, EndsCalm
  <2>4. CASE WashStarted
    BY <2>4, WashStartedCalm
  <2>5. CASE RecordArrives
    BY <2>5, WholeNow, SetsCalm, FliesCalm, NamedPage DEF RecordArrives, Shows, Watches, Observes, SameView
  <2>6. CASE VehicleCreated \/ SearchStarts \/ SearchEnds \/ VehicleDeleted \/ HistoryArrives
             \/ AnalyticsArrives \/ RefreshedFades \/ ManualWashStarted
    BY <2>6, SetsCalm, NamedPage DEF VehicleCreated, SearchStarts, SearchEnds, VehicleDeleted, HistoryArrives,
       AnalyticsArrives, RefreshedFades, ManualWashStarted, Watches, Observes, SameView
  <2>7. CASE VehicleAdded
    BY <2>7, SetsCalm, NamedPage DEF VehicleAdded, Typed, Watches, Observes, SameView
  <2>8. CASE TypedFilter
    <3>1. PICK l, filter : /\ l = [local EXCEPT !.filter = filter, !.number = 1, !.typing = {}]
                           /\ Queried(l, storage.period)
      BY <2>8 DEF TypedFilter
    <3>2. "page" \in DOMAIN l /\ l.page = local.page
      BY <3>1, NamedPage
    <3> QED
      BY <2>8, <3>1, <3>2, QueriedCalm DEF TypedFilter, Watches, Observes, SameView
  <2>9. CASE VisitLogged
    BY <2>9, HearsCalm, ForcedCalm, NamedPage DEF VisitLogged, Waiting, Watches, Observes, SameView
  <2> QED
    BY <1>2, <2>1, <2>2, <2>3, <2>4, <2>5, <2>6, <2>7, <2>8, <2>9 DEF StaffPagesSettle
<1>3. CASE StaffPagesActions
  <2>1. CASE HandleEndClick \/ ManagerToggles \/ OpenRecord \/ VehicleModal \/ TypeCell \/ HandleStartWash
    BY <2>1, SetsCalm, NamedPage
    DEF HandleEndClick, ManagerToggles, OpenRecord, VehicleModal, TypeCell, HandleStartWash, Watches, Observes, SameView
  <2>2. CASE ManagerRefetches
    <3>1. Refetches({"active"}) /\ Watched' = Watched
      BY <2>2 DEF ManagerRefetches, Watched
    <3>4. UNCHANGED local
      BY <2>2 DEF ManagerRefetches, Refetches
    <3>2. flights' = Refetched({"active"}, flights) /\ cache' = Pending(cache, {"active"} \cap Watched)
      BY <3>1 DEF Refetches
    <3>3. Whole(flights') /\ \A key \in {"active"} \cap Watched : Fetching(key)'
      BY <3>2, WholeNow, WholeRefetched, FetchingIn
    <3> QED
      BY <3>1, <3>2, <3>3, <3>4 DEF Fetches, SameView
  <2>3. CASE ConfirmEnd \/ HandleRefresh
    BY <2>3, SendsCalm, OthersNew, NamedPage DEF ConfirmEnd, HandleRefresh, Watches, Observes, SameView
  <2>4. CASE ChooseMethod
    BY <2>4, SetsCalm, NamedPage DEF ChooseMethod, Watches, Observes, SameView
  <2>5. CASE VerifyPayment
    BY <2>5, SendsCalm, OthersNew, NamedPage DEF VerifyPayment, Watches, Observes, SameView
  <2>6. CASE ConfirmStartWash \/ ConfirmAndLog
    BY <2>6, SetsCalm, SendsCalm, OthersNew, NamedPage DEF ConfirmStartWash, ConfirmAndLog, Watches, Observes, SameView
  <2>7. CASE ManageVehicles
    <3>1. \A offer \in VehiclesOffers : offer \in {"search", "adds", "type", "select", "delete", "owner", "add"}
      BY DEF VehiclesOffers, SearchTabOffers, AddTabOffers
    <3> QED
      BY <2>7, <3>1, SetsCalm, NamedPage DEF ManageVehicles, Typed, Watches, Observes, SameView
  <2>8. CASE HandleFilterChange
    <3>1. \A offer \in HistoryOffers : offer \in {"period", "choose", "clear", "type", "open", "close"}
      BY DEF HistoryOffers, FilterOffers, WashListOffers, WashModalOffers
    <3>2. \/ \E period : Queried([local EXCEPT !.number = 1], period)
          \/ \E filter, period : Queried([local EXCEPT !.filter = filter, !.number = 1], period)
          \/ \E filter : Sets([local EXCEPT !.typing = {filter}])
          \/ Sets([local EXCEPT !.wash = ~@])
      BY <2>8, <3>1 DEF HandleFilterChange
    <3>3. CASE \E period : Queried([local EXCEPT !.number = 1], period)
      BY <2>8, <3>3, QueriedCalm, NamedPage DEF HandleFilterChange, On, Watches, Observes, SameView
    <3>4. CASE \E filter, period : Queried([local EXCEPT !.filter = filter, !.number = 1], period)
      <4>1. PICK filter, period, l : l = [local EXCEPT !.filter = filter, !.number = 1] /\ Queried(l, period)
        BY <3>4
      <4>2. "page" \in DOMAIN l /\ l.page = local.page
        BY <4>1, NamedPage
      <4> QED
        BY <2>8, <4>1, <4>2, QueriedCalm DEF HandleFilterChange, On, Watches, Observes, SameView
    <3>5. CASE \E filter : Sets([local EXCEPT !.typing = {filter}])
      BY <3>5, SetsCalm, NamedPage DEF Watches, Observes, SameView
    <3>6. CASE Sets([local EXCEPT !.wash = ~@])
      BY <3>6, SetsCalm, NamedPage DEF Watches, Observes, SameView
    <3> QED
      BY <3>2, <3>3, <3>4, <3>5, <3>6
  <2>9. CASE TurnPage
    BY <2>9, QueriedCalm, NamedPage DEF TurnPage, On, Watches, Observes, SameView
  <2>10. CASE AnalyticsToggles
    BY <2>10, QueriedCalm, SetsCalm, NamedPage DEF AnalyticsToggles, AnalyticsOffers, Watches, Observes, SameView
  <2> QED
    BY <1>3, <2>1, <2>2, <2>3, <2>4, <2>5, <2>6, <2>7, <2>8, <2>9, <2>10 DEF StaffPagesActions
<1> QED
  BY <1>1, <1>2, <1>3

\* Only what the awaits of the inventory wait for changes.
LEMMA WholeSuperseded == ASSUME NEW F, Whole(F), NEW keys PROVE Whole(Superseded(keys, F))
<1> DEFINE H(f) == IF f.kind = "refreshLists"
                     THEN [f EXCEPT !.arg[1] = @ \ {key \in keys : Has(key) \/ ~Fetching(key)}] ELSE f
<1>1. \A f \in F : Same(H(f), f)
  BY DEF Same, Twins, Alike, Whole, Fetched, Framed, FlightFields
<1>2. Superseded(keys, F) = {H(f) : f \in F}
  BY DEF Superseded
<1> HIDE DEF H
<1> QED
  BY <1>1, <1>2, WholeAlike

\* The fetches of the table of users are others.
LEMMA FetchedTable == ASSUME NEW F, Fetched(F), NEW table PROVE Fetched(TableAgain(F, table))
<1>1. PICK kept, new :
        /\ kept \subseteq F /\ new \subseteq {TableFetch(TableKey(local))}
        /\ TableAgain(F, table) \in {F, (F \ TableFetches(F)) \cup kept \cup new}
  BY DEF TableAgain, TableFetches
<1>2. Fetched(F \ TableFetches(F))
  BY DEF Fetched, Framed, TableFetches
<1>3. Framed(kept) /\ Framed(new)
  BY <1>1 DEF Fetched, Framed, TableFetch, FlightFields
<1> QED
  BY <1>1, <1>2, <1>3, FetchedMore

LEMMA InventoryCalm ==
  ASSUME IInv, NEW kind \in Writes, InventoryWritten(kind)
  PROVE  Undisturbed \/ Acknowledges
<1>1. PICK f, lists, awaited : f \in Waiting(kind) /\
        \/ Hears(f, WriteEnds(local, kind))
        \/ /\ f.key \in lists
           /\ local' = IF f.mine THEN AfterWrite(f) ELSE local
           /\ flights' = FlightsAfter(lists, {f.key}, Superseded(awaited, flights \ {f}))
                         \cup {Then(f, "refreshLists", <<awaited, kind>>)}
           /\ cache' = CacheAfter(lists, {f.key})
  <2>1. PICK f \in Waiting(kind) :
        \/ Hears(f, WriteEnds(local, kind))
        \/ LET lists == IF kind = "createItem" /\ f.key = "extras" THEN Lists ELSE {f.key}
               awaited == lists \cap Watched IN
           /\ f.key \in lists
           /\ local' = IF f.mine THEN AfterWrite(f) ELSE local
           /\ flights' = FlightsAfter(lists, {f.key}, Superseded(awaited, flights \ {f}))
                         \cup {Then(f, "refreshLists", <<awaited, kind>>)}
           /\ cache' = CacheAfter(lists, {f.key})
    BY DEF InventoryWritten
  <2> QED
    BY <2>1
<1>2. f \in Waiting(kind) /\ f.kind \notin {"query", "users", "role"}
  BY <1>1 DEF Waiting, Writes
<1>3. CASE Hears(f, WriteEnds(local, kind))
  BY <1>2, <1>3, HearsCalm, NamedPage DEF WriteEnds, Watches, Observes, SameView
<1>4. CASE ~Hears(f, WriteEnds(local, kind))
  <2>1. Watches(local')
    BY <1>1, <1>4, NamedPage DEF AfterWrite, Watches, Observes, SameView
  <2>2. PICK F, G : /\ F = Superseded(awaited, flights \ {f})
                    /\ G = FlightsAfter(lists, {f.key}, F)
    OBVIOUS
  <2>3. Whole(F)
    BY <1>2, <2>2, WholeNow, WholeRest, WholeSuperseded
  <2>4. Whole(G) /\ \A key \in lists \cap Watched : \E g \in G : g.kind = "query" /\ g.key = key
    <3>1. \A written :
            LET after == FlightsAfter(lists, written, F) IN
            Whole(after) /\ \A key \in lists \cap Watched : \E g \in after : g.kind = "query" /\ g.key = key
      BY <2>3, WholeAfter
    <3> QED
      BY <2>2, <3>1
  <2>5. flights' = G \cup {Then(f, "refreshLists", <<awaited, kind>>)}
    BY <1>1, <1>4, <2>2
  <2>6. Whole(flights')
    BY <2>4, <2>5, WholeMore, OthersNew
  <2>7. \A key \in Watched' \cap (lists \cup {}) : Fetching(key)'
    BY <2>1, <2>4, <2>5, WatchedOf, FetchingIn DEF Watches
  <2>8. {f.key} \subseteq lists /\ cache' = CacheAfter(lists, {f.key})
    BY <1>1, <1>4
  <2> QED
    BY <2>1, <2>6, <2>7, <2>8 DEF Acknowledges
<1> QED
  BY <1>3, <1>4

LEMMA TurnsCalm == ASSUME IInv, NEW l, TurnsTo(l), Observes(l) PROVE Turned
<1>1. local' = l /\ UNCHANGED cache /\ (UNCHANGED flights \/ ShowsEntry(TableKey(l)))
  BY DEF TurnsTo
<1> QED
  BY <1>1, WholeNow, UsersAsk DEF Turned, Whole

LEMMA UsersCalm ==
  ASSUME IInv, UsersTyped \/ UsersDebounced \/ UsersTurn
  PROVE  Turned
BY TurnsCalm, NamedPage DEF UsersTyped, UsersDebounced, UsersTurn, Observes

LEMMA RolesCalm ==
  ASSUME IInv, SaveRole \/ ServerSetsRole \/ RoleSettles
  PROVE  Turned
<1>1. CASE SaveRole
  <2>1. PICK key, user, row, role :
          /\ key = TableKey(local) /\ user = local.editing
          /\ row = [Row(local) EXCEPT !.stale = FALSE] /\ role = 1 - row.roles[user]
    OBVIOUS
  <2>2. /\ flights' = {Keeps(f, key) : f \in {g \in flights : g.kind # "users" \/ g.arg[1] # key}}
                     \cup {[Flight("role", None, <<user, role, row, <<>>>>) EXCEPT !.n = FreeNumber(RoleFlights)]}
        /\ UNCHANGED cache /\ local' = [local EXCEPT !.editing = 0]
    BY <1>1, <2>1 DEF SaveRole
  <2>3. PICK G, f, n : /\ G = {g \in flights : g.kind # "users" \/ g.arg[1] # key}
                       /\ f = Flight("role", None, <<user, role, row, <<>>>>) /\ n = FreeNumber(RoleFlights)
    OBVIOUS
  <2>4. Fetched(G)
    BY <2>3, WholeNow DEF Whole, Fetched, Framed
  <2>5. \A g \in G : Alike(Keeps(g, key), g)
    BY <2>4 DEF Alike, Fetched, Framed, FlightFields, Keeps
  <2>6. Fetched({Keeps(g, key) : g \in G})
    BY <2>4, <2>5, FetchedAlike
  <2>7. Framed({[f EXCEPT !.n = n]})
    BY <2>3, FlightIs DEF Framed, FlightFields
  <2>8. Fetched(flights')
    BY <2>2, <2>3, <2>6, <2>7, FetchedMore
  <2> QED
    BY <2>2, <2>8, NamedPage DEF Turned, Observes
<1>2. CASE ServerSetsRole
  <2>1. PICK f \in Waiting("role"), reply \in {"ok", "failed"} :
          flights' = Answered(f, reply, 0) /\ UNCHANGED <<local, cache>>
    BY <1>2 DEF ServerSetsRole, Answers
  <2>2. PICK g : g = [f EXCEPT !.reply = reply, !.value = 0]
    OBVIOUS
  <2>3. Fetched(flights \ {f}) /\ Framed({g})
    BY <2>1, <2>2, WholeNow, FetchedRest DEF Waiting, Whole, Fetched, Framed, FlightFields
  <2> QED
    BY <2>1, <2>2, <2>3, FetchedMore DEF Answered, Turned, Observes
<1>3. CASE RoleSettles
  <2>1. PICK f, back :
          /\ f \in Arriving("role")
          /\ flights' = {IF g.kind = "users" /\ g.reply = "ok" THEN [g EXCEPT !.value = 1] ELSE g
                           : g \in TableAgain(flights \ {f}, back)}
          /\ UNCHANGED cache /\ local' = IF f.mine THEN [local EXCEPT !.editing = 0] ELSE local
    BY <1>3 DEF RoleSettles
  <2>2. PICK F : F = TableAgain(flights \ {f}, back)
    OBVIOUS
  <2>3. Fetched(F)
    BY <2>1, <2>2, WholeNow, FetchedRest, FetchedTable DEF Arriving, Whole
  <2> DEFINE H(g) == IF g.kind = "users" /\ g.reply = "ok" THEN [g EXCEPT !.value = 1] ELSE g
  <2>4. \A g \in F : Alike(H(g), g)
    BY <2>3 DEF Alike, Fetched, Framed, FlightFields
  <2>5. flights' = {H(g) : g \in F}
    BY <2>1, <2>2
  <2> HIDE DEF H
  <2>6. Fetched(flights')
    BY <2>3, <2>4, <2>5, FetchedAlike
  <2> QED
    BY <2>1, <2>6, NamedPage DEF Turned, Observes
<1> QED
  BY <1>1, <1>2, <1>3

LEMMA TransactionsStay ==
  ASSUME IInv, TransactionsDebounced \/ TransactionsArrive \/ FilterTransactions \/ TurnTransactions
  PROVE  "page" \in DOMAIN local' /\ local'.page = "transactions"
<1> DEFINE Here(l) == "page" \in DOMAIN l /\ l.page = "transactions"
<1>1. Here(local)
  BY NamedPage DEF TransactionsDebounced, TransactionsArrive, FilterTransactions, TurnTransactions, On
<1>2. ASSUME NEW l, Here(l), NEW m \in Asked(l) PROVE Here(m)
  <2>1. CASE m = [l EXCEPT !.fetching = TRUE, !.failed = FALSE, !.own = FALSE]
    BY <1>2, <2>1
  <2>2. ASSUME NEW fetching, NEW pages, m = Cached(l, fetching, pages) PROVE Here(m)
    BY <1>2, <2>2 DEF Cached
  <2> QED
    BY <1>2, <2>1, <2>2 DEF Asked
<1>3. ASSUME NEW l, Here(l), NEW m \in Clamped(l) PROVE Here(m)
  <2>1. PICK k : k = [l EXCEPT !.number = ComputedTotalPages(l)]
    OBVIOUS
  <2>2. Here(k) /\ m \in {l} \cup Asked(k)
    BY <1>3, <2>1 DEF Clamped
  <2> QED
    BY <1>2, <1>3, <2>2
<1>4. ASSUME NEW l, Here(l), Asks(l) PROVE Here(local')
  <2>1. PICK m \in Asked(l) : \E n \in Clamped(m) : Sets(n)
    BY <1>4 DEF Asks
  <2> QED
    BY <1>2, <1>3, <1>4, <2>1 DEF Sets
<1>5. CASE FilterTransactions
  <2>1. \/ \E l : Asks(l) /\ l \in {[local EXCEPT !.number = 1], [local EXCEPT !.number = 1, !.search = 0]}
        \/ \E l : Sets(l) /\ l \in {[local EXCEPT !.search = 1 - @], [local EXCEPT !.search = 0],
                                    [local EXCEPT !.fetching = TRUE, !.failed = FALSE]}
    BY <1>5 DEF FilterTransactions
  <2>2. PICK l : Here(l) /\ (Asks(l) \/ Sets(l))
    BY <1>1, <2>1
  <2> QED
    BY <1>4, <2>2 DEF Sets
<1>6. CASE TransactionsDebounced \/ TurnTransactions
  <2>1. PICK l : Here(l) /\ Asks(l)
    BY <1>1, <1>6 DEF TransactionsDebounced, TurnTransactions
  <2> QED
    BY <1>4, <2>1
<1>7. CASE TransactionsArrive
  <2>1. PICK l, m, n : /\ l = [local EXCEPT !.fetching = FALSE] /\ n \in Clamped(m) /\ Sets(n)
                       /\ m \in {[l EXCEPT !.failed = ~local.own]}
                                \cup {[l EXCEPT !.own = TRUE, !.kept = pages] : pages \in 1..MaxPages}
    BY <1>7 DEF TransactionsArrive
  <2>2. Here(l)
    BY <1>1, <2>1
  <2>3. Here(m)
    BY <2>1, <2>2
  <2> QED
    BY <1>3, <2>1, <2>3 DEF Sets
<1> QED
  BY <1>5, <1>6, <1>7

\* The steps of the table of users once it is mounted.
TableSteps ==
    \/ UsersTyped \/ UsersDebounced \/ UsersTurn \/ UsersReload
    \/ ServerListsUsers \/ UsersArrive
    \/ \E form \in UserFormKinds : UserAdded(form)
    \/ SaveRole \/ ServerSetsRole \/ RoleSettles

LEMMA AdminPagesCalm ==
  ASSUME IInv, AdminPagesSettle \/ AdminPagesActions
  PROVE  Undisturbed \/ Fetches \/ Acknowledges \/ (TableSteps /\ Turned)
<1>1. CASE ListsRefreshed
  BY <1>1, HearsCalm, NamedPage DEF ListsRefreshed, Waiting, WriteEnds, Watches, Observes, SameView
<1>2. CASE ServerListsUsers
  <2>1. PICK f, roles :
          /\ f \in Waiting("users")
          /\ flights' = (flights \ {f}) \cup {[f EXCEPT !.reply = "ok", !.arg = Append(@, roles)]}
          /\ UNCHANGED <<local, cache>>
    BY <1>2 DEF ServerListsUsers
  <2>2. Fetched(flights \ {f}) /\ FlightFields \subseteq DOMAIN f
    BY <2>1, WholeNow, FetchedRest DEF Waiting, Whole, Fetched, Framed
  <2>3. PICK g : g = [f EXCEPT !.reply = "ok", !.arg = Append(@, roles)]
    OBVIOUS
  <2>4. Framed({g})
    BY <2>2, <2>3 DEF Framed, FlightFields
  <2> QED
    BY <1>2, <2>1, <2>2, <2>3, <2>4, FetchedMore DEF Turned, Observes, TableSteps
<1>3. CASE UsersArrive
  <2>1. PICK f \in TableFetches(flights) : flights' = flights \ {f} /\ UNCHANGED <<local, cache>>
    BY <1>3 DEF UsersArrive
  <2> QED
    BY <1>3, <2>1, WholeNow, FetchedRest DEF TableFetches, Whole, Turned, Observes, TableSteps
<1>4. ASSUME NEW form \in UserFormKinds, UserAdded(form) PROVE TableSteps /\ Turned
  <2>1. PICK f, l :
          /\ f \in Waiting(form) /\ l = [local EXCEPT !.sending = @ \ {form}]
          /\ \/ Hears(f, l)
             \/ /\ local' = IF f.mine THEN [l EXCEPT !.form = IF @ = form THEN None ELSE @] ELSE local
                /\ flights' = TableAgain(flights \ {f}, memory.table)
                /\ UNCHANGED cache
    BY <1>4 DEF UserAdded
  <2>2. Fetched(flights \ {f})
    BY <2>1, WholeNow, FetchedRest DEF Waiting, UserFormKinds, Whole
  <2>3. "page" \in DOMAIN l /\ l.page = local.page
    BY <2>1, NamedPage
  <2> QED
    BY <1>4, <2>1, <2>2, <2>3, FetchedTable DEF Hears, Turned, Observes, TableSteps
<1>5. CASE TransactionsDebounced \/ TransactionsArrive \/ FilterTransactions \/ TurnTransactions
  <2>1. PICK l : Sets(l)
    BY <1>5 DEF TransactionsDebounced, TransactionsArrive, FilterTransactions, TurnTransactions, Asks
  <2>2. local'.page = "transactions"
    BY <1>5, TransactionsStay
  <2> QED
    BY <2>1, <2>2, SetsCalm DEF Sets, Watches, Observes, SameView, Watching
<1>6. CASE EditInventory \/ EditRole
  BY <1>6, SetsCalm, NamedPage DEF EditInventory, EditRole, Watches, Observes, SameView
<1>7. CASE RefreshInventory
  <2>1. /\ flights' = Refetched(Lists, Superseded(Lists, flights)) /\ cache' = Pending(cache, Lists)
        /\ UNCHANGED local /\ local.page = "inventory"
    BY <1>7 DEF RefreshInventory, On
  <2>2. Watched = Lists /\ Watched' = Watched
    BY <2>1 DEF Watched, Lists
  <2>3. Whole(flights') /\ \A key \in Lists : Fetching(key)'
    BY <2>1, <2>2, WholeNow, WholeSuperseded, WholeRefetched, FetchingIn
  <2> QED
    BY <2>1, <2>2, <2>3 DEF Fetches, SameView
<1>8. CASE WriteInventory
  BY <1>8, SendsCalm, OthersNew, NamedPage DEF WriteInventory, Watches, Observes, SameView
<1>9. CASE UserForms
  BY <1>9, SetsCalm, SendsCalm, OthersNew, NamedPage DEF UserForms, UserFormKinds, Watches, Observes, SameView
<1>10. CASE UsersReload
  BY <1>10, WholeNow, FetchedTable DEF UsersReload, Whole, Turned, Observes, TableSteps
<1> QED
  BY <1>1, <1>2, <1>3, <1>4, <1>5, <1>6, <1>7, <1>8, <1>9, <1>10, InventoryCalm, UsersCalm, RolesCalm
  DEF AdminPagesSettle, AdminPagesActions, TableSteps

LEMMA CacheBefore == ASSUME Init PROVE CacheOK
BY DEF Init, CacheOK, EmptyCache, Entries, None

LEMMA CacheStep == ASSUME IInv, CacheOK, [Next]_vars PROVE CacheOK'
<1>1. CASE UNCHANGED vars
  BY <1>1 DEF vars, CacheOK, Watched, Fetching, FetchOf
<1>2. ASSUME NEW key \in Keys, QueryArrives(key) PROVE CacheOK'
  BY <1>2, Arrives
<1>3. CASE Next /\ \A key \in Keys : ~QueryArrives(key)
  <2>1. Undisturbed \/ Fetches \/ Acknowledges \/ Turned
    BY <1>3, SessionCalm, MountsCalm, SessionPagesCalm, OrderPagesCalm, AccountPagesCalm,
       StaffPagesCalm, AdminPagesCalm
    DEF Next, PagesSettle
  <2> QED
    BY <1>3, <2>1, CacheSteps
<1> QED
  BY <1>1, <1>2, <1>3

\* Data in the cache that miss an acknowledged write of this tab stay marked as
\* stale, and the page that shows them is fetching them again, unless the
\* fetch has failed, whichever pages are mounted and whatever is under way
\* meanwhile (the onSuccess handlers of the mutations).
THEOREM WritesRefetched == Spec => []CachedWritesRefetched
<1>1. CacheOK => CachedWritesRefetched
  BY DEF CacheOK, CachedWritesRefetched
<1> QED
  BY <1>1, CacheBefore, CacheStep, Invariant, PTL DEF Spec

(* The table of users: what is shown is what the server has, or is known not to be *)

TableStays == memory'.table = memory.table /\ server'.roles = server.roles

\* What leaves memory and the server alone leaves the table and the roles alone.
LEMMA StaysPut == ASSUME UNCHANGED <<memory, server>> PROVE TableStays
BY DEF TableStays

LEMMA ForcedKept == ASSUME ForcedOut PROVE Restarted
BY DEF ForcedOut, Reloads, Restarted

LEMMA ShapesKept ==
  ASSUME (\E l : Sets(l)) \/ (\E l, F : SetsAndSends(l, F)) \/ (\E f, l : Hears(f, l))
         \/ (\E f, reply, value : Answers(f, reply, value))
         \/ (\E l, period : Queried(l, period)) \/ (\E key : IntervalFires(key))
  PROVE  UNCHANGED <<memory, server>>
BY DEF Sets, SetsAndSends, Hears, Answers, Queried, IntervalFires

LEMMA HearsMeKept ==
  ASSUME IInv, NEW f, NEW reply, NEW there, NEW before, HearsMe(f, reply, there, before)
  PROVE  Restarted \/ TableStays
<1>1. CASE reply = "rejected"
  BY <1>1, ForcedKept DEF HearsMe
<1>2. CASE reply # "rejected"
  <2>1. memory' = [memory EXCEPT !.user = UserAfter(f, reply), !.loading = @ /\ f.kind # "boot"]
        /\ UNCHANGED server
    BY <1>2 DEF HearsMe
  <2> QED
    BY <2>1, NamedPage DEF TableStays
<1> QED
  BY <1>1, <1>2

LEMMA SessionKept ==
  ASSUME IInv, SessionSettles \/ Moves
  PROVE  Restarted \/ TableStays
<1>1. CASE Boot
  BY <1>1, NamedPage DEF Boot, TableStays
<1>2. CASE BootEnds \/ RefreshEnds
  BY <1>2, HearsMeKept DEF BootEnds, RefreshEnds
<1>3. CASE GuardActs
  BY <1>3, StaysPut DEF GuardActs
<1>4. CASE Moves
  <2>1. CASE \E path : FollowLink(path)
    BY <2>1, StaysPut DEF FollowLink
  <2>2. CASE \E there : GoBack(there)
    BY <2>2, StaysPut DEF GoBack
  <2>3. CASE Reload
    BY <2>3 DEF Reload, Reloads, Restarted
  <2>4. CASE NavLogout
    BY <2>4, NamedPage DEF NavLogout, SignsOut, TableStays
  <2> QED
    BY <1>4, <2>1, <2>2, <2>3, <2>4 DEF Moves
<1> QED
  BY <1>1, <1>2, <1>3, <1>4 DEF SessionSettles

LEMMA SessionPagesKept ==
  ASSUME IInv, SessionPagesMount \/ SessionPagesSettle \/ SessionPagesActions
  PROVE  Restarted \/ TableStays
<1>1. CASE SessionPagesMount
  BY <1>1, StaysPut, ShapesKept
  DEF SessionPagesMount, LoginMount, SignupMount, OnboardingMount, OtpMount, ForgotMount, ResetMount
<1>2. CASE SessionPagesActions
  BY <1>2, StaysPut, ShapesKept
  DEF SessionPagesActions, LoginSubmit, GoogleStarts, GooglePopupEnds, SignupSubmit, OnboardingType,
      ProfileSubmit, PhoneSubmit, OtpType, OtpBack, OtpResend, OtpSubmit, ForgotSubmit, ResetSubmit
<1>3. CASE SessionPagesSettle
  <2>1. CASE LoginEnds \/ RegisterEnds
    BY <2>1, StaysPut, ShapesKept, ForcedKept, NamedPage DEF LoginEnds, RegisterEnds, TableStays
  <2>2. CASE SocialEnds
    BY <2>2, StaysPut, ShapesKept, ForcedKept DEF SocialEnds
  <2>3. CASE SignupEnds \/ RecaptchaStarts \/ RecaptchaEnds \/ SmsEnds
    BY <2>3, StaysPut, ShapesKept, NamedPage
    DEF SignupEnds, RecaptchaStarts, RecaptchaEnds, SmsEnds, TableStays
  <2>4. CASE ProfileSaved \/ OtpTimer \/ ResendEnds \/ ConfirmEnds
    BY <2>4, StaysPut, ShapesKept, ForcedKept DEF ProfileSaved, OtpTimer, ResendEnds, ConfirmEnds, OtpFails
  <2>5. CASE ExchangeEnds
    BY <2>5, NamedPage DEF ExchangeEnds, TableStays
  <2>6. CASE TokenEnds
    BY <2>6, HearsMeKept, NamedPage, StaysPut DEF TokenEnds, TableStays
  <2>7. CASE ForgotEnds \/ ResetEnds \/ ResetTimer
    BY <2>7, StaysPut, ShapesKept DEF ForgotEnds, ResetEnds, ResetTimer
  <2> QED
    BY <1>3, <2>1, <2>2, <2>3, <2>4, <2>5, <2>6, <2>7 DEF SessionPagesSettle
<1> QED
  BY <1>1, <1>2, <1>3

LEMMA OrderPagesKept ==
  ASSUME IInv, OrderPagesMount \/ OrderPagesSettle \/ OrderPagesActions
  PROVE  Restarted \/ TableStays
<1>1. CASE OrderPagesMount
  BY <1>1, StaysPut, ShapesKept
  DEF OrderPagesMount, OrderFormMount, PaymentMount, ConfirmationMount, OrderEffects
<1>2. CASE OrderPagesSettle
  <2>1. CASE CatalogShows \/ AvailabilityArrives \/ SdkTimeout \/ EligibilityArrives
    BY <2>1, StaysPut, ShapesKept DEF CatalogShows, AvailabilityArrives, SdkTimeout, EligibilityArrives
  <2>2. CASE RewardsArrive \/ ApplyEnds \/ RedeemEnds \/ QrEnds
    BY <2>2, StaysPut, ShapesKept DEF RewardsArrive, ApplyEnds, RedeemEnds, QrEnds
  <2>3. CASE ServerCreates \/ ServerCharges \/ RedeemFreeEnds
    BY <2>3, StaysPut, ShapesKept, NamedPage DEF ServerCreates, ServerCharges, RedeemFreeEnds, TableStays
  <2>4. CASE SubmitEnds
    BY <2>4, StaysPut, ShapesKept DEF SubmitEnds
  <2>5. CASE PaymentOtherOrder \/ ChargeEnds \/ LinkArrives
    BY <2>5, StaysPut, ShapesKept DEF PaymentOtherOrder, OrderEffects, ChargeEnds, LinkArrives
  <2>6. CASE VerifyArrives \/ LeaveTimer
    BY <2>6, StaysPut, ShapesKept DEF VerifyArrives, LeaveTimer
  <2>7. CASE PayEnds
    BY <2>7, HearsMeKept DEF PayEnds
  <2> QED
    BY <1>2, <2>1, <2>2, <2>3, <2>4, <2>5, <2>6, <2>7 DEF OrderPagesSettle
<1>3. CASE OrderPagesActions
  <2>1. CASE ChooseService \/ ChooseTime
    <3>1. \A offer \in StepOneOffers \cup ServiceCardOffers :
            offer[1] \in {"category", "service", "quantity", "extra", "next"}
      BY DEF StepOneOffers, ServiceCardOffers
    <3>2. \A offer \in StepTwoOffers(local) : offer[1] \in {"month", "day", "slot", "prev", "next"}
      BY DEF StepTwoOffers, PickerShows
    <3>3. CASE ChooseService
      BY <3>1, <3>3, StaysPut, ShapesKept DEF ChooseService
    <3>4. CASE ChooseTime
      BY <3>2, <3>4, StaysPut, ShapesKept DEF ChooseTime
    <3> QED
      BY <2>1, <3>3, <3>4
  <2>6. CASE ReviewBack \/ HandleSubmit
    BY <2>6, StaysPut, ShapesKept DEF ReviewBack, HandleSubmit
  <2>2. CASE SdkArrives \/ WashDone
    BY <2>2, NamedPage DEF SdkArrives, WashDone, TableStays
  <2>3. CASE HandleApplyReward \/ HandlePayFree \/ HandlePay \/ PopupEnds
    BY <2>3, StaysPut, ShapesKept DEF HandleApplyReward, HandlePayFree, HandlePay, PopupEnds
  <2>4. CASE OpenLink
    BY <2>4 DEF OpenLink, Reloads, Restarted
  <2>5. CASE ConfirmationLinks \/ CalendarOpens \/ CalendarCloses
    BY <2>5, StaysPut, ShapesKept DEF ConfirmationLinks, CalendarOpens, CalendarCloses
  <2> QED
    BY <1>3, <2>1, <2>2, <2>3, <2>4, <2>5, <2>6 DEF OrderPagesActions
<1> QED
  BY <1>1, <1>2, <1>3

LEMMA AccountPagesKept ==
  ASSUME IInv, AccountPagesMount \/ AccountPagesSettle \/ AccountPagesActions \/ Polls
  PROVE  Restarted \/ TableStays
<1>1. CASE AccountPagesMount
  BY <1>1, StaysPut, ShapesKept
  DEF AccountPagesMount, WelcomeMount, LoyaltyMount, PastOrdersMount, AccountMount, ProfileMount
<1>2. CASE AccountPagesSettle
  <2>1. CASE ClaimEnds \/ PastOrdersArrive \/ OrderDetailsArrive
    BY <2>1, StaysPut, ShapesKept, ForcedKept DEF ClaimEnds, PastOrdersArrive, OrderDetailsArrive
  <2>2. CASE SaveEnds \/ AccountRefreshed \/ EditingEnds
    BY <2>2, StaysPut, ShapesKept, ForcedKept, HearsMeKept DEF SaveEnds, AccountRefreshed, EditingEnds
  <2>3. CASE \E kind : ProfileMutated(kind)
    BY <2>3, StaysPut DEF ProfileMutated
  <2> QED
    BY <1>2, <2>1, <2>2, <2>3 DEF AccountPagesSettle
<1>3. CASE Polls
  BY <1>3, StaysPut, ShapesKept DEF Polls, PollArrives, PollTimer
<1>4. CASE AccountPagesActions
  <2>1. CASE CloseModal \/ WelcomeLinks \/ HandleClaimReward \/ LoyaltyTries \/ HandleRewardClick \/ LoyaltyLinks
    BY <2>1, StaysPut, ShapesKept
    DEF CloseModal, WelcomeLinks, HandleClaimReward, LoyaltyTries, HandleRewardClick, LoyaltyLinks,
        Reloads, Restarted
  <2>2. CASE LoadOrderDetails \/ CloseOrder \/ HandleBookAgain \/ HandleEdit \/ HandleSave
    BY <2>2, StaysPut, ShapesKept DEF LoadOrderDetails, CloseOrder, HandleBookAgain, HandleEdit, HandleSave
  <2>3. CASE HandleLogout
    BY <2>3, NamedPage DEF HandleLogout, SignsOut, TableStays
  <2>4. CASE ProfileRefreshes \/ ProfileForms
    BY <2>4, StaysPut, ShapesKept DEF ProfileRefreshes, ProfileForms, Refetches
  <2> QED
    BY <1>4, <2>1, <2>2, <2>3, <2>4 DEF AccountPagesActions
<1> QED
  BY <1>1, <1>2, <1>3, <1>4

LEMMA StaffPagesKept ==
  ASSUME IInv, StaffPagesMount \/ StaffPagesSettle \/ StaffPagesActions \/ StaffPolls
  PROVE  Restarted \/ TableStays
<1>1. CASE StaffPagesMount
  BY <1>1, StaysPut, ShapesKept
  DEF StaffPagesMount, DashboardMount, VerificationMount, VehiclesMount, HistoryMount, AnalyticsMount,
      CustomersMount, VisitMount
<1>2. CASE StaffPagesSettle
  <2>1. CASE WashEnded \/ PaymentVerified \/ RecordArrives \/ WashStarted \/ VehicleCreated
    BY <2>1, StaysPut, ShapesKept DEF WashEnded, PaymentVerified, RecordArrives, WashStarted, VehicleCreated
  <2>2. CASE SearchStarts \/ SearchEnds \/ VehicleAdded \/ VehicleDeleted \/ TypedFilter \/ HistoryArrives
    BY <2>2, StaysPut, ShapesKept
    DEF SearchStarts, SearchEnds, VehicleAdded, VehicleDeleted, TypedFilter, HistoryArrives
  <2>3. CASE AnalyticsArrives \/ Recomputed \/ RefreshedFades \/ VisitLogged \/ ManualWashStarted
    BY <2>3, StaysPut, ShapesKept, ForcedKept
    DEF AnalyticsArrives, Recomputed, RefreshedFades, VisitLogged, ManualWashStarted
  <2> QED
    BY <1>2, <2>1, <2>2, <2>3 DEF StaffPagesSettle
<1>3. CASE StaffPolls
  BY <1>3, StaysPut, ShapesKept DEF StaffPolls, ActivePolls, VerificationsPoll
<1>4. CASE StaffPagesActions
  <2>1. CASE HandleEndClick \/ ManagerToggles \/ ManagerRefetches \/ ConfirmEnd \/ ChooseMethod \/ VerifyPayment
    BY <2>1, StaysPut, ShapesKept
    DEF HandleEndClick, ManagerToggles, ManagerRefetches, Refetches, ConfirmEnd, ChooseMethod, VerifyPayment
  <2>2. CASE OpenRecord \/ ConfirmStartWash \/ VehicleModal \/ TurnPage \/ AnalyticsToggles
    BY <2>2, StaysPut, ShapesKept
    DEF OpenRecord, ConfirmStartWash, VehicleModal, TurnPage, AnalyticsToggles, AnalyticsOffers
  <2>3. CASE ManageVehicles
    BY <2>3, StaysPut, ShapesKept DEF ManageVehicles, VehiclesOffers, SearchTabOffers, AddTabOffers
  <2>4. CASE HandleFilterChange
    BY <2>4, StaysPut, ShapesKept
    DEF HandleFilterChange, HistoryOffers, FilterOffers, WashListOffers, WashModalOffers
  <2>5. CASE HandleRefresh \/ TypeCell \/ ConfirmAndLog \/ HandleStartWash
    BY <2>5, StaysPut, ShapesKept DEF HandleRefresh, TypeCell, ConfirmAndLog, HandleStartWash
  <2> QED
    BY <1>4, <2>1, <2>2, <2>3, <2>4, <2>5 DEF StaffPagesActions
<1> QED
  BY <1>1, <1>2, <1>3, <1>4

LEMMA AdminPagesKept ==
  ASSUME IInv, AdminPagesMount \/ AdminPagesSettle \/ AdminPagesActions
  PROVE  UsersMount \/ TableSteps \/ Restarted \/ TableStays
<1>1. CASE InventoryMount \/ TransactionsMount
  BY <1>1, StaysPut, ShapesKept DEF InventoryMount, TransactionsMount
<1>2. CASE \E kind : InventoryWritten(kind)
  BY <1>2, StaysPut, ShapesKept DEF InventoryWritten
<1>3. CASE ListsRefreshed \/ EditInventory \/ RefreshInventory \/ WriteInventory
  BY <1>3, StaysPut, ShapesKept DEF ListsRefreshed, EditInventory, RefreshInventory, WriteInventory
<1>4. CASE UserForms \/ EditRole
  BY <1>4, StaysPut, ShapesKept DEF UserForms, EditRole
<1>5. CASE TransactionsDebounced \/ TransactionsArrive \/ FilterTransactions \/ TurnTransactions
  BY <1>5, StaysPut, ShapesKept
  DEF TransactionsDebounced, TransactionsArrive, FilterTransactions, TurnTransactions, Asks
<1> QED
  BY <1>1, <1>2, <1>3, <1>4, <1>5 DEF AdminPagesMount, AdminPagesSettle, AdminPagesActions, TableSteps

RoleMaps == [1..2 -> {0, 1}]
Rows == [has : BOOLEAN, stale : BOOLEAN, failed : BOOLEAN, missed : BOOLEAN, items : SUBSET {1, 2},
         pages : 0..2, roles : RoleMaps]

\* Every key has a row, and the server a role of each user.
TableOK(table, roles) == table \in [TableKeys -> Rows] /\ roles \in RoleMaps

\* The roles of those that the server finds for a key.
Agrees(key, roles) == \A user \in Found(key) : roles[user] = server.roles[user]

AsksKey(f) ==
    /\ f.arg[1] \in TableKeys
    /\ f.reply = None => f.arg = <<f.arg[1]>>
    /\ f.reply = "ok" => f.arg[2] \in RoleMaps
KeepsRow(f) == {2, 3} \subseteq DOMAIN f.arg /\ f.arg[2] \in {0, 1} /\ f.arg[3] \in Rows

\* A row that counts as fresh shows what the server has, and so does an answer
\* under way that will make one, unless a change of a role is under way.
RowTrue(key, row) ==
    row.has /\ ~row.stale /\ ~row.missed => row.items = Found(key) /\ Agrees(key, row.roles)
AnswerTrue(f) == f.reply = "ok" /\ f.value # 1 => Agrees(f.arg[1], f.arg[2])

RolesOK ==
    /\ TableOK(memory.table, server.roles)
    /\ local.page = "users" => local.number \in 1..2 /\ local.search \in {0, 1} /\ local.sent \in {0, 1}
    /\ \A f \in flights : f.kind = "users" => AsksKey(f)
    /\ \A f \in flights : f.kind = "role" => KeepsRow(f)
    /\ RoleFlights = {} =>
         /\ \A key \in TableKeys : RowTrue(key, memory.table[key])
         /\ \A f \in flights : f.kind = "users" => AnswerTrue(f)

LEMMA KeyShown ==
  ASSUME RolesOK, local.page = "users"
  PROVE  TableKey(local) \in TableKeys
BY DEF RolesOK, TableKey, TableKeys

LEMMA FoundFew == ASSUME NEW key \in TableKeys PROVE Found(key) \subseteq 1..2
BY DEF Found, TableKeys

\* What leaves the table, its page and its flights alone.
LEMMA RolesSpared ==
  ASSUME RolesOK, Spared(flights'), SameView(local'), TableStays
  PROVE  RolesOK'
<1>1. TableOK(memory'.table, server'.roles)
  BY DEF RolesOK, TableStays
<1>2. local'.page = "users" =>
        local'.number \in 1..2 /\ local'.search \in {0, 1} /\ local'.sent \in {0, 1}
  BY DEF RolesOK, SameView
<1>3. ASSUME NEW f \in flights' PROVE f.kind = "users" => AsksKey(f)
  BY DEF RolesOK, Spared, Twins, AsksKey
<1>4. ASSUME NEW f \in flights' PROVE f.kind = "role" => KeepsRow(f)
  BY DEF RolesOK, Spared, Twins, KeepsRow
<1>5. ASSUME RoleFlights' = {}
      PROVE  /\ \A key \in TableKeys : RowTrue(key, memory.table[key])'
             /\ \A f \in flights' : f.kind = "users" => AnswerTrue(f)'
  <2>1. RoleFlights = {}
    BY <1>5 DEF RoleFlights, Spared
  <2>2. \A key, roles : Agrees(key, roles)' = Agrees(key, roles)
    BY DEF Agrees, TableStays
  <2>3. \A key \in TableKeys : RowTrue(key, memory.table[key])'
    BY <2>1, <2>2 DEF RolesOK, RowTrue, TableStays
  <2>4. ASSUME NEW f \in flights', f.kind = "users" PROVE AnswerTrue(f)'
    <3>1. PICK g \in flights : Twins(f, g)
      BY <2>4 DEF Spared
    <3>2. AnswerTrue(g)
      BY <2>1, <2>4, <3>1 DEF RolesOK, Twins
    <3> QED
      BY <2>2, <3>1, <3>2 DEF Twins, AnswerTrue
  <2> QED
    BY <2>3, <2>4
<1> QED
  BY <1>1, <1>2, <1>3, <1>4, <1>5 DEF RolesOK

LEMMA EmptyRows == EmptyTable \in [TableKeys -> Rows] /\ \A key \in TableKeys : ~EmptyTable[key].has
<1>1. PICK row : row = [has |-> FALSE, stale |-> FALSE, failed |-> FALSE, missed |-> FALSE, items |-> {},
                        pages |-> 0, roles |-> <<0, 0>>]
  OBVIOUS
<1>2. row \in Rows /\ ~row.has
  <2>1. <<0, 0>> \in RoleMaps
    BY DEF RoleMaps
  <2> QED
    BY <1>1, <2>1 DEF Rows
<1>3. EmptyTable = [key \in TableKeys |-> row]
  BY <1>1 DEF EmptyTable
<1> QED
  BY <1>2, <1>3

LEMMA RolesRestarted == ASSUME RolesOK, Restarted PROVE RolesOK'
<1>1. /\ memory'.table = EmptyTable /\ flights' = {}
      /\ local'.page = None
  BY DEF Restarted, MemoryAtBoot, Unmounted
<1>2. TableOK(memory'.table, server'.roles)
  BY <1>1, EmptyRows DEF TableOK, RolesOK, Restarted
<1> QED
  BY <1>1, <1>2, EmptyRows DEF RolesOK, RowTrue, None

LEMMA RolesBefore == ASSUME Init PROVE RolesOK
<1>1. /\ memory.table = EmptyTable /\ flights = {}
      /\ local.page = None
  BY DEF Init, MemoryAtBoot, Unmounted
<1>2. TableOK(memory.table, server.roles)
  <2>1. server.roles = <<0, 0>>
    BY DEF Init
  <2> QED
    BY <1>1, <2>1, EmptyRows DEF TableOK, RoleMaps
<1> QED
  BY <1>1, <1>2, EmptyRows DEF RolesOK, RowTrue, None

\* Rows of which only the mark of a failure changes.
LEMMA RowsFailing ==
  ASSUME RolesOK, NEW key, NEW failed \in BOOLEAN, "table" \in DOMAIN memory,
         memory' = [memory EXCEPT !.table[key].failed = failed], UNCHANGED server
  PROVE  /\ TableOK(memory'.table, server'.roles)
         /\ \A k \in TableKeys : RowTrue(k, memory.table[k]) => RowTrue(k, memory.table[k])'
<1>1. memory'.table = [memory.table EXCEPT ![key] = [@ EXCEPT !.failed = failed]]
  OBVIOUS
<1>2. ASSUME NEW k \in TableKeys
      PROVE  memory'.table[k] \in {memory.table[k], [memory.table[k] EXCEPT !.failed = failed]}
  BY <1>1 DEF RolesOK, TableOK
<1>3. ASSUME NEW k \in TableKeys
      PROVE  memory'.table[k] \in Rows /\ (RowTrue(k, memory.table[k]) => RowTrue(k, memory.table[k])')
  <2>1. PICK old, new : /\ old = memory.table[k] /\ new = memory'.table[k]
                        /\ new \in {old, [old EXCEPT !.failed = failed]}
    BY <1>2
  <2>2. old \in Rows
    BY <2>1 DEF RolesOK, TableOK
  <2>3. /\ new \in Rows /\ new.has = old.has /\ new.stale = old.stale /\ new.missed = old.missed
        /\ new.items = old.items /\ new.roles = old.roles
    BY <2>1, <2>2 DEF Rows
  <2> QED
    BY <2>1, <2>3 DEF RowTrue, Agrees
<1>4. memory'.table \in [TableKeys -> Rows]
  BY <1>1, <1>3 DEF RolesOK, TableOK
<1> QED
  BY <1>3, <1>4 DEF RolesOK, TableOK

\* More of the table is asked for.
LEMMA RolesAsked ==
  ASSUME IInv, RolesOK, NEW key \in TableKeys, ShowsEntry(key), UNCHANGED server,
         local'.page = "users" =>
           local'.number \in 1..2 /\ local'.search \in {0, 1} /\ local'.sent \in {0, 1}
  PROVE  RolesOK'
<1>1. PICK asks, failed :
        /\ flights' = flights \cup asks /\ asks \subseteq {TableFetch(key)}
        /\ memory' = [memory EXCEPT !.table[key].failed = failed] /\ failed \in BOOLEAN
  <2>1. PICK asks :
          /\ flights' = flights \cup asks /\ asks \subseteq {TableFetch(key)}
          /\ memory' = [memory EXCEPT !.table[key].failed = @ /\ asks = {}]
    BY DEF ShowsEntry
  <2>2. PICK failed : failed = (memory.table[key].failed /\ asks = {})
    OBVIOUS
  <2>3. memory' = [memory EXCEPT !.table[key].failed = failed] /\ failed \in BOOLEAN
    BY <2>1, <2>2
  <2> QED
    BY <2>1, <2>3
<1>2. /\ TableOK(memory'.table, server'.roles)
      /\ \A k \in TableKeys : RowTrue(k, memory.table[k]) => RowTrue(k, memory.table[k])'
  BY <1>1, RowsFailing, NamedPage
<1>3. \A f \in asks : f.kind = "users" /\ AsksKey(f) /\ f.reply = None
  BY <1>1 DEF TableFetch, AsksKey, None
<1>4. RoleFlights' = {} => RoleFlights = {}
  BY <1>1 DEF RoleFlights
<1>5. \A f \in flights : f.kind = "users" /\ AnswerTrue(f) => AnswerTrue(f)'
  BY DEF AnswerTrue, Agrees
<1>6. \A f \in asks : AnswerTrue(f)'
  BY <1>3 DEF AnswerTrue, None
<1> QED
  BY <1>1, <1>2, <1>3, <1>4, <1>5, <1>6 DEF RolesOK

LEMMA RolesMount == ASSUME IInv, RolesOK, UsersMount PROVE RolesOK'
<1>1. TableKey(UsersPage) \in TableKeys
  BY DEF TableKey, UsersPage, TableKeys
<1>2. local'.page = "users" =>
        local'.number \in 1..2 /\ local'.search \in {0, 1} /\ local'.sent \in {0, 1}
  BY DEF UsersMount, UsersPage
<1> QED
  BY <1>1, <1>2, RolesAsked DEF UsersMount

\* Typing, searching and turning the page show a part of the table.
LEMMA RolesTurned ==
  ASSUME IInv, RolesOK, UsersTyped \/ UsersDebounced \/ UsersTurn
  PROVE  RolesOK'
<1>1. local.page = "users"
  BY DEF UsersTyped, UsersDebounced, UsersTurn, On
<1>2. /\ local.number \in 1..2 /\ local.search \in {0, 1} /\ local.sent \in {0, 1}
      /\ {"page", "number", "search", "sent"} \subseteq DOMAIN local
  BY <1>1, NamedPage DEF RolesOK
<1>3. PICK l : /\ TurnsTo(l)
               /\ l.number \in 1..2 /\ l.search \in {0, 1} /\ l.sent \in {0, 1}
  <2>1. CASE UsersTyped
    <3>1. PICK m, n : /\ m = [local EXCEPT !.number = 1, !.search = 1 - @]
                      /\ n = [local EXCEPT !.search = 0]
      OBVIOUS
    <3>2. TurnsTo(m) \/ TurnsTo(n)
      BY <2>1, <3>1 DEF UsersTyped
    <3>3. /\ m.number = 1 /\ m.search = 1 - local.search /\ m.sent = local.sent
          /\ n.number = local.number /\ n.search = 0 /\ n.sent = local.sent
      BY <1>2, <3>1
    <3>4. 1 - local.search \in {0, 1}
      BY <1>2
    <3> QED
      BY <1>2, <3>2, <3>3, <3>4
  <2>2. CASE UsersDebounced
    BY <1>2, <2>2 DEF UsersDebounced
  <2>3. CASE UsersTurn
    <3>1. PICK number \in UsersPaging : TurnsTo([local EXCEPT !.number = number])
      BY <2>3 DEF UsersTurn
    <3>2. Row(local).pages \in 0..2
      BY <1>1, KeyShown DEF RolesOK, TableOK, Rows, Row
    <3>3. number \in 1..2
      BY <3>1, <3>2 DEF UsersPaging
    <3> QED
      BY <1>2, <3>1, <3>3
  <2> QED
    BY <2>1, <2>2, <2>3
<1>4. TableKey(l) \in TableKeys
  BY <1>3 DEF TableKey, TableKeys
<1>5. CASE UNCHANGED <<flights, memory>>
  <2>1. UNCHANGED <<flights, memory, server>> /\ local' = l
    BY <1>3, <1>5 DEF TurnsTo
  <2> QED
    BY <1>3, <2>1 DEF RolesOK, RoleFlights, RowTrue, AnswerTrue, Agrees
<1>6. CASE ShowsEntry(TableKey(l))
  BY <1>3, <1>4, <1>6, RolesAsked DEF TurnsTo
<1> QED
  BY <1>3, <1>5, <1>6 DEF TurnsTo

\* Every row with data is marked as stale.
LEMMA StaleRows ==
  ASSUME NEW table \in [TableKeys -> Rows]
  PROVE  /\ StaleTable(table) \in [TableKeys -> Rows]
         /\ \A key \in TableKeys : StaleTable(table)[key].has => StaleTable(table)[key].stale
<1>1. ASSUME NEW key \in TableKeys
      PROVE  /\ StaleTable(table)[key] \in Rows
             /\ StaleTable(table)[key].has => StaleTable(table)[key].stale
  <2>1. PICK old, new, stale :
          /\ old = table[key] /\ new = StaleTable(table)[key]
          /\ stale = (old.stale \/ old.has)
    OBVIOUS
  <2>2. new = [old EXCEPT !.stale = stale]
    BY <2>1 DEF StaleTable
  <2>3. old \in Rows /\ stale \in BOOLEAN
    BY <2>1
  <2>4. new \in Rows /\ new.has = old.has /\ new.stale = stale
    BY <2>2, <2>3 DEF Rows
  <2> QED
    BY <2>1, <2>4
<1> QED
  BY <1>1 DEF StaleTable

\* The fetches that go on when the table is fetched again, and the one that starts.
LEMMA AgainAsks ==
  ASSUME RolesOK, NEW F, F \subseteq flights, NEW table, NEW f \in TableAgain(F, table)
  PROVE  f \in F \/ (f.kind = "users" /\ AsksKey(f) /\ f.reply = None)
<1>1. CASE local.page # "users"
  BY <1>1 DEF TableAgain
<1>2. CASE local.page = "users"
  <2>1. f \in F \/ f = TableFetch(TableKey(local))
    BY <1>2 DEF TableAgain, TableFetches
  <2> QED
    BY <1>2, <2>1, KeyShown DEF TableFetch, AsksKey, None
<1> QED
  BY <1>1, <1>2

LEMMA AgainKeeps ==
  ASSUME NEW F, NEW table, NEW f \in F, f.kind # "users"
  PROVE  f \in TableAgain(F, table)
BY DEF TableAgain, TableFetches

\* A form is answered, and the table is fetched again.
LEMMA RolesAdded == ASSUME IInv, RolesOK, NEW form \in UserFormKinds, UserAdded(form) PROVE RolesOK'
<1>1. PICK f, l :
        /\ f \in Waiting(form) /\ l = [local EXCEPT !.sending = @ \ {form}]
        /\ \/ Hears(f, l)
           \/ /\ local' = IF f.mine THEN [l EXCEPT !.form = IF @ = form THEN None ELSE @] ELSE local
              /\ flights' = TableAgain(flights \ {f}, memory.table)
              /\ memory' = [memory EXCEPT !.table = StaleTable(@)]
              /\ UNCHANGED server
  BY DEF UserAdded
<1>2. f \in flights /\ f.kind \notin {"users", "role"}
  BY <1>1 DEF Waiting, UserFormKinds
<1>3. SameView(l) /\ \A form2 : SameView([l EXCEPT !.form = form2])
  BY <1>1, NamedPage DEF SameView
<1>4. CASE Hears(f, l)
  <2>1. Spared(flights') /\ SameView(local') /\ TableStays
    BY <1>2, <1>3, <1>4 DEF Hears, Spared, Twins, SameView, TableStays
  <2> QED
    BY <2>1, RolesSpared
<1>5. CASE ~Hears(f, l)
  <2>1. SameView(local')
    <3>1. PICK form2 : local' \in {local, [l EXCEPT !.form = form2]}
      <4>1. local' \in {local, [l EXCEPT !.form = IF @ = form THEN None ELSE @]}
        BY <1>1, <1>5
      <4> QED
        BY <4>1
    <3> QED
      BY <1>3, <3>1 DEF SameView
  <2>2. /\ TableOK(memory'.table, server'.roles)
        /\ \A key \in TableKeys : memory'.table[key].has => memory'.table[key].stale
    <3>1. memory'.table = StaleTable(memory.table)
      BY <1>1, <1>5, NamedPage
    <3> QED
      BY <1>1, <1>5, <3>1, StaleRows DEF RolesOK, TableOK
  <2>3. flights' = TableAgain(flights \ {f}, memory.table)
    BY <1>1, <1>5
  <2>4. ASSUME NEW g \in flights'
        PROVE  g \in flights \/ (g.kind = "users" /\ AsksKey(g) /\ g.reply = None)
    BY <2>3, <2>4, AgainAsks
  <2>5. RoleFlights' = {} => RoleFlights = {}
    BY <1>2, <2>3, AgainKeeps DEF RoleFlights
  <2>6. \A g : AnswerTrue(g) => AnswerTrue(g)'
    BY <1>1, <1>5 DEF AnswerTrue, Agrees
  <2>7. \A g : g.reply = None => AnswerTrue(g)'
    BY DEF AnswerTrue, None
  <2>8. \A key \in TableKeys : RowTrue(key, memory.table[key])'
    BY <2>2 DEF RowTrue
  <2>9. local'.page = "users" =>
          local'.number \in 1..2 /\ local'.search \in {0, 1} /\ local'.sent \in {0, 1}
    BY <2>1 DEF SameView, RolesOK
  <2>10. \A g \in flights' : g.kind = "users" => AsksKey(g)
    BY <2>4 DEF RolesOK
  <2>11. \A g \in flights' : g.kind = "role" => KeepsRow(g)
    BY <2>4 DEF RolesOK
  <2>12. RoleFlights' = {} => \A g \in flights' : g.kind = "users" => AnswerTrue(g)'
    BY <2>4, <2>5, <2>6, <2>7 DEF RolesOK
  <2> QED
    BY <2>2, <2>8, <2>9, <2>10, <2>11, <2>12 DEF RolesOK
<1> QED
  BY <1>4, <1>5

LEMMA RolesReload == ASSUME IInv, RolesOK, UsersReload PROVE RolesOK'
<1>1. /\ flights' = TableAgain(flights, memory.table)
      /\ memory' = [memory EXCEPT !.table[TableKey(local)].failed = FALSE]
      /\ UNCHANGED <<local, server>>
  BY DEF UsersReload
<1>2. /\ TableOK(memory'.table, server'.roles)
      /\ \A k \in TableKeys : RowTrue(k, memory.table[k]) => RowTrue(k, memory.table[k])'
  BY <1>1, RowsFailing, NamedPage
<1>3. ASSUME NEW g \in flights'
      PROVE  g \in flights \/ (g.kind = "users" /\ AsksKey(g) /\ g.reply = None)
  BY <1>1, <1>3, AgainAsks
<1>4. RoleFlights' = {} => RoleFlights = {}
  BY <1>1, AgainKeeps DEF RoleFlights
<1>5. \A g : AnswerTrue(g) => AnswerTrue(g)'
  BY <1>1 DEF AnswerTrue, Agrees
<1>6. \A g : g.reply = None => AnswerTrue(g)'
  BY DEF AnswerTrue, None
<1>7. \A g \in flights' : /\ g.kind = "users" => AsksKey(g)
                          /\ g.kind = "role" => KeepsRow(g)
  BY <1>3 DEF RolesOK
<1>8. RoleFlights' = {} => \A g \in flights' : g.kind = "users" => AnswerTrue(g)'
  BY <1>3, <1>4, <1>5, <1>6 DEF RolesOK
<1> QED
  BY <1>1, <1>2, <1>4, <1>7, <1>8 DEF RolesOK

\* The server reads the roles as they are now.
LEMMA RolesListed == ASSUME IInv, RolesOK, ServerListsUsers PROVE RolesOK'
<1>1. PICK f \in Waiting("users") :
        LET roles == [user \in 1..2 |-> IF user \in Found(f.arg[1]) THEN server.roles[user] ELSE 0] IN
        /\ flights' = (flights \ {f}) \cup {[f EXCEPT !.reply = "ok", !.arg = Append(@, roles)]}
        /\ UNCHANGED <<local, memory, server>>
  BY DEF ServerListsUsers
<1>2. PICK key, roles, g :
        /\ key = f.arg[1] /\ roles = [user \in 1..2 |-> IF user \in Found(key) THEN server.roles[user] ELSE 0]
        /\ g = [f EXCEPT !.reply = "ok", !.arg = Append(f.arg, roles)]
        /\ flights' = (flights \ {f}) \cup {g}
  BY <1>1
<1>3. f \in flights /\ f.kind = "users" /\ key \in TableKeys /\ f.arg = <<key>>
  BY <1>1, <1>2 DEF Waiting, RolesOK, AsksKey
<1>4. FlightFields \subseteq DOMAIN f
  BY <1>3, WholeNow DEF Whole, Fetched, Framed
<1>5. g.kind = "users" /\ g.arg = Append(<<key>>, roles) /\ g.reply = "ok"
  BY <1>2, <1>3, <1>4 DEF FlightFields
<1>6. g.arg[1] = key /\ g.arg[2] = roles
  BY <1>5
<1>7. AsksKey(g) /\ AnswerTrue(g)'
  <2>2. roles \in RoleMaps
    BY <1>2 DEF RolesOK, TableOK, RoleMaps
  <2>1. Agrees(key, roles)'
    BY <1>1, <1>2, <1>3, FoundFew DEF Agrees
  <2> QED
    BY <1>3, <1>5, <1>6, <2>1, <2>2 DEF AsksKey, AnswerTrue, None
<1>8. RoleFlights' = {} => RoleFlights = {}
  BY <1>2, <1>3 DEF RoleFlights
<1>9. \A h : AnswerTrue(h) => AnswerTrue(h)'
  BY <1>1 DEF AnswerTrue, Agrees
<1>10. \A k \in TableKeys : RowTrue(k, memory.table[k]) => RowTrue(k, memory.table[k])'
  BY <1>1 DEF RowTrue, Agrees
<1> QED
  BY <1>1, <1>2, <1>5, <1>7, <1>8, <1>9, <1>10 DEF RolesOK

\* And the answer becomes the row of its key.
LEMMA RolesArrive == ASSUME IInv, RolesOK, UsersArrive PROVE RolesOK'
<1>1. PICK f, key :
        /\ f \in flights
        /\ f.kind = "users" /\ key = f.arg[1] /\ flights' = flights \ {f}
        /\ \/ memory' = [memory EXCEPT !.table[key].failed = ~memory.table[key].has]
           \/ /\ f.reply = "ok"
              /\ memory' = [memory EXCEPT !.table[key] =
                   [has |-> TRUE, stale |-> FALSE, failed |-> FALSE, missed |-> f.value = 1,
                    items |-> Found(key),
                    pages |-> PagesFound(key[2]), roles |-> f.arg[2]]]
        /\ UNCHANGED <<local, server>>
  BY DEF UsersArrive, TableFetches
<1>2. RoleFlights' = RoleFlights
  BY <1>1 DEF RoleFlights
<1>3. /\ \A g \in flights' : g.kind = "users" => AsksKey(g)
      /\ \A g \in flights' : g.kind = "role" => KeepsRow(g)
      /\ RoleFlights' = {} => \A g \in flights' : g.kind = "users" => AnswerTrue(g)'
  BY <1>1, <1>2 DEF RolesOK, AnswerTrue, Agrees
<1>4. ASSUME /\ memory'.table \in [TableKeys -> Rows]
             /\ RoleFlights = {} => \A k \in TableKeys : RowTrue(k, memory.table[k])'
      PROVE  RolesOK'
  BY <1>1, <1>2, <1>3, <1>4 DEF RolesOK, TableOK
<1>5. CASE memory' = [memory EXCEPT !.table[key].failed = ~memory.table[key].has]
  <2>1. PICK failed \in BOOLEAN : failed = ~memory.table[key].has
    OBVIOUS
  <2>2. memory' = [memory EXCEPT !.table[key].failed = failed]
    BY <1>5, <2>1
  <2> QED
    BY <1>1, <1>4, <2>2, RowsFailing, NamedPage DEF RolesOK, TableOK
<1>6. CASE ~(memory' = [memory EXCEPT !.table[key].failed = ~memory.table[key].has])
  <2>1. PICK row : row = [has |-> TRUE, stale |-> FALSE, failed |-> FALSE, missed |-> f.value = 1,
                          items |-> Found(key), pages |-> PagesFound(key[2]), roles |-> f.arg[2]]
    OBVIOUS
  <2>2. memory'.table = [memory.table EXCEPT ![key] = row] /\ f.reply = "ok"
    BY <1>1, <1>6, <2>1, NamedPage
  <2>3. key \in TableKeys /\ DOMAIN memory.table = TableKeys
    BY <1>1 DEF RolesOK, TableOK, AsksKey
  <2>4. row \in Rows
    <3>1. Found(key) \subseteq {1, 2} /\ PagesFound(key[2]) \in 0..2
      BY <2>3, FoundFew DEF PagesFound
    <3>2. f.arg[2] \in RoleMaps
      BY <1>1, <2>2 DEF RolesOK, AsksKey
    <3> QED
      BY <2>1, <3>1, <3>2 DEF Rows
  <2>5. RoleFlights = {} => RowTrue(key, row)'
    <3>1. RoleFlights = {} => AnswerTrue(f)
      BY <1>1 DEF RolesOK
    <3>2. ~row.missed => f.value # 1
      BY <2>1
    <3>3. row.items = Found(key) /\ row.roles = f.arg[2]
      BY <2>1
    <3> QED
      BY <1>1, <2>2, <3>1, <3>2, <3>3 DEF RowTrue, AnswerTrue, Agrees
  <2>6. ASSUME NEW k \in TableKeys
        PROVE  memory'.table[k] = IF k = key THEN row ELSE memory.table[k]
    BY <2>2, <2>3
  <2>8. memory'.table \in [TableKeys -> Rows]
    BY <2>2, <2>3, <2>4 DEF RolesOK, TableOK
  <2>9. ASSUME RoleFlights = {}, NEW k \in TableKeys PROVE RowTrue(k, memory.table[k])'
    <3>1. CASE k = key
      BY <2>5, <2>6, <2>9, <3>1 DEF RowTrue, Agrees
    <3>2. CASE k # key
      BY <1>1, <2>6, <2>9, <3>2 DEF RolesOK, RowTrue, Agrees
    <3> QED
      BY <3>1, <3>2
  <2> QED
    BY <1>4, <2>8, <2>9
<1> QED
  BY <1>5, <1>6

\* While a change of a role is under way, nothing is claimed of the rows.
LEMMA RolesChanging ==
  ASSUME TableOK(memory'.table, server'.roles),
         local'.page = "users" =>
           local'.number \in 1..2 /\ local'.search \in {0, 1} /\ local'.sent \in {0, 1},
         \A f \in flights' : (f.kind = "users" => AsksKey(f)) /\ (f.kind = "role" => KeepsRow(f)),
         \E f \in flights' : f.kind = "role"
  PROVE  RolesOK'
BY DEF RolesOK, RoleFlights

LEMMA RolesSaved == ASSUME IInv, RolesOK, SaveRole PROVE RolesOK'
<1>1. PICK key, user, row, role, shown :
        /\ key = TableKey(local) /\ user = local.editing
        /\ row = [Row(local) EXCEPT !.stale = FALSE] /\ role = 1 - row.roles[user]
        /\ shown = [row EXCEPT !.roles[user] = role]
  OBVIOUS
<1>2. /\ flights' = {Keeps(f, key) : f \in {g \in flights : g.kind # "users" \/ g.arg[1] # key}}
                   \cup {[Flight("role", None, <<user, role, row, <<>>>>) EXCEPT !.n = FreeNumber(RoleFlights)]}
      /\ memory' = [memory EXCEPT !.table[key] = shown]
      /\ local' = [local EXCEPT !.editing = 0] /\ local.page = "users"
  BY <1>1 DEF SaveRole, On
<1>3. key \in TableKeys /\ Row(local) \in Rows /\ user \in Row(local).items
  BY <1>1, <1>2, KeyShown DEF RolesOK, TableOK, Row, SaveRole
<1>4. row \in Rows /\ user \in {1, 2}
  BY <1>1, <1>3 DEF Rows
<1>5. role \in {0, 1} /\ shown \in Rows
  <2>1. row.roles \in RoleMaps /\ row.roles[user] \in {0, 1}
    BY <1>4 DEF Rows, RoleMaps
  <2>2. role \in {0, 1}
    BY <1>1, <2>1
  <2>3. PICK roles : roles = [row.roles EXCEPT ![user] = role] /\ shown = [row EXCEPT !.roles = roles]
    BY <1>1
  <2>4. roles \in RoleMaps
    BY <2>1, <2>2, <2>3 DEF RoleMaps
  <2> QED
    BY <1>4, <2>2, <2>3, <2>4 DEF Rows
<1>6. TableOK(memory'.table, server'.roles)
  <2>1. memory'.table = [memory.table EXCEPT ![key] = shown]
    BY <1>2, NamedPage
  <2>2. UNCHANGED server
    BY DEF SaveRole
  <2> QED
    BY <1>3, <1>5, <2>1, <2>2 DEF RolesOK, TableOK
<1>7. local'.page = "users" =>
        local'.number \in 1..2 /\ local'.search \in {0, 1} /\ local'.sent \in {0, 1}
  BY <1>2, NamedPage DEF RolesOK
<1>8. PICK new, n : /\ n = FreeNumber(RoleFlights)
                    /\ new = [Flight("role", None, <<user, role, row, <<>>>>) EXCEPT !.n = n]
  OBVIOUS
<1>9. new.kind = "role" /\ KeepsRow(new)
  <2>1. new.kind = "role" /\ new.arg = <<user, role, row, <<>>>>
    BY <1>8, FlightIs DEF FlightFields
  <2> QED
    BY <1>4, <1>5, <2>1 DEF KeepsRow
<1>10. ASSUME NEW f \in flights
       PROVE  LET g == Keeps(f, key) IN
              (g.kind = "users" => AsksKey(g)) /\ (g.kind = "role" => KeepsRow(g))
  <2>1. CASE Keeps(f, key) = f
    BY <2>1 DEF RolesOK
  <2>2. CASE Keeps(f, key) # f
    <3>1. f.kind = "role" /\ Keeps(f, key) = [f EXCEPT !.arg[4] = key]
      BY <2>2 DEF Keeps, RoleFlights
    <3>2. FlightFields \subseteq DOMAIN f /\ KeepsRow(f)
      BY <3>1, WholeNow DEF Whole, Fetched, Framed, RolesOK
    <3>3. PICK g : g = Keeps(f, key)
      OBVIOUS
    <3>4. g.kind = "role" /\ g.arg = [f.arg EXCEPT ![4] = key]
      BY <3>1, <3>2, <3>3 DEF FlightFields
    <3>5. DOMAIN g.arg = DOMAIN f.arg /\ g.arg[2] = f.arg[2] /\ g.arg[3] = f.arg[3]
      BY <3>2, <3>4 DEF KeepsRow
    <3> QED
      BY <3>2, <3>3, <3>4, <3>5 DEF KeepsRow
  <2> QED
    BY <2>1, <2>2
<1>11. /\ \A f \in flights' : (f.kind = "users" => AsksKey(f)) /\ (f.kind = "role" => KeepsRow(f))
       /\ \E f \in flights' : f.kind = "role"
  BY <1>2, <1>8, <1>9, <1>10 DEF AsksKey
<1> QED
  BY <1>6, <1>7, <1>11, RolesChanging

LEMMA RolesSet == ASSUME IInv, RolesOK, ServerSetsRole PROVE RolesOK'
<1>1. PICK f \in Waiting("role"), reply \in {"ok", "failed"} :
        /\ flights' = Answered(f, reply, 0) /\ UNCHANGED <<local, memory>>
        /\ server' \in {server, [server EXCEPT !.roles[f.arg[1]] = f.arg[2]]}
  BY DEF ServerSetsRole, Answers
<1>2. PICK g : g = [f EXCEPT !.reply = reply, !.value = 0]
  OBVIOUS
<1>3. f \in flights /\ f.kind = "role" /\ flights' = (flights \ {f}) \cup {g}
  BY <1>1, <1>2 DEF Waiting, Answered
<1>4. g.kind = "role" /\ g.arg = f.arg
  BY <1>2, <1>3, WholeNow DEF Whole, Fetched, Framed, FlightFields
<1>5. /\ \A h \in flights' : (h.kind = "users" => AsksKey(h)) /\ (h.kind = "role" => KeepsRow(h))
      /\ \E h \in flights' : h.kind = "role"
  BY <1>3, <1>4 DEF RolesOK, KeepsRow
<1>6. TableOK(memory'.table, server'.roles)
  <2>1. f.arg[2] \in {0, 1}
    BY <1>3 DEF RolesOK, KeepsRow
  <2>2. "roles" \in DOMAIN server
    BY DEF IInv, ServerOK
  <2>3. server'.roles \in {server.roles, [server.roles EXCEPT ![f.arg[1]] = f.arg[2]]}
    BY <1>1, <2>2
  <2> QED
    BY <1>1, <2>1, <2>3 DEF RolesOK, TableOK, RoleMaps
<1> QED
  BY <1>1, <1>5, <1>6, RolesChanging DEF RolesOK

\* A change that settles marks every row and every answer under way.
LEMMA RolesSettled == ASSUME IInv, RolesOK, RoleSettles PROVE RolesOK'
<1>1. PICK f, key, back :
        /\ f \in flights /\ f.kind = "role"
        /\ back = IF f.reply = "ok" THEN memory.table ELSE [memory.table EXCEPT ![key] = f.arg[3]]
        /\ memory' = [memory EXCEPT !.table = StaleTable(back)]
        /\ flights' = {IF g.kind = "users" /\ g.reply = "ok" THEN [g EXCEPT !.value = 1] ELSE g
                         : g \in TableAgain(flights \ {f}, back)}
        /\ local' = IF f.mine THEN [local EXCEPT !.editing = 0] ELSE local
        /\ UNCHANGED server
  BY DEF RoleSettles, Arriving
<1>2. back \in [TableKeys -> Rows]
  BY <1>1 DEF RolesOK, TableOK, KeepsRow
<1>3. /\ TableOK(memory'.table, server'.roles)
      /\ \A k \in TableKeys : memory'.table[k].has => memory'.table[k].stale
  <2>1. memory'.table = StaleTable(back)
    BY <1>1, NamedPage
  <2> QED
    BY <1>1, <1>2, <2>1, StaleRows DEF RolesOK, TableOK
<1>4. local'.page = "users" =>
        local'.number \in 1..2 /\ local'.search \in {0, 1} /\ local'.sent \in {0, 1}
  BY <1>1, NamedPage DEF RolesOK
<1>5. ASSUME NEW g \in TableAgain(flights \ {f}, back), NEW h,
             h = IF g.kind = "users" /\ g.reply = "ok" THEN [g EXCEPT !.value = 1] ELSE g
      PROVE  /\ h.kind = "users" => AsksKey(h) /\ AnswerTrue(h)'
             /\ h.kind = "role" => KeepsRow(h)
  <2>1. g \in flights \/ (g.kind = "users" /\ AsksKey(g) /\ g.reply = None)
    BY <1>5, AgainAsks
  <2>2. (g.kind = "users" => AsksKey(g)) /\ (g.kind = "role" => KeepsRow(g))
    BY <2>1 DEF RolesOK
  <2>3. CASE g.kind = "users" /\ g.reply = "ok"
    <3>1. g \in flights
      BY <2>1, <2>3 DEF None
    <3>2. FlightFields \subseteq DOMAIN g
      BY <3>1, WholeNow DEF Whole, Fetched, Framed
    <3>3. h.kind = "users" /\ h.arg = g.arg /\ h.reply = g.reply /\ h.value = 1
      BY <1>5, <2>3, <3>2 DEF FlightFields
    <3> QED
      BY <2>2, <2>3, <3>3 DEF AsksKey, AnswerTrue
  <2>4. CASE ~(g.kind = "users" /\ g.reply = "ok")
    BY <1>5, <2>2, <2>4 DEF AnswerTrue
  <2> QED
    BY <2>3, <2>4
<1>6. \A h \in flights' : /\ h.kind = "users" => AsksKey(h) /\ AnswerTrue(h)'
                          /\ h.kind = "role" => KeepsRow(h)
  <2> SUFFICES ASSUME NEW h \in flights'
               PROVE  /\ h.kind = "users" => AsksKey(h) /\ AnswerTrue(h)'
                      /\ h.kind = "role" => KeepsRow(h)
    OBVIOUS
  <2>1. PICK g \in TableAgain(flights \ {f}, back) :
          h = IF g.kind = "users" /\ g.reply = "ok" THEN [g EXCEPT !.value = 1] ELSE g
    BY <1>1
  <2> QED
    BY <1>5, <2>1
<1>7. \A k \in TableKeys : RowTrue(k, memory.table[k])'
  BY <1>3 DEF RowTrue
<1> QED
  BY <1>3, <1>4, <1>6, <1>7 DEF RolesOK

LEMMA RolesStep == ASSUME IInv, RolesOK, [Next]_vars PROVE RolesOK'
<1>1. CASE UNCHANGED vars
  <2>1. Spared(flights') /\ SameView(local') /\ TableStays
    BY <1>1, WholeNow DEF vars, Whole, SameView, TableStays
  <2> QED
    BY <2>1, RolesSpared
<1>2. ASSUME NEW key \in Keys, QueryArrives(key) PROVE RolesOK'
  <2>1. PICK f \in FetchOf(key) : flights' = flights \ {f} /\ UNCHANGED <<local, memory, server>>
    BY <1>2 DEF QueryArrives
  <2>2. Spared(flights') /\ SameView(local') /\ TableStays
    BY <2>1 DEF FetchOf, Spared, Twins, SameView, TableStays
  <2> QED
    BY <2>2, RolesSpared
<1>3. CASE UsersMount \/ TableSteps
  BY <1>3, RolesMount, RolesTurned, RolesReload, RolesListed, RolesArrive, RolesAdded, RolesSaved,
     RolesSet, RolesSettled
  DEF TableSteps
<1>4. CASE Next /\ (\A key \in Keys : ~QueryArrives(key)) /\ ~UsersMount /\ ~TableSteps
  <2>1. Restarted \/ TableStays
    BY <1>4, SessionKept, SessionPagesKept, OrderPagesKept, AccountPagesKept, StaffPagesKept, AdminPagesKept
    DEF Next, PagesMount, PagesSettle
  <2>2. Undisturbed \/ Fetches \/ Acknowledges
    BY <1>4, SessionCalm, MountsCalm, SessionPagesCalm, OrderPagesCalm, AccountPagesCalm, StaffPagesCalm,
       AdminPagesCalm
    DEF Next, PagesSettle
  <2>3. Restarted \/ (Spared(flights') /\ SameView(local'))
    BY <2>2 DEF Undisturbed, Fetches, Acknowledges, Whole, Watches
  <2> QED
    BY <2>1, <2>3, RolesRestarted, RolesSpared
<1> QED
  BY <1>1, <1>2, <1>3, <1>4

\* However changes of roles, their rollbacks, searches, turned pages, reloads
\* and answers overlap, the table of users shows what the server has once all
\* is settled, except in rows that are marked as stale or that came from a
\* fetch under way when a change settled (UsersAdmin.tsx).
THEOREM RolesSettle == Spec => []RolesConverge
<1>1. ASSUME IInv, RolesOK PROVE RolesConverge
  <2> SUFFICES ASSUME local.page = "users", {f \in flights : f.kind \in {"role", "users"}} = {},
                      Row(local).has, ~Row(local).stale, ~Row(local).missed
               PROVE  /\ Row(local).items = Found(TableKey(local))
                      /\ \A user \in Row(local).items : Row(local).roles[user] = server.roles[user]
    BY DEF RolesConverge
  <2>1. RoleFlights = {}
    BY DEF RoleFlights
  <2>2. RowTrue(TableKey(local), Row(local))
    BY <1>1, <2>1, KeyShown DEF RolesOK, Row
  <2> QED
    BY <2>2 DEF RowTrue, Agrees
<1> QED
  BY <1>1, RolesBefore, RolesStep, Invariant, PTL DEF Spec

(* The types *)

LEMMA PlacesTyped ==
  ASSUME IInv
  PROVE  /\ location.path \in Shown /\ location.order \in 0..Len(server.orders) /\ location.amount \in Int
         /\ history \subseteq [path : Shown, order : 1..Len(server.orders), amount : Int, from : {None, "link"}]
<1>1. Len(server.orders) \in Nat
  BY DEF IInv, ServerOK, OrdersOK
<1>2. ASSUME NEW there \in history \cup {location}
      PROVE  LocationOK(there, server.orders) /\ there.path \in Shown
  BY DEF IInv, PlacesOK
<1>3. ASSUME NEW h \in history
      PROVE  h \in [path : Shown, order : 1..Len(server.orders), amount : Int, from : {None, "link"}]
  <2>1. h = [path |-> h.path, order |-> h.order, amount |-> h.amount, from |-> h.from]
    BY <1>2 DEF LocationOK
  <2>2. h.order # 0
    BY DEF IInv
  <2>3. /\ h.path \in Shown /\ h.order \in 1..Len(server.orders) /\ h.amount \in Int
        /\ h.from \in {None, "link"}
    BY <1>2, <2>2 DEF LocationOK
  <2> QED
    BY <2>1, <2>3
<1>4. location.order \in 0..Len(server.orders) /\ location.amount \in Int
  BY <1>1, <1>2 DEF LocationOK
<1> QED
  BY <1>2, <1>3, <1>4

LEMMA MemoryTyped ==
  ASSUME IInv, RolesOK
  PROVE  memory \in [user : {None} \cup Roles, loading : BOOLEAN, confirmation : BOOLEAN,
                     recaptcha : BOOLEAN, sdk : BOOLEAN, table : [TableKeys -> Rows]]
<1>1. memory \in [user : {None} \cup Roles, loading : BOOLEAN, confirmation : BOOLEAN,
                  recaptcha : BOOLEAN, sdk : BOOLEAN, table : {memory.table}]
  BY DEF IInv, MemoryOK
<1>2. memory.table \in [TableKeys -> Rows]
  BY DEF RolesOK, TableOK
<1> QED
  BY <1>1, <1>2

\* The pages of which TypeOK says something.
LEMMA PageTyped ==
  ASSUME IInv
  PROVE  /\ local.page \in Pages
         /\ local.page = "order" =>
              /\ local.step \in 1..3 /\ local.quantity \in 1..MaxQuantity /\ local.extra \in 0..1
              /\ local.picker.month \in 1..MaxMonth /\ local.picker.shown \in 0..MaxMonth
         /\ local.page = "payment" => local.checks \in Nat /\ local.discount \in {0, RewardValue}
         /\ local.page = "welcome" => local.claims \in 0..MaxFlights
         /\ local.page = "washHistory" => local.number >= 1
<1>1. LocalOK(local)
  BY DEF IInv
<1>2. local.page = "order" => FormOK(local)
  BY <1>1 DEF LocalOK
<1>3. local.page = "order" =>
        /\ local.step \in 1..3 /\ local.quantity \in 1..MaxQuantity /\ local.extra \in 0..1
        /\ local.picker.month \in 1..MaxMonth /\ local.picker.shown \in 0..MaxMonth
  BY <1>2 DEF FormOK, PickerOK
<1> QED
  BY <1>1, <1>3 DEF LocalOK

\* What the tab keeps stays in its ranges: the place shown and the places to go
\* back to are pages of the tour with an order the server has, or none; the
\* rows of the table of users and the entries of the query cache keep their
\* form through rollbacks, invalidations and late answers (UsersAdmin.tsx
\* onMutate and onError); the order form stays within its steps, quantities
\* and months (OrderForm.tsx); the payment page takes off a reward once
\* (Payment.tsx); and the history of washes never turns below its first page
\* (WashHistory.tsx).
THEOREM TypeCorrect == Spec => []TypeOK
<1>1. ASSUME IInv, RolesOK, CacheOK PROVE TypeOK
  <2>1. \A f \in flights : f.mine \in BOOLEAN /\ f.n \in Nat /\ f.value \in Nat
    BY <1>1, FlightsTyped DEF FlightTyped
  <2>2. /\ storage.token \in {None} \cup Roles /\ storage.role \in {None} \cup Roles
        /\ storage.period \in {"week", "month", "custom"}
    BY <1>1 DEF IInv, StorageOK
  <2>3. cache \in [Keys -> Entries]
    BY <1>1 DEF CacheOK
  <2> QED
    BY <1>1, <2>1, <2>2, <2>3, PlacesTyped, MemoryTyped, PageTyped DEF TypeOK, Shown, Rows, RoleMaps, Entries
<1> QED
  BY <1>1, RolesBefore, RolesStep, CacheBefore, CacheStep, Invariant, PTL DEF Spec

(* One chain of requests at a time *)

\* The requests of Chains, and the one for a token between a confirmed code
\* and the registration.
ChainKinds == {"login", "signup", "sms", "confirm", "exchange", "token", "register", "create",
               "popup", "charge", "redeem", "qr", "refreshThen", "poll", "pollTimer",
               "updateProfile", "addVehicle", "endWash", "startWash", "recompute", "logVisit"}

\* A token is asked for to register, or to sign in with another account.
Registering == <<1>>
Linked(F) == {f \in F : f.mine /\ f.kind \in ChainKinds /\ (f.kind = "token" => f.arg = Registering)}

\* What page l shows while a request of this kind is under way for it.
Awaits(l, kind) ==
    /\ kind = "login" => l.page = "login" /\ l.submitting
    /\ kind = "signup" => l.page = "signup" /\ l.submitting
    /\ kind = "sms" => l.page = "onboarding" /\ l.sending
    /\ kind \in {"confirm", "exchange", "token", "register"} => l.page = "verify" /\ l.loading
    /\ kind = "create" => l.page = "order" /\ l.submitting
    /\ kind \in {"popup", "charge", "redeem", "qr", "refreshThen"}
         => l.page = "payment" /\ l.paying /\ ~l.applying
    /\ kind \in {"poll", "pollTimer"} => l.page = "welcome"
    /\ kind = "updateProfile" => l.page = "profile" /\ l.updating
    /\ kind = "addVehicle" => l.page = "profile" /\ l.adding
    /\ kind = "endWash" => l.page = "dashboard" /\ l.ending
    /\ kind = "startWash" => l.page = "verification" /\ l.starting
    /\ kind = "recompute" => l.page = "customers" /\ l.refreshing
    /\ kind = "logVisit" => l.page = "visit" /\ l.loading = "log"

\* The flags that say so, by page.
FlagsOf(page) ==
    CASE page \in {"login", "signup", "order"} -> {"submitting"}
      [] page = "onboarding" -> {"sending"}
      [] page \in {"verify", "visit"} -> {"loading"}
      [] page = "payment" -> {"paying", "applying"}
      [] page = "profile" -> {"updating", "adding"}
      [] page = "dashboard" -> {"ending"}
      [] page = "verification" -> {"starting"}
      [] page = "customers" -> {"refreshing"}
      [] OTHER -> {}

Flagged(l) ==
    /\ "page" \in DOMAIN l /\ FlagsOf(l.page) \subseteq DOMAIN l
    /\ l.page = "payment" => (l.applying => l.paying)

ProfileKinds == {"updateProfile", "addVehicle"}

\* Requests of other handlers, whose answers set fields that are flags elsewhere.
FormKinds == {"names", "reset", "createItem", "save", "delete", "refreshLists", "createUser", "registerStaff"}
SenderOf(kind) ==
    CASE kind = "names" -> "onboarding"
      [] kind = "reset" -> "reset"
      [] kind \in {"createUser", "registerStaff"} -> "users"
      [] OTHER -> "inventory"

\* Page l waits for the requests of F that belong to it, of which there is one;
\* the profile has two forms, with a request each.
Fine(l, F) ==
    /\ Flagged(l)
    /\ \A f \in Linked(F) : Awaits(l, f.kind)
    /\ \A f, g \in Linked(F) : f = g \/ (f.kind \in ProfileKinds /\ f.kind # g.kind)
    /\ \A f \in F : f.mine /\ f.kind \in FormKinds => l.page = SenderOf(f.kind)
    /\ \A f \in F : f.kind = "pollTimer" => f.mine

\* A page that waits for all that the mounted one waits for: what it shows of
\* that is the same.
Mounted(l) == Flagged(l) /\ l.page = local.page
KeepsWaiting(l) == Mounted(l) /\ \A kind \in ChainKinds : Awaits(local, kind) => Awaits(l, kind)

FlagsKept(l) ==
    /\ l.page = local.page /\ DOMAIN l = DOMAIN local
    /\ \A flag \in FlagsOf(local.page) : l[flag] = local[flag]

\* Flights of which only the others have changed.
Besides(G, F) == \A g \in G :
    \/ g \in F
    \/ g.kind \notin ChainKinds \cup FormKinds
    \/ g.kind \notin ChainKinds /\ \E f \in F : f.kind = g.kind /\ f.mine = g.mine

LEMMA KeptWaits == ASSUME NEW l, Flagged(local), FlagsKept(l) PROVE KeepsWaiting(l)
<1>1. Flagged(l)
  BY DEF FlagsKept, Flagged, FlagsOf
<1>2. ASSUME NEW kind \in ChainKinds, Awaits(local, kind) PROVE Awaits(l, kind)
  BY <1>2 DEF FlagsKept, Awaits, FlagsOf
<1> QED
  BY <1>1, <1>2 DEF KeepsWaiting, Mounted, FlagsKept

\* A page without such a flag.
LEMMA PlainWaits ==
  ASSUME NEW l, Flagged(local), FlagsOf(local.page) = {}, "page" \in DOMAIN l, l.page = local.page
  PROVE  KeepsWaiting(l)
<1>1. local.page \notin {"login", "signup", "order", "onboarding", "verify", "visit", "payment", "profile",
                         "dashboard", "verification", "customers"}
  BY DEF FlagsOf
<1> QED
  BY <1>1 DEF KeepsWaiting, Mounted, Flagged, Awaits

LEMMA FineKept == ASSUME NEW F, NEW l, Fine(local, F), KeepsWaiting(l) PROVE Fine(l, F)
BY DEF Fine, KeepsWaiting, Mounted, Linked

LEMMA FineBesides ==
  ASSUME NEW l, NEW F, NEW G, Fine(l, F), Besides(G, F)
  PROVE  Fine(l, G)
<1>1. Linked(G) \subseteq Linked(F)
  BY DEF Linked, Besides
<1>2. \A g \in G : /\ g.kind = "pollTimer" => g.mine
                   /\ g.mine /\ g.kind \in FormKinds => l.page = SenderOf(g.kind)
  BY DEF Fine, Besides, ChainKinds
<1> QED
  BY <1>1, <1>2 DEF Fine

LEMMA FineRest == ASSUME NEW l, NEW F, NEW f, Fine(l, F) PROVE Fine(l, F \ {f})
BY FineBesides DEF Besides

\* A page that waits for nothing may change as it likes, or make way.
LEMMA FineIdle ==
  ASSUME NEW l, NEW F, Fine(local, F), Mounted(l), Linked(F) = {}
  PROVE  Fine(l, F)
BY DEF Fine, Mounted

\* A request of its chain comes to an end.
LEMMA FineEnded ==
  ASSUME NEW l, NEW F, Fine(local, F), NEW f \in F, Mounted(l),
         f.mine, f.kind \in ChainKinds \ (ProfileKinds \cup {"token"}) 
  PROVE  Fine(l, F \ {f})
<1>1. f \in Linked(F)
  BY DEF Linked
<1>2. Linked(F \ {f}) = {}
  BY <1>1 DEF Fine, Linked
<1>3. Fine(local, F \ {f})
  BY FineRest
<1> QED
  BY <1>2, <1>3, FineIdle

\* A request of its chain follows another.
LEMMA FineFollowed ==
  ASSUME NEW F, Fine(local, F), NEW f \in F, NEW g, g.mine => f.mine, g.kind \notin ProfileKinds,
         g.kind = "pollTimer" => g.mine,
         g.kind \in FormKinds => f.kind \in FormKinds /\ SenderOf(g.kind) = SenderOf(f.kind),
         g.kind \in ChainKinds /\ (g.kind = "token" => g.arg = Registering) =>
           /\ f.kind \in ChainKinds /\ (f.kind = "token" => f.arg = Registering) /\ f.kind \notin ProfileKinds
           /\ Awaits(local, f.kind) => Awaits(local, g.kind)
  PROVE  Fine(local, (F \ {f}) \cup {g})
<1>0. g.mine /\ g.kind \in FormKinds => local.page = SenderOf(g.kind)
  BY DEF Fine
<1>1. CASE g \notin Linked({g})
  <2>1. Linked((F \ {f}) \cup {g}) \subseteq Linked(F)
    BY <1>1 DEF Linked
  <2> QED
    BY <1>0, <2>1 DEF Fine
<1>2. CASE g \in Linked({g})
  <2>1. f \in Linked(F)
    BY <1>2 DEF Linked
  <2>2. Linked((F \ {f}) \cup {g}) = {g}
    BY <1>2, <2>1 DEF Fine, Linked
  <2> QED
    BY <1>0, <2>1, <2>2, <1>2 DEF Fine, Linked
<1> QED
  BY <1>1, <1>2

\* A page that waits for nothing starts a chain.
LEMMA FineStarted ==
  ASSUME NEW l, NEW F, Fine(local, F), Linked(F) = {}, Mounted(l),
         NEW g, g.mine, Awaits(l, g.kind), g.kind \notin FormKinds
  PROVE  Fine(l, F \cup {g})
<1>1. Linked(F \cup {g}) \subseteq {g}
  BY DEF Linked
<1> QED
  BY <1>1 DEF Fine, Mounted

LEMMA FineOrphaned == ASSUME NEW F, Framed(F) PROVE Fine(Unmounted, Orphaned(F))
<1>1. ASSUME NEW f \in Orphaned(F) PROVE f.kind # "pollTimer" /\ ~f.mine
  <2>1. PICK g \in F : g.kind \notin Cleared /\ f = [g EXCEPT !.mine = FALSE]
    BY DEF Orphaned
  <2>2. "kind" \in DOMAIN g /\ "mine" \in DOMAIN g
    BY DEF Framed, FlightFields
  <2> QED
    BY <2>1, <2>2 DEF Cleared
<1>2. Linked(Orphaned(F)) = {}
  BY <1>1 DEF Linked
<1>3. Flagged(Unmounted)
  BY DEF Flagged, FlagsOf, Unmounted, None
<1> QED
  BY <1>1, <1>2, <1>3 DEF Fine

LEMMA NavigatesFine ==
  ASSUME NEW there, NEW F, Fine(local, F), Framed(F), NavigateWith(there, F)
  PROVE  Fine(local, flights)'
<1>1. \/ flights' = F /\ UNCHANGED local
      \/ flights' = Orphaned(F) /\ local' = Unmounted
  BY DEF NavigateWith
<1>2. \A l, G : local' = l /\ flights' = G /\ Fine(l, G) => Fine(local, flights)'
  BY DEF Fine, Linked, Flagged, Awaits
<1> QED
  BY <1>1, <1>2, FineOrphaned

LEMMA ThenMine ==
  ASSUME NEW f, NEW kind, NEW arg
  PROVE  Then(f, kind, arg).mine = f.mine /\ Then(f, kind, arg).kind = kind /\ Then(f, kind, arg).arg = arg
BY DEF Then, Flight

\* The effect of Welcome runs again: one chain replaces the other.
LEMMA FineRepolled ==
  ASSUME NEW F, Fine(local, F), Framed(F)
  PROVE  Fine(local, Repolled(F))
<1>1. CASE local.page # "welcome"
  BY <1>1 DEF Repolled
<1>2. CASE local.page = "welcome"
  <2>1. PICK new : new = Flight("poll", None, <<>>)
    OBVIOUS
  <2>2. PICK chain, old :
          /\ chain = {f \in F : f.kind = "poll" /\ f.mine}
          /\ old = {[f EXCEPT !.kind = "pollOld", !.n = FreeNumber({g \in F : g.kind = "pollOld"})] : f \in chain}
    OBVIOUS
  <2>3. Repolled(F) = (F \ (chain \cup {f \in F : f.kind = "pollTimer"})) \cup old \cup {new}
    BY <1>2, <2>1, <2>2 DEF Repolled
  <2>4. ASSUME NEW f \in old PROVE f.kind = "pollOld"
    <3>1. PICK g \in chain : f = [g EXCEPT !.kind = "pollOld",
                                           !.n = FreeNumber({h \in F : h.kind = "pollOld"})]
      BY <2>2
    <3>2. "kind" \in DOMAIN g
      BY <2>2 DEF Framed, FlightFields
    <3> QED
      BY <3>1, <3>2
  <2>5. \A f \in Linked(F) : f.kind \in {"poll", "pollTimer"}
    BY <1>2 DEF Fine, Awaits, Linked, ChainKinds
  <2>6. Linked(Repolled(F)) \subseteq {new}
    BY <2>2, <2>3, <2>4, <2>5 DEF Linked, ChainKinds
  <2>9. \A f \in Repolled(F) : f.kind \in FormKinds => f \in F
    BY <2>1, <2>3, <2>4 DEF FormKinds, Flight
  <2>7. new.kind = "poll"
    BY <2>1 DEF Flight
  <2>8. \A f \in Repolled(F) : f.kind # "pollTimer"
    BY <2>3, <2>4, <2>7
  <2> QED
    BY <1>2, <2>6, <2>7, <2>8, <2>9 DEF Fine, Awaits
<1> QED
  BY <1>1, <1>2

(* What the shapes of handlers make of the chains *)

ChainsOK == Fine(local, flights)

LEMMA ChainsNext ==
  ASSUME NEW l, NEW F, local' = l, flights' = F, Fine(l, F)
  PROVE  ChainsOK'
BY DEF ChainsOK, Fine, Linked, Flagged, Awaits

LEMMA Idle ==
  ASSUME ChainsOK, \A kind \in ChainKinds : ~Awaits(local, kind)
  PROVE  Linked(flights) = {}
BY DEF ChainsOK, Fine, Linked

LEMMA FramedNow == ASSUME IInv PROVE Framed(flights) /\ \A S : Framed(flights \ S)
BY DEF IInv, FlightsOK, Framed

LEMMA FliesFine ==
  ASSUME ChainsOK, NEW l, local' = l, KeepsWaiting(l), NEW F, flights' = F, Besides(F, flights)
  PROVE  ChainsOK'
BY FineBesides, FineKept, ChainsNext DEF ChainsOK

LEMMA SetsFine == ASSUME ChainsOK, NEW l, Sets(l), KeepsWaiting(l) PROVE ChainsOK'
BY FliesFine DEF Sets, Besides

LEMMA LocalWaits == ASSUME ChainsOK PROVE KeepsWaiting(local)
BY DEF ChainsOK, Fine, KeepsWaiting, Mounted

\* A request that is part of no chain.
LEMMA SendsFine ==
  ASSUME ChainsOK, NEW l, NEW kind, kind \notin ChainKinds \cup FormKinds, NEW key, NEW arg,
         SetsAndSends(l, {Flight(kind, key, arg)}), KeepsWaiting(l)
  PROVE  ChainsOK'
<1>1. Flight(kind, key, arg).kind = kind
  BY DEF Flight
<1>2. Besides(flights \cup {Flight(kind, key, arg)}, flights)
  BY <1>1 DEF Besides
<1> QED
  BY <1>2, FliesFine DEF SetsAndSends

\* A request of another form.
LEMMA SendsForm ==
  ASSUME ChainsOK, NEW l, NEW kind \in FormKinds, NEW key, NEW arg,
         SetsAndSends(l, {Flight(kind, key, arg)}), KeepsWaiting(l), local.page = SenderOf(kind)
  PROVE  ChainsOK'
<1>1. PICK g : g = Flight(kind, key, arg)
  OBVIOUS
<1>2. g.kind = kind /\ kind \notin ChainKinds
  BY <1>1 DEF Flight, FormKinds, ChainKinds
<1>3. Fine(l, flights)
  BY FineKept DEF ChainsOK
<1>4. l.page = SenderOf(g.kind) /\ g.kind # "pollTimer"
  BY <1>2 DEF KeepsWaiting, Mounted, ChainKinds
<1>5. Linked(flights \cup {g}) = Linked(flights)
  BY <1>2 DEF Linked
<1>6. Fine(l, flights \cup {g})
  BY <1>3, <1>4, <1>5 DEF Fine
<1> QED
  BY <1>1, <1>6, ChainsNext DEF SetsAndSends

LEMMA StartsFine ==
  ASSUME ChainsOK, \A k \in ChainKinds : ~Awaits(local, k), NEW l, NEW kind, NEW key, NEW arg,
         kind \notin FormKinds, SetsAndSends(l, {Flight(kind, key, arg)}), Mounted(l), Awaits(l, kind)
  PROVE  ChainsOK'
<1>1. PICK g : g = Flight(kind, key, arg)
  OBVIOUS
<1>2. g.mine /\ g.kind = kind
  BY <1>1 DEF Flight
<1>3. Fine(l, flights \cup {g})
  BY <1>2, Idle, FineStarted DEF ChainsOK
<1> QED
  BY <1>1, <1>3, ChainsNext DEF SetsAndSends

LEMMA HearsFine ==
  ASSUME ChainsOK, NEW f, NEW l, Hears(f, l), KeepsWaiting(l)
  PROVE  ChainsOK'
BY LocalWaits, FliesFine DEF Hears, Besides

LEMMA EndsFine ==
  ASSUME ChainsOK, NEW f \in flights, NEW l, Hears(f, l),
         f.kind \in ChainKinds \ (ProfileKinds \cup {"token"}), f.mine => Mounted(l)
  PROVE  ChainsOK'
BY FineEnded, FineRest, ChainsNext DEF Hears, ChainsOK

LEMMA GoesFine ==
  ASSUME ChainsOK, NEW f \in flights, NEW kind, kind \notin ProfileKinds \cup FormKinds \cup {"pollTimer"}, NEW arg,
         kind \in ChainKinds /\ (kind = "token" => arg = Registering) =>
           /\ f.kind \in ChainKinds /\ (f.kind = "token" => f.arg = Registering) /\ f.kind \notin ProfileKinds
           /\ Awaits(local, f.kind) => Awaits(local, kind)
  PROVE  Fine(local, GoesOn(f, kind, arg))
<1>1. PICK g : g = Then(f, kind, arg)
  OBVIOUS
<1>2. g.mine = f.mine /\ g.kind = kind /\ g.arg = arg
  BY <1>1, ThenMine
<1>3. Fine(local, (flights \ {f}) \cup {g})
  BY <1>2, FineFollowed DEF ChainsOK
<1> QED
  BY <1>1, <1>3 DEF GoesOn

LEMMA AnswersFine ==
  ASSUME IInv, ChainsOK, NEW f \in flights, NEW reply, NEW value, f.kind \notin ProfileKinds \cup {"token"}
  PROVE  Fine(local, Answered(f, reply, value))
<1>1. PICK g : g = [f EXCEPT !.reply = reply, !.value = value]
  OBVIOUS
<1>2. g.mine = f.mine /\ g.kind = f.kind /\ g.arg = f.arg
  BY <1>1, FramedNow DEF Framed, FlightFields
<1>3. Fine(local, (flights \ {f}) \cup {g})
  BY <1>2, FineFollowed DEF ChainsOK, Fine
<1> QED
  BY <1>1, <1>3 DEF Answered

LEMMA ReloadsFine == ASSUME NEW there, Reloads(there) PROVE ChainsOK'
<1>1. Fine(Unmounted, {})
  BY DEF Fine, Linked, Flagged, FlagsOf, Unmounted, None
<1> QED
  BY <1>1, ChainsNext DEF Reloads

LEMMA ForcedFine == ASSUME ForcedOut PROVE ChainsOK'
BY ReloadsFine DEF ForcedOut

LEMMA NavigateFine ==
  ASSUME NEW path, NEW F, Fine(local, F), Framed(F), Navigate(path, F)
  PROVE  ChainsOK'
BY NavigatesFine DEF Navigate, ChainsOK

LEMMA FramedRepolled == ASSUME NEW F, Framed(F) PROVE Framed(Repolled(F))
<1>1. PICK chain, old :
        /\ chain = {f \in F : f.kind = "poll" /\ f.mine}
        /\ old = {[f EXCEPT !.kind = "pollOld", !.n = FreeNumber({g \in F : g.kind = "pollOld"})] : f \in chain}
  OBVIOUS
<1>2. Framed(old)
  <2> SUFFICES ASSUME NEW f \in old PROVE FlightFields \subseteq DOMAIN f
    BY DEF Framed
  <2>1. PICK g \in chain : f = [g EXCEPT !.kind = "pollOld",
                                         !.n = FreeNumber({h \in F : h.kind = "pollOld"})]
    BY <1>1
  <2> QED
    BY <1>1, <2>1 DEF Framed, FlightFields
<1>3. PICK G : G = F \ (chain \cup {f \in F : f.kind = "pollTimer"})
  OBVIOUS
<1>4. Repolled(F) \in {F, G \cup old \cup {Flight("poll", None, <<>>)}}
  BY <1>1, <1>3 DEF Repolled
<1>5. Framed(G)
  BY <1>3 DEF Framed
<1>6. Framed({Flight("poll", None, <<>>)})
  BY FramedNew
<1>7. Framed(G \cup old \cup {Flight("poll", None, <<>>)})
  BY <1>2, <1>5, <1>6, FramedParts
<1> QED
  BY <1>4, <1>7

LEMMA HearsMeFine ==
  ASSUME NEW f, NEW reply, NEW there, NEW before, HearsMe(f, reply, there, before),
         Fine(local, before), Framed(before)
  PROVE  ChainsOK'
<1>1. CASE reply = "rejected"
  BY <1>1, ForcedFine DEF HearsMe
<1>2. CASE reply # "rejected"
  <2>1. PICK F : F = IF reply = "ok" THEN Repolled(before) ELSE before
    OBVIOUS
  <2>2. Fine(local, F) /\ Framed(F)
    BY <2>1, FineRepolled, FramedRepolled
  <2>3. \/ \E to : NavigateWith(to, F)
        \/ flights' = F /\ UNCHANGED local
    BY <1>2, <2>1 DEF HearsMe
  <2> QED
    BY <2>2, <2>3, NavigatesFine, ChainsNext DEF ChainsOK
<1> QED
  BY <1>1, <1>2

LEMMA RestFine == ASSUME IInv, ChainsOK PROVE \A f : Fine(local, flights \ {f}) /\ Framed(flights \ {f})
BY FineRest, FramedNow DEF ChainsOK

LEMMA KeepsPlain ==
  ASSUME ChainsOK, FlagsOf(local.page) = {}, NEW l, "page" \in DOMAIN l, l.page = local.page
  PROVE  KeepsWaiting(l)
BY PlainWaits DEF ChainsOK, Fine

LEMMA KeepsFlags == ASSUME ChainsOK, NEW l, FlagsKept(l) PROVE KeepsWaiting(l)
BY KeptWaits DEF ChainsOK, Fine

LEMMA HasFlags == ASSUME ChainsOK PROVE Flagged(local)
BY DEF ChainsOK, Fine

LEMMA SessionFine == ASSUME IInv, ChainsOK, SessionSettles \/ Moves PROVE ChainsOK'
<1>1. CASE Boot
  <2>1. Flight("boot", storage.token, <<>>).kind = "boot"
    BY DEF Flight
  <2>2. Besides(flights', flights) /\ UNCHANGED local
    BY <1>1, <2>1 DEF Boot, Besides, ChainKinds, FormKinds
  <2> QED
    BY <2>2, LocalWaits, FliesFine
<1>2. CASE BootEnds
  BY <1>2, RestFine, HearsMeFine DEF BootEnds
<1>3. CASE RefreshEnds
  BY <1>3, RestFine, HearsMeFine DEF RefreshEnds
<1>4. CASE GuardActs
  BY <1>4, FramedNow, FineOrphaned, ChainsNext, NavigateFine DEF GuardActs, ChainsOK
<1>5. CASE Moves
  BY <1>5, FramedNow, ReloadsFine, NavigateFine, NavigatesFine, ChainsNext
  DEF Moves, FollowLink, GoBack, Reload, NavLogout, SignsOut, ChainsOK
<1> QED
  BY <1>1, <1>2, <1>3, <1>4, <1>5 DEF SessionSettles

\* A page mounts that shows the flags of what it can wait for.
LEMMA MountIdle ==
  ASSUME ChainsOK, local.page = None
  PROVE  \A kind \in ChainKinds : ~Awaits(local, kind)
BY DEF Awaits, ChainKinds, None

LEMMA MountsFine ==
  ASSUME ChainsOK, local.page = None, NEW l, local' = l, Flagged(l), NEW F, flights' = F, Besides(F, flights)
  PROVE  ChainsOK'
<1>1. Linked(flights) = {}
  BY MountIdle, Idle
<1>2. Fine(local, F)
  BY FineBesides DEF ChainsOK
<1>3. Linked(F) = {}
  BY <1>1 DEF Linked, Besides
<1>4. \A f \in F : ~(f.mine /\ f.kind \in FormKinds)
  BY <1>2 DEF Fine, FormKinds, SenderOf, None
<1> QED
  BY <1>2, <1>3, <1>4, ChainsNext DEF Fine

LEMMA SetsMounts ==
  ASSUME ChainsOK, local.page = None, NEW l, Sets(l), Flagged(l)
  PROVE  ChainsOK'
BY MountsFine DEF Sets, Besides

LEMMA SessionPagesMountFine == ASSUME IInv, ChainsOK, SessionPagesMount PROVE ChainsOK'
<1>1. local.page = None
  BY DEF SessionPagesMount, LoginMount, SignupMount, OnboardingMount, OtpMount, ForgotMount, ResetMount, Mounts
<1>2. CASE OtpMount
  <2>1. Flagged(OtpPage)
    BY DEF OtpPage, Flagged, FlagsOf
  <2>2. \/ local' = OtpPage /\ UNCHANGED flights
        \/ \E there : NavigateWith(there, flights)
    BY <1>2 DEF OtpMount
  <2>3. Besides(flights, flights)
    BY DEF Besides
  <2> QED
    BY <1>1, <2>1, <2>2, <2>3, MountsFine, NavigatesFine, FramedNow DEF ChainsOK
<1>3. CASE ~OtpMount
  <2>1. PICK l : Sets(l) /\ (l = LoginPage \/ l = [page |-> "signup", submitting |-> FALSE, failure |-> None]
                              \/ l = OnboardingPage \/ l = PasswordPage("forgot") \/ l = PasswordPage("reset"))
    BY <1>3 DEF SessionPagesMount, LoginMount, SignupMount, OnboardingMount, ForgotMount, ResetMount
  <2>2. Flagged(l)
    BY <2>1 DEF LoginPage, OnboardingPage, PasswordPage, Flagged, FlagsOf
  <2> QED
    BY <1>1, <2>1, <2>2, SetsMounts
<1> QED
  BY <1>2, <1>3

LEMMA SessionPagesActionsFine == ASSUME IInv, ChainsOK, SessionPagesActions PROVE ChainsOK'
<1>1. CASE LoginSubmit
  <2>1. PICK l : /\ l = [local EXCEPT !.submitting = TRUE, !.failure = None]
                 /\ SetsAndSends(l, {Flight("login", tour.who, <<>>)})
    BY <1>1 DEF LoginSubmit
  <2>2. local.page = "login" /\ ~local.submitting
    BY <1>1 DEF LoginSubmit, LoginOffers, On
  <2>3. Mounted(l) /\ Awaits(l, "login") /\ \A kind \in ChainKinds : ~Awaits(local, kind)
    BY <2>1, <2>2, HasFlags DEF Mounted, Flagged, FlagsOf, Awaits, ChainKinds
  <2> QED
    BY <2>1, <2>3, StartsFine DEF FormKinds
<1>2. CASE SignupSubmit
  <2>1. PICK l : /\ l = [local EXCEPT !.submitting = TRUE, !.failure = None]
                 /\ SetsAndSends(l, {Flight("signup", tour.who, <<>>)})
    BY <1>2 DEF SignupSubmit
  <2>2. local.page = "signup" /\ ~local.submitting
    BY <1>2 DEF SignupSubmit, On
  <2>3. Mounted(l) /\ Awaits(l, "signup") /\ \A kind \in ChainKinds : ~Awaits(local, kind)
    BY <2>1, <2>2, HasFlags DEF Mounted, Flagged, FlagsOf, Awaits, ChainKinds
  <2> QED
    BY <2>1, <2>3, StartsFine DEF FormKinds
<1>3. CASE PhoneSubmit
  <2>1. local.page = "onboarding" /\ ~local.sending
    BY <1>3 DEF PhoneSubmit, OnboardingOffers, On
  <2>2. CASE Sets([local EXCEPT !.failure = "phone"])
    <3>1. FlagsKept([local EXCEPT !.failure = "phone"])
      BY <2>1, HasFlags DEF Flagged, FlagsKept, FlagsOf
    <3> QED
      BY <2>2, <3>1, KeepsFlags, SetsFine
  <2>3. CASE ~Sets([local EXCEPT !.failure = "phone"])
    <3>1. PICK l : /\ l = [local EXCEPT !.sending = TRUE, !.failure = None]
                   /\ SetsAndSends(l, {Flight("sms", tour.who, <<>>)})
      BY <1>3, <2>3 DEF PhoneSubmit
    <3>2. Mounted(l) /\ Awaits(l, "sms") /\ \A kind \in ChainKinds : ~Awaits(local, kind)
      BY <2>1, <3>1, HasFlags DEF Mounted, Flagged, FlagsOf, Awaits, ChainKinds
    <3> QED
      BY <3>1, <3>2, StartsFine DEF FormKinds
  <2> QED
    BY <2>2, <2>3
<1>4. CASE OtpSubmit
  <2>1. PICK l : /\ l = [local EXCEPT !.loading = TRUE]
                 /\ SetsAndSends(l, {Flight("confirm", tour.who, <<>>)})
    BY <1>4 DEF OtpSubmit
  <2>2. local.page = "verify" /\ ~local.loading
    BY <1>4 DEF OtpSubmit, OtpOffers, On
  <2>3. Mounted(l) /\ Awaits(l, "confirm") /\ \A kind \in ChainKinds : ~Awaits(local, kind)
    BY <2>1, <2>2, HasFlags DEF Mounted, Flagged, FlagsOf, Awaits, ChainKinds
  <2> QED
    BY <2>1, <2>3, StartsFine DEF FormKinds
<1>5. CASE OnboardingType
  <2>1. PICK l : l \in {[local EXCEPT !.names = ~@], [local EXCEPT !.phone = ~@], local} /\ local' = l
    BY <1>5 DEF OnboardingType
  <2>2. local.page = "onboarding" /\ UNCHANGED flights
    BY <1>5 DEF OnboardingType, On
  <2>3. FlagsKept(l)
    BY <2>1, <2>2, HasFlags DEF Flagged, FlagsKept, FlagsOf
  <2> QED
    BY <2>1, <2>2, <2>3, KeepsFlags, FliesFine DEF Besides
<1>6. CASE GoogleStarts
  <2>1. local.page = "login"
    BY <1>6 DEF GoogleStarts, On
  <2>2. FlagsKept([local EXCEPT !.failure = None])
    BY <2>1, HasFlags DEF Flagged, FlagsKept, FlagsOf
  <2> QED
    BY <1>6, <2>2, KeepsFlags, SendsFine DEF FormKinds, GoogleStarts, ChainKinds
<1>7. CASE GooglePopupEnds
  <2>1. PICK f \in Waiting("google") :
           \/ Hears(f, [local EXCEPT !.failure = "social"])
           \/ flights' = GoesOn(f, "social", <<>>) /\ UNCHANGED local
    BY <1>7 DEF GooglePopupEnds
  <2>2. FlagsKept([local EXCEPT !.failure = "social"])
    BY HasFlags DEF Flagged, FlagsKept, FlagsOf
  <2>3. f \in flights /\ f.kind = "google"
    BY DEF Waiting
  <2>4. Fine(local, GoesOn(f, "social", <<>>))
    BY <2>3, GoesFine DEF FormKinds, ChainKinds, ProfileKinds
  <2> QED
    BY <2>1, <2>2, <2>4, KeepsFlags, HearsFine, ChainsNext
<1>8. CASE ProfileSubmit
  <2>1. local.page = "onboarding"
    BY <1>8 DEF ProfileSubmit, On
  <2>2. \/ \E l : Sets(l) /\ l \in {[local EXCEPT !.failure = "names"], [local EXCEPT !.failure = None, !.step = 2]}
        \/ SetsAndSends([local EXCEPT !.loading = TRUE], {Flight("names", tour.who, <<>>)})
    BY <1>8 DEF ProfileSubmit
  <2>3. /\ FlagsKept([local EXCEPT !.failure = "names"])
        /\ FlagsKept([local EXCEPT !.failure = None, !.step = 2])
        /\ FlagsKept([local EXCEPT !.loading = TRUE])
    BY <2>1, HasFlags DEF Flagged, FlagsKept, FlagsOf
  <2> QED
    BY <2>1, <2>2, <2>3, KeepsFlags, SetsFine, SendsForm DEF FormKinds, SenderOf
<1>9. CASE OtpType
  <2>1. FlagsKept([local EXCEPT !.code = ~@])
    BY <1>9, HasFlags DEF OtpType, On, Flagged, FlagsKept, FlagsOf
  <2> QED
    BY <1>9, <2>1, KeepsFlags, SetsFine DEF OtpType
<1>10. CASE OtpBack
  BY <1>10, NavigatesFine, FramedNow DEF OtpBack, ChainsOK
<1>11. CASE OtpResend
  <2>1. FlagsKept([local EXCEPT !.waiting = TRUE])
    BY <1>11, HasFlags DEF OtpResend, On, Flagged, FlagsKept, FlagsOf
  <2> QED
    BY <1>11, <2>1, KeepsFlags, SendsFine DEF FormKinds, OtpResend, ChainKinds
<1>12. CASE ForgotSubmit \/ ResetSubmit
  <2>1. FlagsOf(local.page) = {}
    BY <1>12 DEF ForgotSubmit, ResetSubmit, On, FlagsOf
  <2>2. KeepsWaiting([local EXCEPT !.submitting = TRUE])
    BY <2>1, NamedPage, KeepsPlain
  <2> QED
    BY <1>12, <2>2, SetsFine, SendsForm DEF ForgotSubmit, ResetSubmit, On, FormKinds, SenderOf
<1> QED
  BY <1>1, <1>2, <1>3, <1>4, <1>5, <1>6, <1>7, <1>8, <1>9, <1>10, <1>11, <1>12 DEF SessionPagesActions

LEMMA SessionPagesSettleFine == ASSUME IInv, ChainsOK, SessionPagesSettle PROVE ChainsOK'
<1>1. CASE LoginEnds
  <2>1. PICK f \in Waiting("login") :
          \/ ForcedOut \/ \E there : NavigateWith(there, flights \ {f})
          \/ Hears(f, [local EXCEPT !.submitting = FALSE, !.failure = "unavailable"])
    BY <1>1 DEF LoginEnds, Navigate
  <2>2. f \in flights /\ f.kind = "login"
    BY DEF Waiting
  <2>3. Mounted([local EXCEPT !.submitting = FALSE, !.failure = "unavailable"])
    BY HasFlags DEF Mounted, Flagged, FlagsOf
  <2> QED
    BY <2>1, <2>2, <2>3, ForcedFine, NavigatesFine, RestFine, EndsFine DEF ChainKinds, ProfileKinds, ChainsOK
<1>2. CASE SocialEnds
  <2>1. PICK f \in Waiting("social") :
          \/ ForcedOut \/ Hears(f, [local EXCEPT !.failure = "social"])
          \/ \E there : NavigateWith(there, flights \ {f})
          \/ flights' = GoesOn(f, "token", <<0>>) /\ UNCHANGED local
    BY <1>2 DEF SocialEnds
  <2>2. FlagsKept([local EXCEPT !.failure = "social"])
    BY HasFlags DEF Flagged, FlagsKept, FlagsOf
  <2>3. Fine(local, GoesOn(f, "token", <<0>>))
    <3>1. f \in flights /\ <<0>> # Registering
      BY DEF Waiting, Registering
    <3> QED
      BY <3>1, GoesFine DEF FormKinds, ProfileKinds
  <2> QED
    BY <2>1, <2>2, <2>3, ForcedFine, KeepsFlags, HearsFine, NavigatesFine, RestFine, ChainsNext DEF ChainsOK
<1>3. CASE SignupEnds
  <2>1. PICK f \in Waiting("signup") :
          \/ Hears(f, [local EXCEPT !.submitting = FALSE, !.failure = "refused"])
          \/ \E there : NavigateWith(there, flights \ {f})
    BY <1>3 DEF SignupEnds
  <2>2. f \in flights /\ f.kind = "signup"
    BY DEF Waiting
  <2>3. Mounted([local EXCEPT !.submitting = FALSE, !.failure = "refused"])
    BY HasFlags DEF Mounted, Flagged, FlagsOf
  <2> QED
    BY <2>1, <2>2, <2>3, NavigatesFine, RestFine, EndsFine DEF ChainKinds, ProfileKinds, ChainsOK
<1>4. CASE SmsEnds
  <2>1. PICK f \in Waiting("sms") :
          \/ Hears(f, [local EXCEPT !.sending = FALSE, !.failure = "sms"])
          \/ \E there : NavigateWith(there, flights \ {f})
    BY <1>4 DEF SmsEnds
  <2>2. f \in flights /\ f.kind = "sms"
    BY DEF Waiting
  <2>3. Mounted([local EXCEPT !.sending = FALSE, !.failure = "sms"])
    BY HasFlags DEF Mounted, Flagged, FlagsOf
  <2> QED
    BY <2>1, <2>2, <2>3, NavigatesFine, RestFine, EndsFine DEF ChainKinds, ProfileKinds, ChainsOK
<1>5. CASE RecaptchaStarts
  BY <1>5, SendsFine, LocalWaits DEF FormKinds, RecaptchaStarts, ChainKinds
<1>6. CASE RecaptchaEnds
  <2>1. PICK f, l : /\ l \in {[local EXCEPT !.failure = "recaptcha"], [local EXCEPT !.recaptcha = TRUE], local}
                    /\ flights' = flights \ {f} /\ local' = l
    BY <1>6 DEF RecaptchaEnds, Hears
  <2>2. FlagsKept(l)
    BY <2>1, HasFlags DEF Flagged, FlagsKept, FlagsOf
  <2> QED
    BY <2>1, <2>2, KeepsFlags, FliesFine DEF Besides
<1>7. CASE ProfileSaved
  <2>1. PICK f \in Waiting("names") :
          \/ ForcedOut
          \/ Hears(f, [local EXCEPT !.loading = FALSE, !.failure = None, !.step = 2])
          \/ Hears(f, [local EXCEPT !.loading = FALSE, !.failure = "profile"])
    BY <1>7 DEF ProfileSaved
  <2>2. CASE f.mine
    <3>1. local.page = "onboarding"
      BY <2>2 DEF ChainsOK, Fine, Waiting, FormKinds, SenderOf
    <3>2. /\ FlagsKept([local EXCEPT !.loading = FALSE, !.failure = None, !.step = 2])
          /\ FlagsKept([local EXCEPT !.loading = FALSE, !.failure = "profile"])
      BY <3>1, HasFlags DEF Flagged, FlagsKept, FlagsOf
    <3> QED
      BY <2>1, <3>2, ForcedFine, KeepsFlags, HearsFine
  <2>3. CASE ~f.mine
    BY <2>1, <2>3, ForcedFine, LocalWaits, FliesFine DEF Hears, Besides
  <2> QED
    BY <2>2, <2>3
<1>8. CASE OtpTimer
  <2>1. FlagsKept([local EXCEPT !.waiting = FALSE])
    BY <1>8, HasFlags DEF OtpTimer, On, Flagged, FlagsKept, FlagsOf
  <2> QED
    BY <1>8, <2>1, KeepsFlags, SetsFine DEF OtpTimer
<1>9. CASE ResendEnds
  <2>1. PICK f : Hears(f, [local EXCEPT !.waiting = FALSE]) \/ Hears(f, local)
    BY <1>9 DEF ResendEnds
  <2>2. FlagsKept([local EXCEPT !.waiting = FALSE])
    BY HasFlags DEF Flagged, FlagsKept, FlagsOf
  <2> QED
    BY <2>1, <2>2, KeepsFlags, LocalWaits, HearsFine
<1>10. CASE ConfirmEnds
  <2>1. PICK f \in Waiting("confirm") :
           \/ Hears(f, [local EXCEPT !.loading = FALSE, !.failure = "otp"])
           \/ flights' = GoesOn(f, "exchange", <<1>>) /\ UNCHANGED local
    BY <1>10 DEF ConfirmEnds, OtpFails
  <2>2. f \in flights /\ f.kind = "confirm"
    BY DEF Waiting
  <2>3. Fine(local, GoesOn(f, "exchange", <<1>>))
    BY <2>2, GoesFine DEF FormKinds, ChainKinds, ProfileKinds, Awaits
  <2>4. Mounted([local EXCEPT !.loading = FALSE, !.failure = "otp"])
    BY HasFlags DEF Mounted, Flagged, FlagsOf
  <2> QED
    BY <2>1, <2>2, <2>3, <2>4, EndsFine, ChainsNext DEF ChainKinds, ProfileKinds
<1>11. CASE ExchangeEnds
  <2>1. PICK f \in Waiting("exchange") :
          \/ flights' = GoesOn(f, "token", <<1>>) /\ UNCHANGED local
          \/ \E arg : flights' = GoesOn(f, "exchange", arg) /\ UNCHANGED local
          \/ /\ flights' = flights \ {f}
             /\ local' = IF f.mine THEN [local EXCEPT !.loading = FALSE, !.failure = "otp"] ELSE local
    BY <1>11 DEF ExchangeEnds
  <2>2. f \in flights /\ f.kind = "exchange"
    BY DEF Waiting
  <2>3. \A arg : Fine(local, GoesOn(f, "exchange", arg)) /\ Fine(local, GoesOn(f, "token", arg))
    BY <2>2, GoesFine DEF FormKinds, ChainKinds, ProfileKinds, Awaits
  <2>4. Mounted([local EXCEPT !.loading = FALSE, !.failure = "otp"])
    BY HasFlags DEF Mounted, Flagged, FlagsOf
  <2>5. Fine(local, flights \ {f}) /\ (f.mine => Fine([local EXCEPT !.loading = FALSE, !.failure = "otp"], flights \ {f}))
    BY <2>2, <2>4, RestFine, FineEnded DEF ChainKinds, ProfileKinds, ChainsOK
  <2> QED
    BY <2>1, <2>3, <2>5, ChainsNext
<1>12. CASE TokenEnds
  <2>1. PICK f \in Waiting("token"), reply \in {"ok", "forbidden", "failed", "rejected"} :
          \/ \E there : HearsMe(f, reply, there, IF reply = "ok" /\ f.arg = <<1>>
                                                   THEN GoesOn(f, "register", <<>>) ELSE flights \ {f})
          \/ /\ f.mine /\ flights' = flights \ {f}
             /\ local' = IF f.arg = <<1>> THEN [local EXCEPT !.loading = FALSE, !.failure = "otp"]
                         ELSE [local EXCEPT !.failure = "social"]
    BY <1>12 DEF TokenEnds
  <2>2. f \in flights /\ f.kind = "token"
    BY DEF Waiting
  <2>3. CASE \E there : HearsMe(f, reply, there, IF reply = "ok" /\ f.arg = <<1>>
                                                   THEN GoesOn(f, "register", <<>>) ELSE flights \ {f})
    <3>1. PICK F : F = IF reply = "ok" /\ f.arg = <<1>> THEN GoesOn(f, "register", <<>>) ELSE flights \ {f}
      OBVIOUS
    <3>2. f.arg = <<1>> => Fine(local, GoesOn(f, "register", <<>>))
      BY <2>2, GoesFine DEF FormKinds, ChainKinds, ProfileKinds, Awaits, Registering
    <3>3. Framed(GoesOn(f, "register", <<>>))
      BY FramedNow, FramedNew, FramedParts DEF GoesOn
    <3>4. Fine(local, F) /\ Framed(F)
      BY <3>1, <3>2, <3>3, RestFine
    <3> QED
      BY <2>3, <3>1, <3>4, HearsMeFine
  <2>4. CASE /\ f.mine /\ flights' = flights \ {f}
             /\ local' = IF f.arg = <<1>> THEN [local EXCEPT !.loading = FALSE, !.failure = "otp"]
                         ELSE [local EXCEPT !.failure = "social"]
    <3>1. CASE f.arg = <<1>>
      <4>1. f \in Linked(flights)
        BY <2>2, <2>4, <3>1 DEF Linked, ChainKinds, Registering
      <4>2. Linked(flights \ {f}) = {}
        BY <2>2, <4>1 DEF ChainsOK, Fine, Linked, ProfileKinds
      <4>3. Mounted([local EXCEPT !.loading = FALSE, !.failure = "otp"])
        BY HasFlags DEF Mounted, Flagged, FlagsOf
      <4> QED
        BY <2>4, <3>1, <4>2, <4>3, RestFine, FineIdle, ChainsNext
    <3>2. CASE f.arg # <<1>>
      <4>1. FlagsKept([local EXCEPT !.failure = "social"])
        BY HasFlags DEF Flagged, FlagsKept, FlagsOf
      <4> QED
        BY <2>4, <3>2, <4>1, KeepsFlags, FliesFine DEF Besides
    <3> QED
      BY <3>1, <3>2
  <2> QED
    BY <2>1, <2>3, <2>4
<1>13. CASE RegisterEnds \/ ResetTimer
  BY <1>13, RestFine, NavigateFine DEF RegisterEnds, ResetTimer
<1>14. CASE ForgotEnds
  <2>1. FlagsOf(local.page) = {}
    BY <1>14 DEF ForgotEnds, FlagsOf
  <2>2. \A failure : KeepsWaiting([local EXCEPT !.submitting = FALSE, !.failure = failure])
    BY <2>1, NamedPage, KeepsPlain
  <2> QED
    BY <1>14, <2>2, SetsFine DEF ForgotEnds
<1>15. CASE ResetEnds
  <2>1. PICK f \in Waiting("reset") :
          \/ Hears(f, [local EXCEPT !.submitting = FALSE, !.failure = "reset"])
          \/ /\ local' = IF f.mine THEN [local EXCEPT !.submitting = FALSE] ELSE local
             /\ flights' = GoesOn(f, "toLogin", <<>>)
    BY <1>15 DEF ResetEnds
  <2>2. PICK l : /\ local' = l /\ (l = local \/ f.mine)
                 /\ l \in {local, [local EXCEPT !.submitting = FALSE, !.failure = "reset"], [local EXCEPT !.submitting = FALSE]}
    BY <2>1 DEF Hears
  <2>3. KeepsWaiting(l)
    <3>1. CASE f.mine
      <4>1. FlagsOf(local.page) = {}
        BY <3>1 DEF ChainsOK, Fine, Waiting, FormKinds, SenderOf, FlagsOf
      <4> QED
        BY <2>2, <4>1, NamedPage, KeepsPlain
    <3> QED
      BY <2>2, <3>1, LocalWaits
  <2>4. PICK g : g = Then(f, "toLogin", <<>>)
    OBVIOUS
  <2>5. g.kind = "toLogin"
    BY <2>4, ThenMine
  <2>6. flights' = flights \ {f} \/ flights' = (flights \ {f}) \cup {g}
    BY <2>1, <2>4 DEF Hears, GoesOn
  <2>7. Besides(flights', flights)
    BY <2>5, <2>6 DEF Besides, ChainKinds, FormKinds
  <2> QED
    BY <2>2, <2>3, <2>7, FliesFine
<1> QED
  BY <1>1, <1>2, <1>3, <1>4, <1>5, <1>6, <1>7, <1>8, <1>9, <1>10, <1>11, <1>12, <1>13, <1>14, <1>15
  DEF SessionPagesSettle

\* What a page adds to the flights when it mounts.
LEMMA FetchesBesides ==
  /\ \A keys : Besides(flights \cup {Fetch(key) : key \in keys}, flights)
  /\ \A keys : Besides(flights \cup {TableFetch(key) : key \in keys}, flights)
BY DEF Besides, Fetch, TableFetch, ChainKinds, FormKinds

LEMMA MountAsksFine ==
  ASSUME ChainsOK, local.page = None, NEW l, local' = l, Flagged(l), NEW keys, MountAsks(keys, flights)
  PROVE  ChainsOK'
<1>1. PICK asked : flights' = flights \cup {Fetch(key) : key \in asked}
  BY DEF MountAsks
<1> QED
  BY <1>1, FetchesBesides, MountsFine

LEMMA ShowsBesides == ASSUME NEW key, ShowsEntry(key) PROVE Besides(flights', flights)
<1>1. PICK asks : asks \subseteq {TableFetch(key)} /\ flights' = flights \cup asks
  BY DEF ShowsEntry
<1> QED
  BY <1>1 DEF Besides, TableFetch, ChainKinds, FormKinds

LEMMA WelcomeMountFine == ASSUME IInv, ChainsOK, WelcomeMount PROVE ChainsOK'
<1>1. PICK g : g = Flight("poll", None, <<>>)
  OBVIOUS
<1>2. g.mine /\ g.kind = "poll"
  BY <1>1 DEF Flight
<1>3. /\ local.page = None /\ location.path = "/"
      /\ \/ Navigate(HomeOf(memory.user), flights \cup {g}) /\ memory.user \in {"admin", "staff"}
         \/ flights' = flights \cup {g} /\ local' = WelcomePage
  BY <1>1 DEF WelcomeMount, Mounts
<1>4. Linked(flights) = {}
  BY <1>3, MountIdle, Idle
<1>5. CASE flights' = flights \cup {g} /\ local' = WelcomePage
  <2>1. \A f \in flights : ~(f.mine /\ f.kind \in FormKinds)
    BY <1>3 DEF ChainsOK, Fine, FormKinds, SenderOf, None
  <2>2. Flagged(WelcomePage) /\ Awaits(WelcomePage, "poll")
    BY DEF WelcomePage, Flagged, FlagsOf, Awaits
  <2>3. Linked(flights \cup {g}) \subseteq {g}
    BY <1>4 DEF Linked
  <2>4. Fine(WelcomePage, flights \cup {g})
    BY <1>2, <2>1, <2>2, <2>3 DEF Fine, ChainsOK, FormKinds
  <2> QED
    BY <1>5, <2>4, ChainsNext
<1>6. CASE Navigate(HomeOf(memory.user), flights \cup {g}) /\ memory.user \in {"admin", "staff"}
  <2>1. Path(HomeOf(memory.user)) # "/"
    BY <1>6 DEF Path, HomeOf
  <2>2. flights' = Orphaned(flights \cup {g}) /\ local' = Unmounted
    <3>1. PICK there : there = At(HomeOf(memory.user)) /\ NavigateWith(there, flights \cup {g})
      BY <1>6 DEF Navigate
    <3>2. [there EXCEPT !.path = Path(there.path)].path = Path(HomeOf(memory.user))
      BY <3>1 DEF At
    <3> QED
      BY <1>3, <2>1, <3>1, <3>2 DEF NavigateWith
  <2>3. Framed(flights \cup {g})
    BY <1>1, FramedNow, FramedNew, FramedParts
  <2> QED
    BY <2>2, <2>3, FineOrphaned, ChainsNext
<1> QED
  BY <1>3, <1>5, <1>6

LEMMA MountsOK == ASSUME IInv, ChainsOK, PagesMount PROVE ChainsOK'
<1>1. CASE PaymentMount
  <2>1. CASE OrderEffects(PaymentPage)
    <3>1. PICK l : l = [PaymentPage EXCEPT !.order = location.order, !.checks = @ + 1]
                   /\ local' = l /\ flights' = flights
      BY <2>1 DEF OrderEffects
    <3>2. Flagged(l)
      BY <3>1 DEF PaymentPage, Flagged, FlagsOf
    <3> QED
      BY <1>1, <3>1, <3>2, MountsFine DEF PaymentMount, Mounts, Besides
  <2>2. CASE ~OrderEffects(PaymentPage)
    BY <1>1, <2>2, FramedNow, NavigateFine DEF PaymentMount, ChainsOK
  <2> QED
    BY <2>1, <2>2
<1>2. CASE ConfirmationMount
  <2>1. PICK l : /\ l \in {ConfirmationPage, [ConfirmationPage EXCEPT !.loading = TRUE, !.order = 0]}
                 /\ Navigate("/", flights) \/ (UNCHANGED flights /\ local' = l)
    BY <1>2 DEF ConfirmationMount
  <2>2. Flagged(l)
    <3>1. /\ ConfirmationPage.page = "confirmation" /\ "page" \in DOMAIN ConfirmationPage
          /\ [ConfirmationPage EXCEPT !.loading = TRUE, !.order = 0].page = "confirmation"
          /\ "page" \in DOMAIN [ConfirmationPage EXCEPT !.loading = TRUE, !.order = 0]
      BY DEF ConfirmationPage
    <3>2. l.page = "confirmation" /\ "page" \in DOMAIN l
      BY <2>1, <3>1
    <3> QED
      BY <3>2 DEF Flagged, FlagsOf
  <2>3. CASE Navigate("/", flights)
    BY <2>3, FramedNow, NavigateFine DEF ChainsOK
  <2>4. CASE UNCHANGED flights /\ local' = l
    BY <1>2, <2>2, <2>4, MountsFine DEF ConfirmationMount, Mounts, Besides
  <2> QED
    BY <2>1, <2>3, <2>4
<1>3. CASE PastOrdersMount \/ AccountMount \/ VehiclesMount \/ HistoryMount \/ VisitMount \/ TransactionsMount
  <2>1. local.page = None
    BY <1>3 DEF PastOrdersMount, AccountMount, VehiclesMount, HistoryMount, VisitMount, TransactionsMount, Mounts
  <2>2. PICK l : Sets(l) /\ (\/ l = PastOrdersPage \/ l = VehiclesPage \/ l = HistoryPage \/ l = VisitPage
                             \/ l = TransactionsPage \/ l = [page |-> "account", editing |-> FALSE, failure |-> FALSE])
    BY <1>3 DEF PastOrdersMount, AccountMount, VehiclesMount, HistoryMount, VisitMount, TransactionsMount
  <2>3. Flagged(l)
    BY <2>2 DEF PastOrdersPage, VehiclesPage, HistoryPage, VisitPage, TransactionsPage, Flagged, FlagsOf
  <2> QED
    BY <2>1, <2>2, <2>3, SetsMounts
<1>4. CASE UsersMount
  <2>1. Flagged(UsersPage)
    BY DEF UsersPage, Flagged, FlagsOf
  <2> QED
    BY <1>4, <2>1, ShowsBesides, MountsFine DEF UsersMount, Mounts
<1>5. CASE OrderFormMount \/ LoyaltyMount \/ ProfileMount \/ DashboardMount \/ VerificationMount
           \/ AnalyticsMount \/ CustomersMount \/ InventoryMount
  <2>1. /\ local.page = None
        /\ \E keys : MountAsks(keys, flights)
    BY <1>5 DEF OrderFormMount, LoyaltyMount, ProfileMount, DashboardMount, VerificationMount,
       AnalyticsMount, CustomersMount, InventoryMount, Mounts
  <2>2. \E l : local' = l /\ Flagged(l)
    <3>1. CASE OrderFormMount
      BY <3>1 DEF OrderFormMount, OrderFormPage, Flagged, FlagsOf
    <3>2. CASE LoyaltyMount
      BY <3>2 DEF LoyaltyMount, Flagged, FlagsOf
    <3>3. CASE ProfileMount
      BY <3>3 DEF ProfileMount, ProfilePage, Flagged, FlagsOf
    <3>4. CASE DashboardMount
      BY <3>4 DEF DashboardMount, DashboardPage, Keys, Flagged, FlagsOf
    <3>5. CASE VerificationMount
      BY <3>5 DEF VerificationMount, VerificationPage, Keys, Flagged, FlagsOf
    <3>6. CASE AnalyticsMount
      BY <3>6 DEF AnalyticsMount, Flagged, FlagsOf
    <3>7. CASE CustomersMount
      BY <3>7 DEF CustomersMount, Flagged, FlagsOf
    <3>8. CASE InventoryMount
      BY <3>8 DEF InventoryMount, InventoryPage, Flagged, FlagsOf
    <3> QED
      BY <1>5, <3>1, <3>2, <3>3, <3>4, <3>5, <3>6, <3>7, <3>8
  <2> QED
    BY <2>1, <2>2, MountAsksFine
<1> QED
  BY <1>1, <1>2, <1>3, <1>4, <1>5, SessionPagesMountFine, WelcomeMountFine
  DEF PagesMount, OrderPagesMount, AccountPagesMount, StaffPagesMount, AdminPagesMount

LEMMA OrderPagesSettleFine == ASSUME IInv, ChainsOK, OrderPagesSettle PROVE ChainsOK'
<1>1. CASE CatalogShows
  <2>1. local.page = "order" /\ Sets(Defaults(local))
    BY <1>1 DEF CatalogShows, On
  <2>2. FlagsKept(Defaults(local))
    BY <2>1, HasFlags DEF Defaults, Flagged, FlagsKept, FlagsOf
  <2> QED
    BY <2>1, <2>2, KeepsFlags, SetsFine
<1>2. CASE AvailabilityArrives
  <2>1. PICK l, picker : l = [local EXCEPT !.picker = picker] /\ Sets(l) /\ local.page = "order"
    BY <1>2 DEF AvailabilityArrives, OrderFormShows, On
  <2>2. FlagsKept(l)
    BY <2>1, HasFlags DEF Flagged, FlagsKept, FlagsOf
  <2> QED
    BY <2>1, <2>2, KeepsFlags, SetsFine
<1>3. CASE SdkTimeout \/ EligibilityArrives \/ RewardsArrive
  <2>1. PICK l, eligible, reward :
          /\ \/ l = [local EXCEPT !.yoco = TRUE] \/ l = [local EXCEPT !.checks = @ - 1, !.eligible = eligible]
             \/ l = [local EXCEPT !.fetching = FALSE, !.reward = reward]
          /\ Sets(l) /\ local.page = "payment"
    BY <1>3 DEF SdkTimeout, EligibilityArrives, RewardsArrive, On
  <2>2. FlagsKept(l)
    BY <2>1, HasFlags DEF Flagged, FlagsKept, FlagsOf
  <2> QED
    BY <2>1, <2>2, KeepsFlags, SetsFine
<1>4. CASE ApplyEnds
  <2>1. local.page = "payment" /\ local.applying
    BY <1>4 DEF ApplyEnds
  <2>2. PICK l, m : /\ m = [local EXCEPT !.paying = FALSE, !.applying = FALSE] /\ Sets(l)
                    /\ (l = m \/ l = [m EXCEPT !.applied = TRUE, !.discount = RewardValue])
    BY <1>4 DEF ApplyEnds
  <2>3. Mounted(l)
    BY <2>1, <2>2, HasFlags DEF Mounted, Flagged, FlagsOf
  <2>4. Linked(flights) = {}
    BY <2>1, Idle DEF Awaits, ChainKinds
  <2>5. Fine(l, flights)
    BY <2>3, <2>4, FineIdle DEF ChainsOK
  <2> QED
    BY <2>2, <2>5, ChainsNext DEF Sets
<1>5. CASE ServerCreates \/ ServerCharges
  <2>1. PICK f \in Waiting("create") \cup Waiting("charge") :
          \E reply, value : flights' = Answered(f, reply, value) /\ UNCHANGED local
    BY <1>5 DEF ServerCreates, ServerCharges, Answers
  <2>2. f \in flights /\ f.kind \in {"create", "charge"}
    BY DEF Waiting
  <2> QED
    BY <2>1, <2>2, AnswersFine, ChainsNext DEF ProfileKinds
<1>6. CASE SubmitEnds
  <2>1. PICK f \in Arriving("create") :
          Hears(f, [local EXCEPT !.submitting = FALSE]) \/ \E there : NavigateWith(there, flights \ {f})
    BY <1>6 DEF SubmitEnds
  <2>2. f \in flights /\ f.kind = "create"
    BY DEF Arriving
  <2>3. Mounted([local EXCEPT !.submitting = FALSE])
    BY HasFlags DEF Mounted, Flagged, FlagsOf
  <2> QED
    BY <2>1, <2>2, <2>3, EndsFine, NavigatesFine, RestFine DEF ChainKinds, ProfileKinds, ChainsOK
<1>7. CASE PaymentOtherOrder
  <2>1. PICK l : /\ l = [local EXCEPT !.order = location.order, !.checks = @ + 1]
                 /\ local' = l /\ flights' = flights /\ local.page = "payment"
    BY <1>7 DEF PaymentOtherOrder, OrderEffects, On
  <2>2. FlagsKept(l)
    BY <2>1, HasFlags DEF Flagged, FlagsKept, FlagsOf
  <2> QED
    BY <2>1, <2>2, KeepsFlags, FliesFine DEF Besides
<1>8. CASE RedeemFreeEnds \/ LeaveTimer
  BY <1>8, RestFine, NavigateFine, NavigatesFine DEF RedeemFreeEnds, LeaveTimer, ChainsOK
<1>9. CASE ChargeEnds \/ RedeemEnds \/ QrEnds
  <2>1. PICK f \in Arriving("charge") \cup Waiting("redeem") \cup Waiting("qr") :
          \/ Hears(f, [local EXCEPT !.paying = FALSE])
          \/ \E kind \in {"redeem", "qr", "refreshThen"} : \E arg :
               flights' = GoesOn(f, kind, arg) /\ UNCHANGED local
    BY <1>9 DEF ChargeEnds, RedeemEnds, QrEnds
  <2>2. f \in flights /\ f.kind \in {"charge", "redeem", "qr"}
    BY DEF Waiting, Arriving
  <2>3. \A kind \in {"redeem", "qr", "refreshThen"} : \A arg : Fine(local, GoesOn(f, kind, arg))
    BY <2>2, GoesFine DEF ChainKinds, FormKinds, ProfileKinds, Awaits
  <2>4. CASE Hears(f, [local EXCEPT !.paying = FALSE])
    <3>1. f.mine => Mounted([local EXCEPT !.paying = FALSE])
      <4>1. f.mine => local.page = "payment" /\ ~local.applying
        BY <2>2 DEF ChainsOK, Fine, Linked, ChainKinds, Awaits
      <4> QED
        BY <4>1, HasFlags DEF Mounted, Flagged, FlagsOf
    <3> QED
      BY <2>2, <2>4, <3>1, EndsFine DEF ChainKinds, ProfileKinds
  <2> QED
    BY <2>1, <2>3, <2>4, ChainsNext
<1>10. CASE PayEnds
  BY <1>10, RestFine, HearsMeFine DEF PayEnds
<1>11. CASE LinkArrives
  <2>1. FlagsOf(local.page) = {}
    BY <1>11 DEF LinkArrives, FlagsOf
  <2>2. KeepsWaiting([local EXCEPT !.loading = FALSE, !.order = location.order])
    BY <2>1, NamedPage, KeepsPlain
  <2> QED
    BY <1>11, <2>2, SendsFine, NavigateFine, FramedNow DEF LinkArrives, ChainKinds, FormKinds, ChainsOK
<1>12. CASE VerifyArrives
  <2>1. PICK f, l : /\ l \in {local, [local EXCEPT !.failure = "unverified"]} /\ local' = l
                    /\ (flights' = flights \ {f} \/ \E arg : flights' = GoesOn(f, "leave", arg))
    BY <1>12 DEF VerifyArrives, Hears
  <2>2. FlagsKept(l)
    BY <2>1, HasFlags DEF Flagged, FlagsKept, FlagsOf
  <2>3. \A arg : Then(f, "leave", arg).kind = "leave"
    BY ThenMine
  <2>4. Besides(flights', flights)
    BY <2>1, <2>3 DEF GoesOn, Besides, ChainKinds, FormKinds
  <2> QED
    BY <2>1, <2>2, <2>4, KeepsFlags, FliesFine
<1> QED
  BY <1>1, <1>2, <1>3, <1>4, <1>5, <1>6, <1>7, <1>8, <1>9, <1>10, <1>11, <1>12 DEF OrderPagesSettle

LEMMA OrderPagesActionsFine == ASSUME IInv, ChainsOK, OrderPagesActions PROVE ChainsOK'
<1>1. CASE ChooseService
  <2>1. local.page = "order"
    BY <1>1 DEF ChooseService, OrderFormShows, On
  <2>2. \A n : /\ FlagsKept(Defaults([local EXCEPT !.category = n]))
               /\ FlagsKept([local EXCEPT !.service = n])
               /\ FlagsKept([local EXCEPT !.quantity = n])
               /\ FlagsKept([local EXCEPT !.extra = n])
               /\ FlagsKept([local EXCEPT !.step = n])
    BY <2>1, HasFlags DEF Defaults, Flagged, FlagsKept, FlagsOf
  <2>3. PICK offer \in StepOneOffers \cup ServiceCardOffers :
         CASE offer[1] = "category" -> Sets(Defaults([local EXCEPT !.category = offer[2]]))
           [] offer[1] = "service" -> Sets([local EXCEPT !.service = offer[2]])
           [] offer[1] = "quantity" -> offer[2] <= MaxQuantity /\ Sets([local EXCEPT !.quantity = offer[2]])
           [] offer[1] = "extra" -> offer[2] <= 1 /\ Sets([local EXCEPT !.extra = offer[2]])
           [] offer[1] = "next" -> Sets([local EXCEPT !.step = 2])
    BY <1>1 DEF ChooseService
  <2>4. offer[1] \in {"category", "service", "quantity", "extra", "next"}
    BY DEF StepOneOffers, ServiceCardOffers
  <2> QED
    BY <2>2, <2>3, <2>4, KeepsFlags, SetsFine
<1>2. CASE ChooseTime
  <2>1. local.page = "order"
    BY <1>2 DEF ChooseTime, OrderFormShows, On
  <2>2. \A n, m, p : /\ FlagsKept([local EXCEPT !.picker = p])
                     /\ FlagsKept([local EXCEPT !.date = n, !.time = m])
                     /\ FlagsKept([local EXCEPT !.step = n, !.picker = p])
    BY <2>1, HasFlags DEF Flagged, FlagsKept, FlagsOf
  <2>3. PICK offer \in StepTwoOffers(local) :
         CASE offer[1] = "month" ->
                  /\ Len(local.picker.timers) < MaxMonth
                  /\ Sets([local EXCEPT !.picker = [local.picker EXCEPT !.month = offer[2], !.waiting = TRUE,
                                                             !.timers = Append(@, offer[2])]])
           [] offer[1] = "day" -> Sets(OnDateTimeChange(local, offer[2], 0))
           [] offer[1] = "slot" -> Sets(OnDateTimeChange(local, local.date, offer[2]))
           [] offer[1] \in {"prev", "next"} -> Sets([local EXCEPT !.step = offer[2], !.picker = Picker])
    BY <1>2 DEF ChooseTime
  <2>4. offer[1] \in {"month", "day", "slot", "prev", "next"}
    BY DEF StepTwoOffers, PickerShows
  <2> QED
    BY <2>2, <2>3, <2>4, KeepsFlags, SetsFine DEF OnDateTimeChange
<1>3. CASE ReviewBack
  <2>1. local.page = "order" /\ Sets([local EXCEPT !.step = 2])
    BY <1>3 DEF ReviewBack, OrderFormShows, On
  <2>2. FlagsKept([local EXCEPT !.step = 2])
    BY <2>1, HasFlags DEF Flagged, FlagsKept, FlagsOf
  <2> QED
    BY <2>1, <2>2, KeepsFlags, SetsFine
<1>4. CASE HandleSubmit
  <2>1. PICK l, arg : l = [local EXCEPT !.submitting = TRUE] /\ SetsAndSends(l, {Flight("create", None, arg)})
    BY <1>4 DEF HandleSubmit
  <2>2. local.page = "order" /\ ~local.submitting
    BY <1>4 DEF HandleSubmit, OrderFormShows, On, StepThreeOffers
  <2>3. Mounted(l) /\ Awaits(l, "create") /\ \A kind \in ChainKinds : ~Awaits(local, kind)
    BY <2>1, <2>2, HasFlags DEF Mounted, Flagged, FlagsOf, Awaits, ChainKinds
  <2> QED
    BY <2>1, <2>3, StartsFine DEF FormKinds
<1>5. CASE SdkArrives
  <2>1. FlagsKept([local EXCEPT !.yoco = TRUE])
    BY <1>5, HasFlags DEF SdkArrives, On, Flagged, FlagsKept, FlagsOf
  <2> QED
    BY <1>5, <2>1, KeepsFlags, FliesFine DEF SdkArrives, Besides
<1>6. CASE HandleApplyReward
  <2>1. PICK l : l = [local EXCEPT !.paying = TRUE, !.applying = TRUE] /\ Sets(l)
    BY <1>6 DEF HandleApplyReward
  <2>2. local.page = "payment" /\ ~local.paying
    BY <1>6 DEF HandleApplyReward, PaymentOffers, On
  <2>3. Mounted(l) /\ \A kind \in ChainKinds : ~Awaits(local, kind)
    BY <2>1, <2>2, HasFlags DEF Mounted, Flagged, FlagsOf, Awaits, ChainKinds
  <2>4. Fine(l, flights)
    BY <2>3, Idle, FineIdle DEF ChainsOK
  <2> QED
    BY <2>1, <2>4, ChainsNext DEF Sets
<1>7. CASE HandlePayFree
  BY <1>7, SendsFine, LocalWaits, NavigatesFine, FramedNow DEF HandlePayFree, ChainKinds, FormKinds, ChainsOK
<1>8. CASE HandlePay
  <2>1. PICK l, arg : l = [local EXCEPT !.paying = TRUE] /\ SetsAndSends(l, {Flight("popup", None, arg)})
    BY <1>8 DEF HandlePay
  <2>2. local.page = "payment" /\ ~local.paying
    BY <1>8 DEF HandlePay, PaymentOffers, On
  <2>3. Mounted(l) /\ Awaits(l, "popup") /\ \A kind \in ChainKinds : ~Awaits(local, kind)
    BY <2>1, <2>2, HasFlags DEF Mounted, Flagged, FlagsOf, Awaits, ChainKinds
  <2> QED
    BY <2>1, <2>3, StartsFine DEF FormKinds
<1>9. CASE PopupEnds
  <2>1. PICK f \in Waiting("popup") :
          \/ Hears(f, [local EXCEPT !.paying = FALSE])
          \/ flights' = GoesOn(f, "charge", f.arg) /\ UNCHANGED local
    BY <1>9 DEF PopupEnds
  <2>2. f \in flights /\ f.kind = "popup"
    BY DEF Waiting
  <2>3. Fine(local, GoesOn(f, "charge", f.arg))
    BY <2>2, GoesFine DEF ChainKinds, FormKinds, ProfileKinds, Awaits
  <2>4. f.mine => local.page = "payment" /\ ~local.applying
    BY <2>2 DEF ChainsOK, Fine, Linked, ChainKinds, Awaits
  <2>5. f.mine => Mounted([local EXCEPT !.paying = FALSE])
    BY <2>4, HasFlags DEF Mounted, Flagged, FlagsOf
  <2> QED
    BY <2>1, <2>2, <2>3, <2>5, EndsFine, ChainsNext DEF ChainKinds, ProfileKinds
<1>10. CASE OpenLink \/ WashDone \/ ConfirmationLinks
  BY <1>10, ReloadsFine, LocalWaits, FliesFine, NavigateFine, FramedNow
  DEF OpenLink, WashDone, ConfirmationLinks, Besides, ChainsOK
<1>11. CASE CalendarOpens \/ CalendarCloses
  <2>1. FlagsOf(local.page) = {} /\ \E calendar : Sets([local EXCEPT !.calendar = calendar])
    BY <1>11 DEF CalendarOpens, CalendarCloses, On, FlagsOf
  <2>2. \A calendar : KeepsWaiting([local EXCEPT !.calendar = calendar])
    BY <2>1, NamedPage, KeepsPlain
  <2> QED
    BY <2>1, <2>2, SetsFine
<1> QED
  BY <1>1, <1>2, <1>3, <1>4, <1>5, <1>6, <1>7, <1>8, <1>9, <1>10, <1>11 DEF OrderPagesActions

\* What a fetch again makes of the flights.
LEMMA BesidesThrough ==
  ASSUME NEW F, NEW G, NEW H, Besides(G, F), Besides(H, G)
  PROVE  Besides(H, F)
BY DEF Besides

LEMMA RefetchedBesides == ASSUME NEW F, NEW keys PROVE Besides(Refetched(keys, F), F)
<1>1. PICK new : /\ new \subseteq {Fetch(key) : key \in keys}
                 /\ \A f \in Refetched(keys, F) : f \in F \/ f \in new
  <2> DEFINE again == keys \cap Watched
             kept == {g \in F : g.kind = "query" /\ g.key \in again /\ ~Has(g.key)}
  <2>1. \A f \in Refetched(keys, F) : f \in F \/ f \in {Fetch(key) : key \in again \ {g.key : g \in kept}}
    BY DEF Refetched
  <2> QED
    BY <2>1
<1> QED
  BY <1>1 DEF Besides, Fetch, ChainKinds, FormKinds

LEMMA OvertakenBesides == ASSUME NEW F, Framed(F), NEW keys PROVE Besides(Overtaken(keys, F), F)
<1> SUFFICES ASSUME NEW g \in Overtaken(keys, F), g \notin F PROVE g.kind = "query"
  BY DEF Besides, ChainKinds, FormKinds
<1>1. PICK f \in F : g = IF f.kind = "query" /\ f.key \in keys THEN [f EXCEPT !.value = 1] ELSE f
  BY DEF Overtaken
<1>2. f.kind = "query" /\ g = [f EXCEPT !.value = 1]
  BY <1>1
<1> QED
  BY <1>2 DEF Framed, FlightFields

LEMMA AfterBesides ==
  ASSUME NEW F, Framed(F), NEW keys, NEW written
  PROVE  Besides(FlightsAfter(keys, written, F), F)
BY RefetchedBesides, OvertakenBesides, BesidesThrough DEF FlightsAfter

LEMMA SupersededBesides == ASSUME NEW F, Framed(F), NEW keys PROVE Besides(Superseded(keys, F), F)
<1> SUFFICES ASSUME NEW g \in Superseded(keys, F), g \notin F
             PROVE  g.kind = "refreshLists" /\ \E f \in F : f.kind = g.kind /\ f.mine = g.mine
  BY DEF Besides, ChainKinds
<1>1. PICK f, arg : f \in F /\ f.kind = "refreshLists" /\ g = [f EXCEPT !.arg = arg]
  <2>1. PICK f \in F : g = IF f.kind = "refreshLists"
                             THEN [f EXCEPT !.arg[1] = @ \ {key \in keys : Has(key) \/ ~Fetching(key)}] ELSE f
    BY DEF Superseded
  <2>2. f.kind = "refreshLists" /\ g = [f EXCEPT !.arg[1] = @ \ {key \in keys : Has(key) \/ ~Fetching(key)}]
    BY <2>1
  <2> QED
    BY <2>2
<1> QED
  BY <1>1 DEF Framed, FlightFields

LEMMA TableBesides == ASSUME NEW F, NEW table PROVE Besides(TableAgain(F, table), F)
<1>1. \A f \in TableAgain(F, table) : f \in F \/ f = TableFetch(TableKey(local))
  BY DEF TableAgain, TableFetches
<1> QED
  BY <1>1 DEF Besides, TableFetch, ChainKinds, FormKinds

\* The end of a write, and what is fetched again then.
LEMMA WritesBesides ==
  ASSUME IInv, NEW f, NEW done \in BOOLEAN, NEW keys, NEW written,
         IF done THEN Invalidates(keys, written, flights \ {f}) ELSE flights' = flights \ {f} /\ UNCHANGED cache
  PROVE  Besides(flights', flights \ {f})
<1>1. flights' = FlightsAfter(keys, written, flights \ {f}) \/ flights' = flights \ {f}
  BY DEF Invalidates
<1>2. Besides(FlightsAfter(keys, written, flights \ {f}), flights \ {f})
  BY FramedNow, AfterBesides
<1> QED
  BY <1>1, <1>2 DEF Besides

\* A request ends its chain, and its page waits no more; or it is of no page.
LEMMA WriteEndsFine ==
  ASSUME IInv, ChainsOK, NEW f \in flights, f.kind \in ChainKinds \ (ProfileKinds \cup {"token"}),
         NEW l, local' = IF f.mine THEN l ELSE local, f.mine => Mounted(l),
         NEW F, flights' = F, Besides(F, flights \ {f})
  PROVE  ChainsOK'
<1>1. Fine(local, flights \ {f}) /\ (f.mine => Fine(l, flights \ {f}))
  BY RestFine, FineEnded DEF ChainsOK
<1> QED
  BY <1>1, FineBesides, ChainsNext

LEMMA PlainSets ==
  ASSUME ChainsOK, FlagsOf(local.page) = {}, NEW l, Sets(l), "page" \in DOMAIN l, l.page = local.page
  PROVE  ChainsOK'
BY KeepsPlain, SetsFine

\* The forms of the profile each have a request of their own.
LEMMA FineMutating ==
  ASSUME NEW F, Fine(local, F), local.page = "profile", NEW l, Mounted(l),
         NEW g, g.mine, g.kind \in ProfileKinds, Awaits(l, g.kind), ~Awaits(local, g.kind),
         \A kind \in ProfileKinds : Awaits(local, kind) => Awaits(l, kind)
  PROVE  Fine(l, F \cup {g})
<1>1. \A f \in Linked(F) : f.kind \in ProfileKinds /\ f.kind # g.kind /\ Awaits(local, f.kind)
  BY DEF Fine, Linked, ChainKinds, ProfileKinds, Awaits
<1>2. Linked(F \cup {g}) \subseteq Linked(F) \cup {g}
  BY DEF Linked
<1>3. \A f \in F \cup {g} : f.mine /\ f.kind \in FormKinds => f \in F
  BY DEF FormKinds, ProfileKinds
<1>4. l.page = local.page
  BY DEF Mounted
<1>5. \A f, h \in Linked(F \cup {g}) : f = h \/ (f.kind \in ProfileKinds /\ f.kind # h.kind)
  BY <1>1, <1>2 DEF Fine
<1>6. \A f \in Linked(F \cup {g}) : Awaits(l, f.kind)
  BY <1>1, <1>2
<1> QED
  BY <1>3, <1>4, <1>5, <1>6 DEF Fine, Mounted, ProfileKinds

LEMMA FineMutated ==
  ASSUME NEW F, Fine(local, F), NEW f \in F, f.mine, f.kind \in ProfileKinds, NEW l, Mounted(l),
         \A kind \in ProfileKinds \ {f.kind} : Awaits(local, kind) => Awaits(l, kind)
  PROVE  Fine(l, F \ {f})
<1>1. f \in Linked(F)
  BY DEF Linked, ProfileKinds, ChainKinds
<1>2. local.page = "profile"
  BY <1>1 DEF Fine, Awaits, ProfileKinds
<1>3. \A g \in Linked(F \ {f}) : g \in Linked(F) /\ g.kind \in ProfileKinds \ {f.kind} /\ Awaits(local, g.kind)
  BY <1>1, <1>2 DEF Fine, Linked, ChainKinds, ProfileKinds, Awaits
<1>4. \A g \in Linked(F \ {f}) : Awaits(l, g.kind)
  BY <1>3
<1>5. \A g, h \in Linked(F \ {f}) : g = h \/ (g.kind \in ProfileKinds /\ g.kind # h.kind)
  BY <1>3 DEF Fine
<1> QED
  BY <1>4, <1>5 DEF Fine, Mounted

LEMMA ProfileMutatedFine ==
  ASSUME IInv, ChainsOK, NEW kind \in Mutations, ProfileMutated(kind)
  PROVE  ChainsOK'
<1>1. PICK f \in Waiting(kind), done \in BOOLEAN :
        /\ local' = AfterMutation(f, done)
        /\ IF done
             THEN Invalidates({"profile"}, {"profile"},
                    (flights \ {f}) \cup (IF kind = "updateProfile"
                                            THEN {Flight("refresh", tour.who, <<>>)} ELSE {}))
             ELSE flights' = flights \ {f} /\ UNCHANGED cache
  BY DEF ProfileMutated
<1>2. f \in flights /\ f.kind = kind
  BY DEF Waiting
<1>3. PICK l : l = AfterMutation(f, done)
  OBVIOUS
<1>4. Fine(l, flights \ {f})
  <2>1. CASE ~f.mine \/ kind = "deleteVehicle"
    <3>1. l = local
      BY <1>2, <1>3, <2>1 DEF AfterMutation
    <3> QED
      BY <3>1, RestFine
  <2>2. CASE f.mine /\ kind = "updateProfile"
    <3>1. l = [local EXCEPT !.updating = FALSE, !.editing = @ /\ ~done]
      BY <1>2, <1>3, <2>2 DEF AfterMutation
    <3>2. Mounted(l) /\ (Awaits(local, "addVehicle") => Awaits(l, "addVehicle"))
      BY <3>1, HasFlags DEF Mounted, Flagged, FlagsOf, Awaits
    <3> QED
      BY <1>2, <2>2, <3>2, FineMutated DEF ProfileKinds, ChainsOK
  <2>3. CASE f.mine /\ kind = "addVehicle"
    <3>1. l = [local EXCEPT !.adding = FALSE, !.form = @ /\ ~done]
      BY <1>2, <1>3, <2>3 DEF AfterMutation
    <3>2. Mounted(l) /\ (Awaits(local, "updateProfile") => Awaits(l, "updateProfile"))
      BY <3>1, HasFlags DEF Mounted, Flagged, FlagsOf, Awaits
    <3> QED
      BY <1>2, <2>3, <3>2, FineMutated DEF ProfileKinds, ChainsOK
  <2> QED
    BY <2>1, <2>2, <2>3 DEF Mutations
<1>5. Besides(flights', flights \ {f})
  <2>1. PICK G : G = (flights \ {f}) \cup (IF kind = "updateProfile"
                                            THEN {Flight("refresh", tour.who, <<>>)} ELSE {})
    OBVIOUS
  <2>2. flights' = FlightsAfter({"profile"}, {"profile"}, G) \/ flights' = flights \ {f}
    BY <1>1, <2>1 DEF Invalidates
  <2>3. Framed(G)
    BY <2>1, FramedNow, FramedNew, FramedParts
  <2>4. Flight("refresh", tour.who, <<>>).kind = "refresh"
    BY DEF Flight
  <2>5. Besides(G, flights \ {f})
    BY <2>1, <2>4 DEF Besides, ChainKinds, FormKinds
  <2>6. Besides(FlightsAfter({"profile"}, {"profile"}, G), flights \ {f})
    BY <2>3, <2>5, AfterBesides, BesidesThrough
  <2> QED
    BY <2>2, <2>6 DEF Besides
<1> QED
  BY <1>1, <1>3, <1>4, <1>5, FineBesides, ChainsNext

LEMMA AccountPagesFine ==
  ASSUME IInv, ChainsOK, AccountPagesSettle \/ AccountPagesActions \/ Polls
  PROVE  ChainsOK'
<1>1. CASE ClaimEnds \/ PastOrdersArrive \/ OrderDetailsArrive \/ CloseModal \/ HandleClaimReward
           \/ HandleRewardClick \/ LoadOrderDetails \/ CloseOrder \/ HandleEdit
  <2>1. FlagsOf(local.page) = {}
    BY <1>1 DEF ClaimEnds, PastOrdersArrive, OrderDetailsArrive, CloseModal, HandleClaimReward,
       HandleRewardClick, LoadOrderDetails, CloseOrder, HandleEdit, On, FlagsOf
  <2> QED
    BY <1>1, <2>1, NamedPage, PlainSets DEF ClaimEnds, PastOrdersArrive, OrderDetailsArrive, CloseModal,
       HandleClaimReward, HandleRewardClick, LoadOrderDetails, CloseOrder, HandleEdit
<1>2. CASE SaveEnds \/ EditingEnds
  <2>1. \/ ForcedOut
        \/ \E f : Hears(f, [local EXCEPT !.failure = TRUE]) \/ Hears(f, [local EXCEPT !.editing = FALSE])
        \/ \E f \in flights : flights' = GoesOn(f, "refreshAccount", <<>>) /\ UNCHANGED local
    BY <1>2 DEF SaveEnds, EditingEnds, Waiting
  <2>2. FlagsKept([local EXCEPT !.failure = TRUE]) /\ FlagsKept([local EXCEPT !.editing = FALSE])
    BY HasFlags DEF Flagged, FlagsKept, FlagsOf
  <2>3. \A f \in flights : Fine(local, GoesOn(f, "refreshAccount", <<>>))
    BY GoesFine DEF ChainKinds, FormKinds, ProfileKinds
  <2> QED
    BY <2>1, <2>2, <2>3, ForcedFine, KeepsFlags, HearsFine, ChainsNext
<1>3. CASE AccountRefreshed
  <2>1. PICK f \in flights : \E reply, g : HearsMe(g, reply, Nowhere, GoesOn(f, "saved", <<>>))
    BY <1>3 DEF AccountRefreshed, Waiting
  <2>2. Fine(local, GoesOn(f, "saved", <<>>))
    BY GoesFine DEF ChainKinds, FormKinds, ProfileKinds
  <2>3. Framed(GoesOn(f, "saved", <<>>))
    BY FramedNow, FramedNew, FramedParts DEF GoesOn
  <2> QED
    BY <2>1, <2>2, <2>3, HearsMeFine
<1>4. CASE WelcomeLinks \/ LoyaltyTries \/ LoyaltyLinks \/ HandleBookAgain \/ HandleLogout
  BY <1>4, FramedNow, NavigateFine, ReloadsFine
  DEF WelcomeLinks, LoyaltyTries, LoyaltyLinks, HandleBookAgain, HandleLogout, ChainsOK
<1>5. CASE HandleSave
  <2>1. FlagsKept([local EXCEPT !.failure = FALSE])
    BY HasFlags DEF Flagged, FlagsKept, FlagsOf
  <2> QED
    BY <1>5, <2>1, KeepsFlags, SendsFine DEF HandleSave, ChainKinds, FormKinds
<1>6. CASE ProfileRefreshes
  <2>1. UNCHANGED local /\ flights' = FlightsAfter({"profile"}, {}, flights)
    BY <1>6 DEF ProfileRefreshes, Invalidates
  <2>2. Besides(FlightsAfter({"profile"}, {}, flights), flights)
    BY AfterBesides DEF IInv, FlightsOK, Framed
  <2> QED
    BY <2>1, <2>2, LocalWaits, FliesFine
<1>7. CASE ProfileForms
  <2>1. local.page = "profile"
    BY <1>7 DEF ProfileForms, On
  <2>2. PICK offer \in ProfileOffers :
         CASE offer \in {"edit", "cancel"} -> Sets([local EXCEPT !.editing = ~@])
           [] offer \in {"openForm", "closeForm"} -> Sets([local EXCEPT !.form = ~@])
           [] offer = "update" ->
                SetsAndSends([local EXCEPT !.updating = TRUE], {Flight("updateProfile", None, <<>>)})
           [] offer = "add" ->
                SetsAndSends([local EXCEPT !.adding = TRUE], {Flight("addVehicle", None, <<>>)})
           [] offer = "delete" -> SetsAndSends(local, {Flight("deleteVehicle", None, <<>>)})
           [] OTHER -> FALSE
    BY <1>7 DEF ProfileForms
  <2>3. /\ offer = "update" => ~local.updating
        /\ offer = "add" => ~local.adding
    BY DEF ProfileOffers, PersonalOffers, VehicleFormOffers
  <2>4. FlagsKept([local EXCEPT !.editing = ~@]) /\ FlagsKept([local EXCEPT !.form = ~@])
    BY HasFlags DEF Flagged, FlagsKept, FlagsOf
  <2>5. CASE offer = "update"
    <3>1. PICK l, g : /\ l = [local EXCEPT !.updating = TRUE] /\ g = Flight("updateProfile", None, <<>>)
                      /\ local' = l /\ flights' = flights \cup {g}
      BY <2>2, <2>5 DEF SetsAndSends
    <3>2. g.mine /\ g.kind = "updateProfile"
      BY <3>1 DEF Flight
    <3>3. /\ Mounted(l) /\ Awaits(l, "updateProfile") /\ ~Awaits(local, "updateProfile")
          /\ Awaits(local, "addVehicle") => Awaits(l, "addVehicle")
      BY <2>1, <2>3, <2>5, <3>1, HasFlags DEF Mounted, Flagged, FlagsOf, Awaits
    <3>4. Fine(l, flights \cup {g})
      BY <2>1, <3>2, <3>3, FineMutating DEF ProfileKinds, ChainsOK
    <3> QED
      BY <3>1, <3>4, ChainsNext
  <2>6. CASE offer = "add"
    <3>1. PICK l, g : /\ l = [local EXCEPT !.adding = TRUE] /\ g = Flight("addVehicle", None, <<>>)
                      /\ local' = l /\ flights' = flights \cup {g}
      BY <2>2, <2>6 DEF SetsAndSends
    <3>2. g.mine /\ g.kind = "addVehicle"
      BY <3>1 DEF Flight
    <3>3. /\ Mounted(l) /\ Awaits(l, "addVehicle") /\ ~Awaits(local, "addVehicle")
          /\ Awaits(local, "updateProfile") => Awaits(l, "updateProfile")
      BY <2>1, <2>3, <2>6, <3>1, HasFlags DEF Mounted, Flagged, FlagsOf, Awaits
    <3>4. Fine(l, flights \cup {g})
      BY <2>1, <3>2, <3>3, FineMutating DEF ProfileKinds, ChainsOK
    <3> QED
      BY <3>1, <3>4, ChainsNext
  <2>7. CASE offer \notin {"update", "add"}
    BY <2>2, <2>4, <2>7, KeepsFlags, SetsFine, LocalWaits, SendsFine DEF ChainKinds, FormKinds
  <2> QED
    BY <2>5, <2>6, <2>7
<1>8. CASE PollArrives
  <2>1. PICK f, kept, rewards, l :
          /\ f \in Waiting("poll") \cup Waiting("pollOld")
          /\ l \in {local, [local EXCEPT !.wash = kept], [local EXCEPT !.wash = kept, !.rewards = rewards]}
          /\ local' = l
          /\ flights' = (flights \ {f}) \cup (IF f.kind = "poll" /\ f.mine
                                                THEN {Flight("pollTimer", None, <<>>)} ELSE {})
    BY <1>8 DEF PollArrives
  <2>2. f \in flights
    BY <2>1 DEF Waiting
  <2>3. KeepsWaiting(l)
    <3>1. FlagsKept([local EXCEPT !.wash = kept]) /\ FlagsKept([local EXCEPT !.wash = kept, !.rewards = rewards])
      BY HasFlags DEF Flagged, FlagsKept, FlagsOf
    <3> QED
      BY <2>1, <3>1, KeepsFlags, LocalWaits
  <2>4. Fine(local, flights')
    <3>1. CASE f.kind = "poll" /\ f.mine
      <4>1. PICK g : g = Flight("pollTimer", None, <<>>)
        OBVIOUS
      <4>2. g.kind = "pollTimer" /\ g.mine
        BY <4>1 DEF Flight
      <4>3. Fine(local, (flights \ {f}) \cup {g})
        BY <2>2, <3>1, <4>2, FineFollowed DEF ChainsOK, ProfileKinds, FormKinds, ChainKinds, Awaits
      <4> QED
        BY <2>1, <3>1, <4>1, <4>3
    <3>2. CASE ~(f.kind = "poll" /\ f.mine)
      BY <2>1, <3>2, RestFine
    <3> QED
      BY <3>1, <3>2
  <2> QED
    BY <2>1, <2>3, <2>4, FineKept, ChainsNext
<1>9. CASE PollTimer
  <2>1. PICK f \in Waiting("pollTimer") : flights' = GoesOn(f, "poll", <<>>) /\ UNCHANGED local
    BY <1>9 DEF PollTimer
  <2>2. f \in flights /\ f.kind = "pollTimer"
    BY DEF Waiting
  <2>3. Fine(local, GoesOn(f, "poll", <<>>))
    BY <2>2, GoesFine DEF ProfileKinds, FormKinds, ChainKinds, Awaits
  <2> QED
    BY <2>1, <2>3, ChainsNext
<1> QED
  BY <1>1, <1>2, <1>3, <1>4, <1>5, <1>6, <1>7, <1>8, <1>9, ProfileMutatedFine
  DEF AccountPagesSettle, AccountPagesActions, Polls

LEMMA PlainQueried ==
  ASSUME ChainsOK, FlagsOf(local.page) = {}, NEW l, NEW period, Queried(l, period),
         "page" \in DOMAIN l, l.page = local.page
  PROVE  ChainsOK'
<1>1. PICK m : local' = m /\ flights' = flights /\ "page" \in DOMAIN m /\ m.page = local.page
  BY DEF Queried
<1> QED
  BY <1>1, KeepsPlain, FliesFine DEF Besides

LEMMA IdleSets ==
  ASSUME ChainsOK, \A kind \in ChainKinds : ~Awaits(local, kind), NEW l, Sets(l), Mounted(l)
  PROVE  ChainsOK'
BY Idle, FineIdle, ChainsNext DEF Sets, ChainsOK

LEMMA WashStartedFine == ASSUME IInv, ChainsOK, WashStarted PROVE ChainsOK'
<1>1. PICK f \in Waiting("startWash") :
        \/ Hears(f, [local EXCEPT !.starting = FALSE])
        \/ Navigate("/staff/dashboard",
                    Refetched({"verifications"}, FlightsAfter({"active"}, {"active"}, flights \ {f})))
  BY DEF WashStarted
<1>2. f \in flights /\ f.kind = "startWash"
  BY DEF Waiting
<1>3. Mounted([local EXCEPT !.starting = FALSE])
  BY HasFlags DEF Mounted, Flagged, FlagsOf
<1>4. PICK after, F : after = FlightsAfter({"active"}, {"active"}, flights \ {f})
                      /\ F = Refetched({"verifications"}, after)
  OBVIOUS
<1>5. Besides(F, flights \ {f})
  BY <1>4, FramedNow, AfterBesides, RefetchedBesides, BesidesThrough
<1>6. Fine(local, F)
  BY <1>5, RestFine, FineBesides
<1>7. Framed(F)
  <2>1. Whole(flights \ {f})
    BY <1>2, WholeNow, WholeRest
  <2>2. Whole(after)
    <3>1. \A keys, written : Whole(FlightsAfter(keys, written, flights \ {f}))
      BY <2>1, WholeAfter
    <3> QED
      BY <1>4, <3>1
  <2> QED
    BY <1>4, <2>2, WholeRefetched DEF Whole, Fetched
<1> QED
  BY <1>1, <1>2, <1>3, <1>4, <1>6, <1>7, EndsFine, NavigateFine DEF ChainKinds, ProfileKinds

\* What else the page of the verifications shows.
StillStarting(l) == DOMAIN l = DOMAIN local /\ l.page = local.page /\ l.starting = local.starting

LEMMA OnVerification ==
  ASSUME ChainsOK, local.page = "verification"
  PROVE  {"page", "starting"} \subseteq DOMAIN local
BY HasFlags DEF Flagged, FlagsOf

LEMMA VerificationFine ==
  ASSUME ChainsOK, local.page = "verification", NEW m, StillStarting(m), local' = m, flights' = flights
  PROVE  ChainsOK'
<1>1. FlagsKept(m)
  BY DEF FlagsKept, FlagsOf, StillStarting
<1> QED
  BY <1>1, KeepsFlags, FliesFine DEF Besides

LEMMA StaffPagesSettleFine == ASSUME IInv, ChainsOK, StaffPagesSettle PROVE ChainsOK'
<1>1. CASE WashEnded
  <2>1. PICK f \in Waiting("endWash"), done \in BOOLEAN :
          /\ local' = IF f.mine THEN [local EXCEPT !.ending = FALSE, !.confirm = 0] ELSE local
          /\ IF done THEN Invalidates({"active"}, {"active"}, flights \ {f})
                     ELSE flights' = flights \ {f} /\ UNCHANGED cache
    BY <1>1 DEF WashEnded
  <2>2. f \in flights /\ f.kind = "endWash"
    BY DEF Waiting
  <2> DEFINE l == [local EXCEPT !.ending = FALSE, !.confirm = 0]
  <2>3. Mounted(l)
    BY HasFlags DEF Mounted, Flagged, FlagsOf
  <2>5. local' = IF f.mine THEN l ELSE local
    BY <2>1
  <2> HIDE DEF l
  <2>4. Besides(flights', flights \ {f})
    BY <2>1, WritesBesides
  <2> QED
    BY <2>2, <2>3, <2>4, <2>5, WriteEndsFine DEF ChainKinds, ProfileKinds
<1>2. CASE Recomputed
  <2>1. PICK f \in Waiting("recompute"), done \in BOOLEAN :
          /\ local' = IF f.mine THEN [local EXCEPT !.refreshing = FALSE, !.refreshed = @ \/ done] ELSE local
          /\ IF done THEN Invalidates({"customers"}, {"customers"}, flights \ {f})
                     ELSE flights' = flights \ {f} /\ UNCHANGED cache
    BY <1>2 DEF Recomputed
  <2>2. f \in flights /\ f.kind = "recompute"
    BY DEF Waiting
  <2> DEFINE l == [local EXCEPT !.refreshing = FALSE, !.refreshed = @ \/ done]
  <2>3. Mounted(l)
    BY HasFlags DEF Mounted, Flagged, FlagsOf
  <2>5. local' = IF f.mine THEN l ELSE local
    BY <2>1
  <2> HIDE DEF l
  <2>4. Besides(flights', flights \ {f})
    BY <2>1, WritesBesides
  <2> QED
    BY <2>2, <2>3, <2>4, <2>5, WriteEndsFine DEF ChainKinds, ProfileKinds
<1>3. CASE PaymentVerified
  <2>1. PICK f \in Waiting("verifyPayment"), done \in BOOLEAN :
          /\ local' = local \/ Shows([local EXCEPT !.processing = FALSE, !.typed = 0], f.arg[1])
                            \/ local' = [local EXCEPT !.processing = FALSE, !.typed = 0]
          /\ IF done THEN Invalidates({"verifications"}, {"verifications"}, flights \ {f})
                     ELSE flights' = flights \ {f} /\ UNCHANGED cache
    BY <1>3 DEF PaymentVerified
  <2>2. PICK l : l = [local EXCEPT !.processing = FALSE, !.typed = 0]
    OBVIOUS
  <2>3. FlagsKept(l) /\ Flagged(local) /\ FlagsKept(local)
    BY <2>2, HasFlags DEF Flagged, FlagsKept, FlagsOf
  <2>4. PICK m, selected, vehicle :
          /\ local' = m
          /\ m = local \/ m = l \/ m = [l EXCEPT !.selected = selected, !.vehicle = vehicle, !.dialog = TRUE]
    BY <2>1, <2>2 DEF Shows
  <2>5. FlagsKept(m)
    <3>1. ASSUME m = [l EXCEPT !.selected = selected, !.vehicle = vehicle, !.dialog = TRUE] PROVE FlagsKept(m)
      BY <2>3, <3>1 DEF Flagged, FlagsKept, FlagsOf
    <3> QED
      BY <2>3, <2>4, <3>1
  <2>6. Besides(flights', flights \ {f})
    BY <2>1, WritesBesides
  <2>7. Besides(flights', flights)
    BY <2>6 DEF Besides
  <2> QED
    BY <2>4, <2>5, <2>7, KeepsFlags, FliesFine
<1>4. CASE RecordArrives \/ VehicleCreated
  <2>1. local.page = "verification"
    BY <1>4 DEF RecordArrives, VehicleCreated
  <2>2. CASE RecordArrives
    <3>1. PICK order : \/ Sets([local EXCEPT !.records = local.records \ {order}])
                       \/ /\ Shows([local EXCEPT !.records = local.records \ {order}], order)
                          /\ flights' = flights
      BY <2>2 DEF RecordArrives
    <3>2. PICK l : l = [local EXCEPT !.records = local.records \ {order}]
      OBVIOUS
    <3>3. StillStarting(l)
      BY <2>1, <3>2, OnVerification DEF StillStarting
    <3>4. Sets(l) \/ (Shows(l, order) /\ flights' = flights)
      BY <3>1, <3>2
    <3>5. CASE Sets(l)
      BY <2>1, <3>3, <3>5, VerificationFine DEF Sets
    <3>6. CASE Shows(l, order) /\ flights' = flights
      <4>1. PICK vehicle, m : m = [l EXCEPT !.selected = order, !.vehicle = vehicle, !.dialog = TRUE] /\ local' = m
        BY <3>6 DEF Shows
      <4>2. StillStarting(m)
        BY <2>1, <3>3, <4>1, OnVerification DEF StillStarting
      <4> QED
        BY <2>1, <3>6, <4>1, <4>2, VerificationFine
    <3> QED
      BY <3>4, <3>5, <3>6
  <2>3. CASE VehicleCreated
    <3>1. PICK owner :
            \/ Sets([local EXCEPT !.creating = local.creating \ {owner}])
            \/ Sets([[local EXCEPT !.creating = local.creating \ {owner}]
                       EXCEPT !.vehicle = IF local.selected = 0 THEN @ ELSE owner, !.vehicles = FALSE])
      BY <2>3 DEF VehicleCreated
    <3>2. PICK l, m : /\ l = [local EXCEPT !.creating = local.creating \ {owner}]
                      /\ m = [l EXCEPT !.vehicle = IF local.selected = 0 THEN @ ELSE owner, !.vehicles = FALSE]
      OBVIOUS
    <3>3. StillStarting(l) /\ StillStarting(m)
      BY <2>1, <3>2, OnVerification DEF StillStarting
    <3>4. Sets(l) \/ Sets(m)
      BY <3>1, <3>2
    <3> QED
      BY <2>1, <3>3, <3>4, VerificationFine DEF Sets
  <2> QED
    BY <1>4, <2>2, <2>3
<1>5. CASE SearchStarts \/ SearchEnds \/ VehicleAdded \/ VehicleDeleted \/ HistoryArrives \/ AnalyticsArrives
  <2>1. FlagsOf(local.page) = {}
    BY <1>5 DEF SearchStarts, SearchEnds, VehicleAdded, VehicleDeleted, HistoryArrives, AnalyticsArrives, FlagsOf
  <2> QED
    BY <1>5, <2>1, NamedPage, PlainSets DEF SearchStarts, SearchEnds, VehicleAdded, Typed, VehicleDeleted,
       HistoryArrives, AnalyticsArrives
<1>6. CASE TypedFilter
  <2>1. PICK l, filter : /\ l = [local EXCEPT !.filter = filter, !.number = 1, !.typing = {}]
                         /\ Queried(l, storage.period) /\ FlagsOf(local.page) = {}
    BY <1>6 DEF TypedFilter, FlagsOf
  <2>2. "page" \in DOMAIN l /\ l.page = local.page
    BY <2>1, NamedPage
  <2> QED
    BY <2>1, <2>2, PlainQueried
<1>7. CASE RefreshedFades
  <2>1. FlagsKept([local EXCEPT !.refreshed = FALSE])
    BY <1>7, HasFlags DEF RefreshedFades, On, Flagged, FlagsKept, FlagsOf
  <2> QED
    BY <1>7, <2>1, KeepsFlags, SetsFine DEF RefreshedFades
<1>8. CASE VisitLogged
  <2> DEFINE failed == [[local EXCEPT !.loading = None] EXCEPT !.last = 0, !.status = "failed"]
             logged(last) == [[local EXCEPT !.loading = None] EXCEPT !.last = last, !.status = "logged", !.cell = 0]
  <2>1. PICK f \in Waiting("logVisit") : ForcedOut \/ Hears(f, failed) \/ Hears(f, logged(f.arg[1]))
    BY <1>8 DEF VisitLogged
  <2>2. f \in flights /\ f.kind = "logVisit"
    BY DEF Waiting
  <2>3. f.mine => local.page = "visit"
    BY <2>2 DEF ChainsOK, Fine, Linked, ChainKinds, Awaits
  <2>4. f.mine => Mounted(failed) /\ \A last : Mounted(logged(last))
    BY <2>3, HasFlags DEF Mounted, Flagged, FlagsOf
  <2> HIDE DEF failed, logged
  <2> QED
    BY <2>1, <2>2, <2>4, ForcedFine, EndsFine DEF ChainKinds, ProfileKinds
<1>9. CASE ManualWashStarted
  <2>1. PICK l, status : l = [local EXCEPT !.loading = None, !.status = status] /\ Sets(l)
    BY <1>9 DEF ManualWashStarted
  <2>2. local.page = "visit" /\ local.loading = "wash"
    BY <1>9 DEF ManualWashStarted
  <2>3. Mounted(l) /\ \A kind \in ChainKinds : ~Awaits(local, kind)
    BY <2>1, <2>2, HasFlags DEF Mounted, Flagged, FlagsOf, Awaits, ChainKinds
  <2> QED
    BY <2>1, <2>3, IdleSets
<1> QED
  BY <1>1, <1>2, <1>3, <1>4, <1>5, <1>6, <1>7, <1>8, <1>9, WashStartedFine DEF StaffPagesSettle

LEMMA StaffPagesActionsFine == ASSUME IInv, ChainsOK, StaffPagesActions \/ StaffPolls PROVE ChainsOK'
<1>1. CASE StaffPolls
  <2>1. PICK key : UNCHANGED local /\ flights' = flights \cup {Fetch(key)}
    BY <1>1 DEF StaffPolls, ActivePolls, VerificationsPoll, IntervalFires
  <2>2. Besides(flights \cup {Fetch(key)}, flights)
    BY DEF Besides, Fetch, ChainKinds, FormKinds
  <2> QED
    BY <2>1, <2>2, LocalWaits, FliesFine
<1>2. CASE HandleEndClick \/ ManagerToggles
  <2>1. local.page = "dashboard"
    BY <1>2 DEF HandleEndClick, ManagerToggles, On
  <2>2. /\ \A confirm : FlagsKept([local EXCEPT !.confirm = confirm])
        /\ FlagsKept([local EXCEPT !.auto = ~@])
    BY <2>1, HasFlags DEF Flagged, FlagsKept, FlagsOf
  <2> QED
    BY <1>2, <2>2, KeepsFlags, SetsFine DEF HandleEndClick, ManagerToggles
<1>3. CASE ManagerRefetches
  <2>1. UNCHANGED local /\ flights' = Refetched({"active"}, flights)
    BY <1>3 DEF ManagerRefetches, Refetches
  <2> QED
    BY <2>1, LocalWaits, RefetchedBesides, FliesFine
<1>4. CASE ConfirmEnd
  <2>1. PICK l, arg : l = [local EXCEPT !.ending = TRUE] /\ SetsAndSends(l, {Flight("endWash", None, arg)})
    BY <1>4 DEF ConfirmEnd
  <2>2. local.page = "dashboard" /\ ~local.ending
    BY <1>4 DEF ConfirmEnd, ManagerOffers, On
  <2>3. Mounted(l) /\ Awaits(l, "endWash") /\ \A kind \in ChainKinds : ~Awaits(local, kind)
    BY <2>1, <2>2, HasFlags DEF Mounted, Flagged, FlagsOf, Awaits, ChainKinds
  <2> QED
    BY <2>1, <2>3, StartsFine DEF FormKinds
<1>5. CASE ChooseMethod
  <2>1. local.page = "verification"
    BY <1>5 DEF ChooseMethod, On
  <2>2. /\ \A method : FlagsKept([local EXCEPT !.method = method])
        /\ FlagsKept([local EXCEPT !.scanning = ~@])
        /\ \A order : FlagsKept([local EXCEPT !.typed = order])
        /\ FlagsKept([local EXCEPT !.dialog = FALSE])
    BY <2>1, HasFlags DEF Flagged, FlagsKept, FlagsOf
  <2> QED
    BY <1>5, <2>2, KeepsFlags, SetsFine DEF ChooseMethod
<1>6. CASE VerifyPayment
  <2>1. /\ FlagsKept([local EXCEPT !.processing = TRUE])
        /\ FlagsKept([local EXCEPT !.scanning = FALSE, !.processing = TRUE])
    BY <1>6, HasFlags DEF VerifyPayment, On, Flagged, FlagsKept, FlagsOf
  <2> QED
    BY <1>6, <2>1, KeepsFlags, SendsFine DEF VerifyPayment, ChainKinds, FormKinds
<1>7. CASE OpenRecord \/ VehicleModal
  <2>1. local.page = "verification"
    BY <1>7 DEF OpenRecord, VehicleModal, On
  <2>2. /\ \A records : FlagsKept([local EXCEPT !.records = records])
        /\ FlagsKept([local EXCEPT !.vehicles = FALSE])
        /\ \A chosen : FlagsKept([local EXCEPT !.chosen = chosen])
        /\ \A vehicle : FlagsKept([local EXCEPT !.vehicle = vehicle, !.vehicles = FALSE])
        /\ \A creating : FlagsKept([local EXCEPT !.creating = creating])
        /\ FlagsKept(local)
    BY <2>1, HasFlags DEF Flagged, FlagsKept, FlagsOf
  <2> QED
    BY <1>7, <2>2, KeepsFlags, SetsFine DEF OpenRecord, VehicleModal
<1>8. CASE ConfirmStartWash
  <2>1. local.page = "verification" /\ ~local.starting
    BY <1>8 DEF ConfirmStartWash, On, VerificationOffers, VehicleModalOffers, MethodOffers, RecordOffers
  <2>2. CASE Sets([local EXCEPT !.vehicles = TRUE])
    <3>1. FlagsKept([local EXCEPT !.vehicles = TRUE])
      BY <2>1, HasFlags DEF Flagged, FlagsKept, FlagsOf
    <3> QED
      BY <2>2, <3>1, KeepsFlags, SetsFine
  <2>3. CASE ~Sets([local EXCEPT !.vehicles = TRUE])
    <3>1. PICK l, arg : l = [local EXCEPT !.starting = TRUE] /\ SetsAndSends(l, {Flight("startWash", None, arg)})
      BY <1>8, <2>3 DEF ConfirmStartWash
    <3>2. Mounted(l) /\ Awaits(l, "startWash") /\ \A kind \in ChainKinds : ~Awaits(local, kind)
      BY <2>1, <3>1, HasFlags DEF Mounted, Flagged, FlagsOf, Awaits, ChainKinds
    <3> QED
      BY <3>1, <3>2, StartsFine DEF FormKinds
  <2> QED
    BY <2>2, <2>3
<1>9. CASE ManageVehicles
  <2>1. FlagsOf(local.page) = {}
    BY <1>9 DEF ManageVehicles, On, FlagsOf
  <2>2. \A offer \in VehiclesOffers : offer \in {"search", "adds", "type", "select", "delete", "owner", "add"}
    BY DEF VehiclesOffers, SearchTabOffers, AddTabOffers
  <2> QED
    BY <1>9, <2>1, <2>2, NamedPage, PlainSets DEF ManageVehicles, Typed
<1>10. CASE HandleFilterChange
  <2>1. FlagsOf(local.page) = {}
    BY <1>10 DEF HandleFilterChange, On, FlagsOf
  <2>2. \A offer \in HistoryOffers : offer \in {"period", "choose", "clear", "type", "open", "close"}
    BY DEF HistoryOffers, FilterOffers, WashListOffers, WashModalOffers
  <2>3. \/ \E period : Queried([local EXCEPT !.number = 1], period)
        \/ \E filter, period : Queried([local EXCEPT !.filter = filter, !.number = 1], period)
        \/ \E filter : Sets([local EXCEPT !.typing = {filter}])
        \/ Sets([local EXCEPT !.wash = ~@])
    BY <1>10, <2>2 DEF HandleFilterChange
  <2>4. CASE \E period : Queried([local EXCEPT !.number = 1], period)
    BY <2>1, <2>4, PlainQueried, NamedPage
  <2>5. CASE \E filter, period : Queried([local EXCEPT !.filter = filter, !.number = 1], period)
    <3>1. PICK filter, period, l : l = [local EXCEPT !.filter = filter, !.number = 1] /\ Queried(l, period)
      BY <2>5
    <3>2. "page" \in DOMAIN l /\ l.page = local.page
      BY <3>1, NamedPage
    <3> QED
      BY <2>1, <3>1, <3>2, PlainQueried
  <2>6. CASE \E filter : Sets([local EXCEPT !.typing = {filter}])
    BY <2>1, <2>6, PlainSets, NamedPage
  <2>7. CASE Sets([local EXCEPT !.wash = ~@])
    BY <2>1, <2>7, PlainSets, NamedPage
  <2> QED
    BY <2>3, <2>4, <2>5, <2>6, <2>7
<1>11. CASE TurnPage
  <2>1. FlagsOf(local.page) = {}
    BY <1>11 DEF TurnPage, On, FlagsOf
  <2> QED
    BY <1>11, <2>1, PlainQueried, NamedPage DEF TurnPage
<1>12. CASE AnalyticsToggles
  <2>1. FlagsOf(local.page) = {}
    BY <1>12 DEF AnalyticsToggles, On, FlagsOf
  <2> QED
    BY <1>12, <2>1, PlainQueried, PlainSets, NamedPage DEF AnalyticsToggles, AnalyticsOffers
<1>13. CASE HandleRefresh
  <2>1. PICK l, arg : l = [local EXCEPT !.refreshing = TRUE] /\ SetsAndSends(l, {Flight("recompute", None, arg)})
    BY <1>13 DEF HandleRefresh
  <2>2. local.page = "customers" /\ ~local.refreshing
    BY <1>13 DEF HandleRefresh, CustomersOffers, On
  <2>3. Mounted(l) /\ Awaits(l, "recompute") /\ \A kind \in ChainKinds : ~Awaits(local, kind)
    BY <2>1, <2>2, HasFlags DEF Mounted, Flagged, FlagsOf, Awaits, ChainKinds
  <2> QED
    BY <2>1, <2>3, StartsFine DEF FormKinds
<1>14. CASE TypeCell
  <2>1. \A cell : FlagsKept([local EXCEPT !.cell = cell])
    BY <1>14, HasFlags DEF TypeCell, On, Flagged, FlagsKept, FlagsOf
  <2> QED
    BY <1>14, <2>1, KeepsFlags, SetsFine DEF TypeCell
<1>15. CASE ConfirmAndLog
  <2>1. local.page = "visit" /\ local.loading = None
    BY <1>15 DEF ConfirmAndLog, On, VisitOffers
  <2>2. CASE Sets([local EXCEPT !.status = None])
    <3>1. FlagsKept([local EXCEPT !.status = None])
      BY <2>1, HasFlags DEF Flagged, FlagsKept, FlagsOf
    <3> QED
      BY <2>2, <3>1, KeepsFlags, SetsFine
  <2>3. CASE ~Sets([local EXCEPT !.status = None])
    <3>1. PICK l, arg : /\ l = [local EXCEPT !.status = None, !.loading = "log"]
                        /\ SetsAndSends(l, {Flight("logVisit", None, arg)})
      BY <1>15, <2>3 DEF ConfirmAndLog
    <3>2. Mounted(l) /\ Awaits(l, "logVisit") /\ \A kind \in ChainKinds : ~Awaits(local, kind)
      BY <2>1, <3>1, HasFlags DEF Mounted, Flagged, FlagsOf, Awaits, ChainKinds, None
    <3> QED
      BY <3>1, <3>2, StartsFine DEF FormKinds
  <2> QED
    BY <2>2, <2>3
<1>16. CASE HandleStartWash
  <2>1. PICK l : l = [local EXCEPT !.loading = "wash", !.status = None] /\ Sets(l)
    BY <1>16 DEF HandleStartWash
  <2>2. local.page = "visit" /\ local.loading = None
    BY <1>16 DEF HandleStartWash, On, VisitOffers
  <2>3. Mounted(l) /\ \A kind \in ChainKinds : ~Awaits(local, kind)
    BY <2>1, <2>2, HasFlags DEF Mounted, Flagged, FlagsOf, Awaits, ChainKinds, None
  <2> QED
    BY <2>1, <2>3, IdleSets
<1> QED
  BY <1>1, <1>2, <1>3, <1>4, <1>5, <1>6, <1>7, <1>8, <1>9, <1>10, <1>11, <1>12, <1>13, <1>14, <1>15, <1>16
  DEF StaffPagesActions

\* The administrators' pages have no such flag: they keep what is waited for.
LEMMA AdminPlain ==
  ASSUME ChainsOK, local.page \in {"inventory", "users", "transactions"}
  PROVE  FlagsOf(local.page) = {} /\ \A l : "page" \in DOMAIN l /\ l.page = local.page => KeepsWaiting(l)
BY KeepsPlain DEF FlagsOf

LEMMA FormHears ==
  ASSUME IInv, ChainsOK, NEW f \in flights, f.kind \in FormKinds, f.mine,
         SenderOf(f.kind) \in {"inventory", "users", "transactions"}
  PROVE  \A l : "page" \in DOMAIN l /\ l.page = local.page => KeepsWaiting(l)
<1>1. local.page = SenderOf(f.kind)
  BY DEF ChainsOK, Fine
<1> QED
  BY <1>1, AdminPlain

\* What a page hears of its form, with flights of which only others have changed.
LEMMA AdminHears ==
  ASSUME IInv, ChainsOK, NEW f \in flights, f.kind \in FormKinds,
         SenderOf(f.kind) \in {"inventory", "users", "transactions"},
         NEW l, "page" \in DOMAIN l, l.page = local.page, local' = IF f.mine THEN l ELSE local,
         NEW F, flights' = F, Fine(local, F)
  PROVE  ChainsOK'
BY FormHears, LocalWaits, FineKept, ChainsNext

LEMMA InventoryWrittenFine ==
  ASSUME IInv, ChainsOK, NEW kind \in Writes, InventoryWritten(kind)
  PROVE  ChainsOK'
<1>1. PICK f, lists, awaited : f \in Waiting(kind) /\
        \/ Hears(f, WriteEnds(local, kind))
        \/ /\ f.key \in lists
           /\ local' = IF f.mine THEN AfterWrite(f) ELSE local
           /\ flights' = FlightsAfter(lists, {f.key}, Superseded(awaited, flights \ {f}))
                         \cup {Then(f, "refreshLists", <<awaited, kind>>)}
           /\ cache' = CacheAfter(lists, {f.key})
  <2>1. PICK f \in Waiting(kind) :
        \/ Hears(f, WriteEnds(local, kind))
        \/ LET lists == IF kind = "createItem" /\ f.key = "extras" THEN Lists ELSE {f.key}
               awaited == lists \cap Watched IN
           /\ f.key \in lists
           /\ local' = IF f.mine THEN AfterWrite(f) ELSE local
           /\ flights' = FlightsAfter(lists, {f.key}, Superseded(awaited, flights \ {f}))
                         \cup {Then(f, "refreshLists", <<awaited, kind>>)}
           /\ cache' = CacheAfter(lists, {f.key})
    BY DEF InventoryWritten
  <2> QED
    BY <2>1
<1>2. f \in flights /\ f.kind \in FormKinds /\ SenderOf(f.kind) = "inventory"
  BY <1>1 DEF Waiting, Writes, FormKinds, SenderOf
<1>3. CASE Hears(f, WriteEnds(local, kind))
  <2>1. PICK l : l = WriteEnds(local, kind)
    OBVIOUS
  <2>2. "page" \in DOMAIN l /\ l.page = local.page
    BY <2>1, NamedPage DEF WriteEnds
  <2> QED
    BY <1>2, <1>3, <2>1, <2>2, RestFine, AdminHears DEF Hears
<1>4. CASE ~Hears(f, WriteEnds(local, kind))
  <2>1. PICK g, F, G : /\ g = Then(f, "refreshLists", <<awaited, kind>>)
                       /\ F = Superseded(awaited, flights \ {f})
                       /\ G = FlightsAfter(lists, {f.key}, F)
    OBVIOUS
  <2>2. flights' = G \cup {g} /\ local' = IF f.mine THEN AfterWrite(f) ELSE local
    BY <1>1, <1>4, <2>1
  <2>3. g.mine = f.mine /\ g.kind = "refreshLists"
    BY <2>1, ThenMine
  <2>4. Fine(local, (flights \ {f}) \cup {g})
    BY <1>2, <2>3, FineFollowed DEF ChainsOK, FormKinds, SenderOf, ChainKinds, ProfileKinds
  <2>5. Besides(F, flights \ {f})
    BY <2>1, FramedNow, SupersededBesides
  <2>6. Framed(F)
    BY <1>2, <2>1, WholeNow, WholeRest, WholeSuperseded DEF Whole, Fetched, Writes, FormKinds
  <2>7. Besides(G, F)
    <3>1. \A written : Besides(FlightsAfter(lists, written, F), F)
      BY <2>6, AfterBesides
    <3> QED
      BY <2>1, <3>1
  <2>8. Besides(G \cup {g}, (flights \ {f}) \cup {g})
    BY <2>5, <2>7, BesidesThrough DEF Besides
  <2>9. Fine(local, G \cup {g})
    BY <2>4, <2>8, FineBesides
  <2>10. PICK l : l = AfterWrite(f)
    OBVIOUS
  <2>11. "page" \in DOMAIN l /\ l.page = local.page
    BY <2>10, NamedPage DEF AfterWrite
  <2> QED
    BY <1>2, <2>2, <2>9, <2>10, <2>11, AdminHears
<1> QED
  BY <1>3, <1>4

LEMMA TurnsFine ==
  ASSUME IInv, ChainsOK, FlagsOf(local.page) = {}, NEW l, TurnsTo(l), "page" \in DOMAIN l, l.page = local.page
  PROVE  ChainsOK'
<1>1. local' = l /\ (UNCHANGED flights \/ ShowsEntry(TableKey(l)))
  BY DEF TurnsTo
<1>2. Besides(flights', flights)
  BY <1>1, ShowsBesides DEF Besides
<1> QED
  BY <1>1, <1>2, KeepsPlain, FliesFine

LEMMA UsersFine ==
  ASSUME IInv, ChainsOK, UsersTyped \/ UsersDebounced \/ UsersTurn
  PROVE  ChainsOK'
<1>1. FlagsOf(local.page) = {}
  BY DEF UsersTyped, UsersDebounced, UsersTurn, On, FlagsOf
<1> QED
  BY <1>1, TurnsFine, NamedPage DEF UsersTyped, UsersDebounced, UsersTurn

LEMMA RolesFine ==
  ASSUME IInv, ChainsOK, SaveRole \/ ServerSetsRole \/ RoleSettles
  PROVE  ChainsOK'
<1>1. CASE SaveRole
  <2>1. PICK key, user, row, role :
          /\ key = TableKey(local) /\ user = local.editing
          /\ row = [Row(local) EXCEPT !.stale = FALSE] /\ role = 1 - row.roles[user]
    OBVIOUS
  <2>2. /\ flights' = {Keeps(f, key) : f \in {g \in flights : g.kind # "users" \/ g.arg[1] # key}}
                     \cup {[Flight("role", None, <<user, role, row, <<>>>>) EXCEPT !.n = FreeNumber(RoleFlights)]}
        /\ local' = [local EXCEPT !.editing = 0]
    BY <1>1, <2>1 DEF SaveRole
  <2>3. PICK G, f, n : /\ G = {g \in flights : g.kind # "users" \/ g.arg[1] # key}
                       /\ f = Flight("role", None, <<user, role, row, <<>>>>) /\ n = FreeNumber(RoleFlights)
    OBVIOUS
  <2>4. [f EXCEPT !.n = n].kind = "role"
    BY <2>3, FlightIs DEF FlightFields
  <2>5. ASSUME NEW g \in flights
        PROVE  Keeps(g, key) = g \/ (g.kind = "role" /\ Keeps(g, key).kind = g.kind /\ Keeps(g, key).mine = g.mine)
    BY FramedNow DEF Framed, FlightFields, Keeps, RoleFlights
  <2>6. \A h \in flights' : h = [f EXCEPT !.n = n] \/ \E g \in flights : h = Keeps(g, key)
    BY <2>2, <2>3
  <2>7. Besides(flights', flights)
    BY <2>4, <2>5, <2>6 DEF Besides, ChainKinds, FormKinds
  <2>8. local.page = "users"
    BY <1>1 DEF SaveRole, On
  <2>9. KeepsWaiting([local EXCEPT !.editing = 0])
    BY <2>8, AdminPlain, NamedPage
  <2> QED
    BY <2>2, <2>7, <2>9, FliesFine
<1>2. CASE ServerSetsRole
  <2>1. PICK f \in Waiting("role") : \E reply : flights' = Answered(f, reply, 0) /\ UNCHANGED local
    BY <1>2 DEF ServerSetsRole, Answers
  <2>2. f \in flights /\ f.kind \notin ProfileKinds \cup {"token"}
    BY DEF Waiting, ProfileKinds
  <2> QED
    BY <2>1, <2>2, AnswersFine, ChainsNext
<1>3. CASE RoleSettles
  <2>1. PICK f, back :
          /\ flights' = {IF g.kind = "users" /\ g.reply = "ok" THEN [g EXCEPT !.value = 1] ELSE g
                           : g \in TableAgain(flights \ {f}, back)}
          /\ local' = IF f.mine THEN [local EXCEPT !.editing = 0] ELSE local
    BY <1>3 DEF RoleSettles
  <2>2. PICK F : F = TableAgain(flights \ {f}, back)
    OBVIOUS
  <2>3. Besides(F, flights \ {f})
    BY <2>2, TableBesides
  <2>4. \A g \in F : "kind" \in DOMAIN g
    <3>1. \A g \in F : g \in flights \/ g = TableFetch(TableKey(local))
      BY <2>2 DEF TableAgain, TableFetches
    <3> QED
      BY <3>1, FramedNow DEF Framed, FlightFields, TableFetch
  <2>5. \A h \in flights' : h \in F \/ h.kind = "users"
    BY <2>1, <2>2, <2>4
  <2>6. Besides(flights', flights)
    BY <2>3, <2>5 DEF Besides, ChainKinds, FormKinds
  <2>7. FlagsKept([local EXCEPT !.editing = 0])
    BY HasFlags DEF Flagged, FlagsKept, FlagsOf
  <2> QED
    BY <2>1, <2>6, <2>7, KeepsFlags, LocalWaits, FliesFine
<1> QED
  BY <1>1, <1>2, <1>3

LEMMA UserAddedFine ==
  ASSUME IInv, ChainsOK, NEW form \in UserFormKinds, UserAdded(form)
  PROVE  ChainsOK'
<1>1. PICK f \in Waiting(form) :
        LET l == [local EXCEPT !.sending = @ \ {form}] IN
        \/ Hears(f, l)
        \/ /\ local' = IF f.mine THEN [l EXCEPT !.form = IF @ = form THEN None ELSE @] ELSE local
           /\ flights' = TableAgain(flights \ {f}, memory.table)
  BY DEF UserAdded
<1>2. f \in flights /\ f.kind \in FormKinds /\ SenderOf(f.kind) = "users"
  BY DEF Waiting, UserFormKinds, FormKinds, SenderOf
<1>3. PICK l, m : /\ l = [local EXCEPT !.sending = @ \ {form}]
                  /\ m = [l EXCEPT !.form = IF @ = form THEN None ELSE @]
  OBVIOUS
<1>4. "page" \in DOMAIN l /\ l.page = local.page /\ "page" \in DOMAIN m /\ m.page = local.page
  BY <1>3, NamedPage
<1>5. Fine(local, TableAgain(flights \ {f}, memory.table))
  BY RestFine, TableBesides, FineBesides
<1>6. CASE Hears(f, l)
  BY <1>2, <1>4, <1>6, RestFine, AdminHears DEF Hears
<1>7. CASE local' = (IF f.mine THEN m ELSE local) /\ flights' = TableAgain(flights \ {f}, memory.table)
  BY <1>2, <1>4, <1>5, <1>7, AdminHears
<1> QED
  BY <1>1, <1>3, <1>6, <1>7

LEMMA AdminPagesFine ==
  ASSUME IInv, ChainsOK, AdminPagesSettle \/ AdminPagesActions
  PROVE  ChainsOK'
<1>1. CASE ListsRefreshed
  <2>1. PICK f \in Waiting("refreshLists") : Hears(f, WriteEnds(local, f.arg[2]))
    BY <1>1 DEF ListsRefreshed
  <2>2. f \in flights /\ f.kind \in FormKinds /\ SenderOf(f.kind) = "inventory"
    BY DEF Waiting, FormKinds, SenderOf
  <2>3. PICK l : l = WriteEnds(local, f.arg[2])
    OBVIOUS
  <2>4. "page" \in DOMAIN l /\ l.page = local.page
    BY <2>3, NamedPage DEF WriteEnds
  <2> QED
    BY <2>1, <2>2, <2>3, <2>4, RestFine, AdminHears DEF Hears
<1>2. CASE ServerListsUsers
  <2>1. PICK f, roles :
          /\ f \in Waiting("users")
          /\ flights' = (flights \ {f}) \cup {[f EXCEPT !.reply = "ok", !.arg = Append(@, roles)]}
          /\ UNCHANGED local
    BY <1>2 DEF ServerListsUsers
  <2>2. [f EXCEPT !.reply = "ok", !.arg = Append(@, roles)].kind = "users"
    BY <2>1, FramedNow DEF Waiting, Framed, FlightFields
  <2>3. Besides(flights', flights)
    BY <2>1, <2>2 DEF Besides, ChainKinds, FormKinds
  <2> QED
    BY <2>1, <2>3, LocalWaits, FliesFine
<1>3. CASE UsersArrive
  <2>1. PICK f : flights' = flights \ {f} /\ UNCHANGED local
    BY <1>3 DEF UsersArrive
  <2> QED
    BY <2>1, LocalWaits, FliesFine DEF Besides
<1>4. CASE TransactionsDebounced \/ TransactionsArrive \/ FilterTransactions \/ TurnTransactions
  <2>1. PICK l : Sets(l)
    BY <1>4 DEF TransactionsDebounced, TransactionsArrive, FilterTransactions, TurnTransactions, Asks
  <2>2. local.page = "transactions"
    BY <1>4 DEF TransactionsDebounced, TransactionsArrive, FilterTransactions, TurnTransactions, On
  <2>3. "page" \in DOMAIN l /\ l.page = local.page
    BY <1>4, <2>1, <2>2, TransactionsStay DEF Sets
  <2> QED
    BY <2>1, <2>2, <2>3, AdminPlain, PlainSets
<1>5. CASE EditInventory \/ EditRole
  <2>1. local.page \in {"inventory", "users"}
    BY <1>5 DEF EditInventory, EditRole, On
  <2> QED
    BY <1>5, <2>1, AdminPlain, PlainSets, NamedPage DEF EditInventory, EditRole
<1>6. CASE RefreshInventory
  <2>1. flights' = Refetched(Lists, Superseded(Lists, flights)) /\ UNCHANGED local
    BY <1>6 DEF RefreshInventory
  <2>2. Besides(flights', flights)
    BY <2>1, FramedNow, SupersededBesides, RefetchedBesides, BesidesThrough
  <2> QED
    BY <2>1, <2>2, LocalWaits, FliesFine
<1>7. CASE WriteInventory
  <2>1. PICK kind \in {"createItem", "save", "delete"} : \E key :
          SetsAndSends([local EXCEPT !.submitting = TRUE], {Flight(kind, key, <<>>)})
    BY <1>7 DEF WriteInventory
  <2>2. local.page = "inventory" /\ kind \in FormKinds /\ SenderOf(kind) = "inventory"
    BY <1>7 DEF WriteInventory, On, FormKinds, SenderOf
  <2>3. KeepsWaiting([local EXCEPT !.submitting = TRUE])
    BY <2>2, AdminPlain, NamedPage
  <2> QED
    BY <2>1, <2>2, <2>3, SendsForm
<1>8. CASE UserForms
  <2>1. local.page = "users"
    BY <1>8 DEF UserForms, On
  <2>2. CASE \E form : Sets([local EXCEPT !.form = form])
    BY <2>1, <2>2, AdminPlain, PlainSets, NamedPage
  <2>3. CASE \E form \in UserFormKinds : \E sending :
               SetsAndSends([local EXCEPT !.sending = sending], {Flight(form, None, <<>>)})
    <3>0. PICK form \in UserFormKinds :
            \E sending : SetsAndSends([local EXCEPT !.sending = sending], {Flight(form, None, <<>>)})
      BY <2>3
    <3>1. PICK sending : SetsAndSends([local EXCEPT !.sending = sending], {Flight(form, None, <<>>)})
      BY <3>0
    <3>2. form \in FormKinds /\ SenderOf(form) = "users"
      BY DEF UserFormKinds, FormKinds, SenderOf
    <3>3. KeepsWaiting([local EXCEPT !.sending = sending])
      BY <2>1, AdminPlain, NamedPage
    <3> QED
      BY <2>1, <3>1, <3>2, <3>3, SendsForm
  <2> QED
    BY <1>8, <2>2, <2>3 DEF UserForms
<1>9. CASE UsersReload
  BY <1>9, TableBesides, LocalWaits, FliesFine DEF UsersReload
<1> QED
  BY <1>1, <1>2, <1>3, <1>4, <1>5, <1>6, <1>7, <1>8, <1>9, InventoryWrittenFine, UserAddedFine, UsersFine, RolesFine
  DEF AdminPagesSettle, AdminPagesActions

LEMMA ChainsStep == ASSUME IInv, ChainsOK, [Next]_vars PROVE ChainsOK'
<1>1. CASE UNCHANGED vars
  BY <1>1, ChainsNext DEF vars, ChainsOK
<1>2. ASSUME NEW key \in Keys, QueryArrives(key) PROVE ChainsOK'
  <2>1. PICK f : UNCHANGED local /\ flights' = flights \ {f}
    BY <1>2 DEF QueryArrives
  <2> QED
    BY <2>1, LocalWaits, FliesFine DEF Besides
<1>3. CASE Next /\ \A key \in Keys : ~QueryArrives(key)
  BY <1>3, SessionFine, MountsOK, SessionPagesSettleFine, SessionPagesActionsFine, OrderPagesSettleFine,
     OrderPagesActionsFine, AccountPagesFine, StaffPagesSettleFine, StaffPagesActionsFine, AdminPagesFine
  DEF Next, PagesSettle
<1> QED
  BY <1>1, <1>2, <1>3

\* The requests of one chain of handlers have one flag, and two at once would
\* be one too many of it.
LEMMA OneOfChain ==
  ASSUME ChainsOK, NEW chain \in Chains
  PROVE  Cardinality({f \in flights : f.mine /\ f.kind \in chain}) <= 1
<1> DEFINE Mine == {f \in flights : f.mine /\ f.kind \in chain}
<1>1. /\ chain \subseteq ChainKinds /\ "token" \notin chain
      /\ \A j, k \in chain : j \in ProfileKinds => j = k
  BY DEF Chains, ChainKinds, ProfileKinds
<1>2. Mine \subseteq Linked(flights)
  BY <1>1 DEF Linked
<1>3. \A f, g \in Mine : f = g
  BY <1>1, <1>2 DEF ChainsOK, Fine
<1>4. CASE Mine = {}
  BY <1>4, FS_EmptySet
<1>5. CASE Mine # {}
  <2>1. PICK f \in Mine : Mine = {f}
    BY <1>3, <1>5
  <2> QED
    BY <2>1, FS_Singleton
<1> QED
  BY <1>4, <1>5

\* A handler that disables the button or the form it was started from has one
\* request at most under way, whatever was answered late, left or mounted again
\* meanwhile, and no timer of a poll outlives its page (the flags that disable
\* the buttons; the cleanup of Welcome.tsx).  Handlers that disable nothing are
\* not among the Chains.
THEOREM SentOnce == Spec => []AwaitedOnce
<1>1. Init => ChainsOK
  BY DEF Init, ChainsOK, Fine, Linked, Flagged, FlagsOf, Unmounted, None
<1>2. IInv /\ ChainsOK /\ [Next]_vars => ChainsOK'
  BY ChainsStep
<1>3. ChainsOK => AwaitedOnce
  <2> SUFFICES ASSUME ChainsOK PROVE AwaitedOnce
    OBVIOUS
  <2>1. \A f \in flights : f.kind = "pollTimer" => local.page = "welcome"
    BY DEF ChainsOK, Fine, Linked, Awaits, ChainKinds
  <2> QED
    BY <2>1, OneOfChain DEF AwaitedOnce, None
<1> QED
  BY <1>1, <1>2, <1>3, Invariant, PTL DEF Spec
=============================================================================
