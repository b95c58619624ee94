------------------------------ MODULE Browser ------------------------------
(***************************************************************************)
(* One browser tab running the single-page application of src/Frontend.    *)
(*                                                                         *)
(* The router mounts one page at a time.  The React state of that page     *)
(* (local) is created when the page mounts and is gone when the router     *)
(* leaves it, but the requests, popups and timers the page started         *)
(* (flights) go on: their late answers cannot set the state of a page that *)
(* has been left, yet they can still navigate, write to localStorage or    *)
(* fill the query cache.  Everything that outlives a page is a variable of *)
(* its own.  The pages are modules that extend this one; WebApp composes   *)
(* them.                                                                   *)
(***************************************************************************)
EXTENDS Integers, Sequences, FiniteSets

CONSTANTS
    Tours,      \* what the user of one behaviour does: [who, signedIn, paths, uses, moves, orders]
    MaxFlights  \* requests, popups and timers the tab has under way at most

ASSUME ToursAssumption ==
    /\ Tours # {} /\ MaxFlights \in Nat \ {0}
    /\ Tours \subseteq [who : STRING, signedIn : BOOLEAN, paths : SUBSET STRING,
                        uses : SUBSET STRING, moves : Nat, orders : Nat]

VARIABLES
    tour,      \* chosen at the start: who is at the browser, signed in or not, the
               \* paths visited, the controls used, the moves left, and the
               \* orders at most
    location,  \* react-router's location: path and location.state
    history,   \* the locations with an order in their state the tab has been at
    local,     \* React state of the mounted page, with the name of the page
    flights,   \* requests, popups and timers under way
    memory,    \* what outlives a page until the tab reloads: AuthProvider, module variables
    storage,   \* localStorage
    cache,     \* the React Query cache: one entry per key
    server     \* what the backend holds, as far as the pages can tell

vars == <<tour, location, history, local, flights, memory, storage, cache, server>>

None == "none"

\* The query cache: what it holds under a key, whether that is to be fetched
\* again, whether the last fetch failed, and whether the data misses a write
\* that the server has acknowledged ("cached": it was there when the write
\* was; "overtaken": it was being fetched).
Keys == {"catalog", "loyalty", "profile", "active", "verifications", "statistics", "customers",
         "services", "extras"}
EmptyCache == [key \in Keys |-> [data |-> FALSE, stale |-> FALSE, failed |-> FALSE, misses |-> None]]

\* What the cache holds of the table of users, by page and searched text:
\* memory.table.
TableKeys == (1..2) \X {0, 1}
EmptyTable == [key \in TableKeys |-> [has |-> FALSE, stale |-> FALSE, failed |-> FALSE,
                                      missed |-> FALSE, items |-> {}, pages |-> 0, roles |-> <<0, 0>>]]

(***************************************************************************)
(* The router.                                                             *)
(***************************************************************************)
Unmounted == [page |-> None]

At(path) == [path |-> path, order |-> 0, amount |-> 0, from |-> None]

Nowhere == At(None)

\* A path outside the tour is a page this behaviour leaves blank.
Path(path) == IF path \in tour.paths THEN path ELSE "elsewhere"

\* Leaving a page: what it started goes on without it, but for the timers that
\* its effects clear.
Cleared == {"pollTimer"}
Orphaned(F) == {[f EXCEPT !.mine = FALSE] : f \in {g \in F : g.kind \notin Cleared}}

\* navigate(path, {state}): another page is unmounted, the same one is kept
\* and gets the new state.
NavigateWith(there, F) ==
    LET to == [there EXCEPT !.path = Path(there.path)] IN
    /\ location' = to
    /\ history' = IF to.order = 0 THEN history ELSE history \cup {to}
    /\ IF to.path = location.path
         THEN flights' = F /\ UNCHANGED local
         ELSE flights' = Orphaned(F) /\ local' = Unmounted

Navigate(path, F) == NavigateWith(At(path), F)

\* Controls of forms that the behaviour leaves alone keep its states few.
Uses(control) == control \in tour.uses

Stays == UNCHANGED <<location, history>>

(***************************************************************************)
(* Requests.  A request knows the handler that sent it (kind), what it was *)
(* sent with (key, arg), whether the page that sent it is still mounted    *)
(* (mine), and what the server answered (reply, with the value it          *)
(* carries).  n tells apart two requests sent with the same arguments.  A  *)
(* request whose answer only the state of its page depends on is no        *)
(* flight: a flag of the page says that it is awaited.                     *)
(***************************************************************************)
\* A number that none of the flights F has.
FreeNumber(F) == CHOOSE n \in 0..Cardinality(F) : \A f \in F : f.n # n

Flight(kind, key, arg) ==
    [kind |-> kind, key |-> key, arg |-> arg, mine |-> TRUE, reply |-> None, value |-> 0,
     n |-> FreeNumber({f \in flights : f.kind = kind /\ f.key = key /\ f.arg = arg})]

\* The same chain of awaits goes on with another request.
Then(f, kind, arg) == [Flight(kind, f.key, arg) EXCEPT !.mine = f.mine]

GoesOn(f, kind, arg) == (flights \ {f}) \cup {Then(f, kind, arg)}

Flying(kind) == \E f \in flights : f.kind = kind

MineFlying(kind) == \E f \in flights : f.kind = kind /\ f.mine

\* The server has answered f and its answer is on the way.
Answered(f, reply, value) == (flights \ {f}) \cup {[f EXCEPT !.reply = reply, !.value = value]}

Waiting(kind) == {f \in flights : f.kind = kind /\ f.reply = None}
Arriving(kind) == {f \in flights : f.kind = kind /\ f.reply # None}

(***************************************************************************)
(* Shapes of handlers.                                                     *)
(***************************************************************************)
\* A handler that sets state of its page and nothing else.
Sets(l) ==
    /\ local' = l
    /\ UNCHANGED <<tour, location, history, flights, memory, storage, cache, server>>

\* A handler that sets state and sends requests.
SetsAndSends(l, F) ==
    /\ Cardinality(flights \cup F) <= MaxFlights
    /\ local' = l
    /\ flights' = flights \cup F
    /\ UNCHANGED <<tour, location, history, memory, storage, cache, server>>

\* The answer f reaches its page: state is set only if the page is there.
Hears(f, l) ==
    /\ local' = IF f.mine THEN l ELSE local
    /\ flights' = flights \ {f}
    /\ UNCHANGED <<tour, location, history, memory, storage, cache, server>>

\* The server answers f without changing anything.
Answers(f, reply, value) ==
    /\ flights' = Answered(f, reply, value)
    /\ UNCHANGED <<tour, location, history, local, memory, storage, cache, server>>
=============================================================================
