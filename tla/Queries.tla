------------------------------ MODULE Queries ------------------------------
(***************************************************************************)
(* The query cache, TanStack Query 5 as src/Frontend/src/api/queryClient.ts *)
(* sets it up and the pages use it: the library is external to the         *)
(* repository.  A page observes keys; what it shows of a key is the cache's *)
(* entry.  Fetches belong to the cache and go on when the page is left.    *)
(***************************************************************************)
EXTENDS Session

Has(key) == cache[key].data
Fails(key) == cache[key].failed
Loads(key) == ~Has(key) /\ ~Fails(key)
FetchOf(key) == {f \in flights : f.kind = "query" /\ f.key = key}
Fetching(key) == FetchOf(key) # {}

\* The keys that the mounted page observes.
Watched ==
    CASE local.page = "order" -> {"catalog"}
      [] local.page = "loyalty" -> {"loyalty"}
      [] local.page = "profile" -> {"profile"}
      [] local.page = "dashboard" -> {"active", "statistics"}
      [] local.page = "verification" -> {"active", "verifications"}
      [] local.page = "analytics" -> {"active"}
      [] local.page = "customers" -> {"customers"}
      [] local.page = "inventory" -> {"services", "extras"}
      [] OTHER -> {}

\* value 1 marks a fetch that a write has overtaken.  It belongs to no page.
Fetch(key) == [kind |-> "query", key |-> key, arg |-> <<>>, mine |-> FALSE,
               reply |-> None, value |-> 0, n |-> 0]

\* A fetch without data to show is pending again, whatever failed before.
Pending(C, keys) ==
    [key \in Keys |-> IF key \in keys /\ ~C[key].data
                        THEN [C[key] EXCEPT !.failed = FALSE] ELSE C[key]]

\* A page mounts: what is missing or invalidated is fetched, and the rest if
\* it has become stale with time.  A fetch that is under way is shared.
MountAsks(keys, F) == \E aged \in SUBSET keys :
    LET due == {key \in keys : ~Has(key) \/ cache[key].stale \/ key \in aged}
        asked == {key \in due : ~Fetching(key)} IN
    /\ \A key \in aged : Has(key) /\ ~cache[key].stale
    /\ flights' = F \cup {Fetch(key) : key \in asked}
    /\ cache' = Pending(cache, asked)

QueryArrives(key) == \E f \in FetchOf(key) :
    /\ flights' = flights \ {f}
    /\ \/ cache' = [cache EXCEPT ![key].failed = TRUE]
       \/ \E misses \in {None} \cup (IF f.value = 1 THEN {"overtaken"} ELSE {}) :
             cache' = [cache EXCEPT ![key] = [data |-> TRUE, stale |-> FALSE,
                                              failed |-> FALSE, misses |-> misses]]
    /\ UNCHANGED <<tour, location, history, local, memory, storage, server>>

\* What a fetch again of the observed keys makes of the flights F: a fetch
\* under way is replaced, unless there is no data yet: then it is kept.
Refetched(keys, F) ==
    LET again == keys \cap Watched
        kept == {f \in F : f.kind = "query" /\ f.key \in again /\ ~Has(f.key)} IN
    {f \in F : f.kind # "query" \/ f.key \notin again} \cup kept
    \cup {Fetch(key) : key \in again \ {f.key : f \in kept}}

\* refetch() by the user.
Refetches(keys) ==
    /\ flights' = Refetched(keys, flights)
    /\ cache' = Pending(cache, keys \cap Watched)

\* The write of flight f has been acknowledged: what the cache holds of its
\* keys misses it, and so may what is being fetched.
Missing(keys) ==
    [key \in Keys |-> IF key \in keys /\ Has(key)
                        THEN [cache[key] EXCEPT !.misses = "cached"] ELSE cache[key]]
Overtaken(keys, F) ==
    {IF f.kind = "query" /\ f.key \in keys THEN [f EXCEPT !.value = 1] ELSE f : f \in F}

\* invalidateQueries.
Stale(keys, C) ==
    [key \in Keys |-> IF key \in keys THEN [C[key] EXCEPT !.stale = @ \/ C[key].data] ELSE C[key]]

\* A mutation that wrote the keys "written" succeeds and invalidates "keys":
\* what becomes of the flights F and of the cache.
FlightsAfter(keys, written, F) == Refetched(keys, Overtaken(written, F))
CacheAfter(keys, written) == Pending(Stale(keys, Missing(written)), keys \cap Watched)

Invalidates(keys, written, F) ==
    /\ flights' = FlightsAfter(keys, written, F)
    /\ cache' = CacheAfter(keys, written)

\* refetchInterval of an observed query.
IntervalFires(key) ==
    /\ key \in Watched /\ Rendered
    /\ ~Fetching(key)
    /\ flights' = flights \cup {Fetch(key)}
    /\ cache' = Pending(cache, {key})
    /\ UNCHANGED <<tour, location, history, local, memory, storage, server>>
=============================================================================
