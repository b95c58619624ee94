---------------------------- MODULE RateLimiter ----------------------------
(***************************************************************************)
(* The token buckets of core/rate_limit.py for one scope: check_rate with  *)
(* its strikes and bans, and what the developer and administrator          *)
(* endpoints change while requests are served.                             *)
(*                                                                         *)
(* Nothing is locked.  Handlers run in a pool of threads, so a request     *)
(* reads and writes the dictionaries in steps of its own; the middleware   *)
(* that serves a scope on the event loop is the case of one worker.        *)
(*                                                                         *)
(* Time is in whole seconds.  A bucket of cap tokens in per seconds counts *)
(* its tokens in parts, per of them to a token, so that a second brings    *)
(* cap parts.                                                              *)
(***************************************************************************)
EXTENDS Integers

CONSTANTS
  Keys,        \* clients: addresses, or users
  Watched,     \* the clients whose grants are counted
  Workers,     \* requests served at a time
  Default,     \* the limit in the settings: a record of cap and per
  Overrides,   \* the limits that are set at run time
  Penalised,   \* whether the scope is _PENALTY_TRIGGER_SCOPE
  Decay,       \* _PENALTY_DECAY_SECONDS
  MaxStrikes,  \* _PENALTY_MAX_STRIKES
  BanSeconds,  \* _BAN_SECONDS
  MaxClock,    \* bound: the last second of the model
  NoKey

Limits == Overrides \cup {Default}

ASSUME RateLimiterAssumption ==
  /\ NoKey \notin Keys /\ Watched \subseteq Keys
  /\ Limits \subseteq [cap : Nat, per : Nat]
  /\ Penalised \in BOOLEAN
  /\ Decay \in Nat /\ MaxClock \in Nat
  /\ MaxStrikes \in Nat \ {0} /\ BanSeconds \in Nat \ {0}

VARIABLES
  clock,       \* clock.now()
  config,      \* _CONFIG, by what the entry names: the scope itself or "*"
  buckets,     \* _BUCKETS: none while cap is 0
  penalties,   \* _PENALTIES: none while strikes is 0
  bans,        \* _BANS: none while 0
  request,     \* the request each worker serves, with what it has read
  seen         \* history: what a client has been answered

vars == <<clock, config, buckets, penalties, bans, request, seen>>

NoLimit == [cap |-> -1, per |-> 0]
Bucket == [tokens : Nat, last : Nat, cap : Nat, per : Nat]
NoBucket == [tokens |-> 0, last |-> 0, cap |-> 0, per |-> 0]
NoPenalty == [strikes |-> 0, ts |-> 0]

\* verdict: the answer of the last request; limit: the one resolved for it;
\* bucket: the refilled copy; strikes and at: the count to be stored and its time;
\* wait: the retry_after of a refusal.
Request == [phase : {"idle", "lift", "fetch", "grant", "clear", "store", "refuse", "count",
                     "strike", "reply"},
            verdict : {"none", "granted", "limited", "banned", "blocked", "failed"},
            key : Keys \cup {NoKey}, limit : [cap : Nat, per : Nat], bucket : Bucket,
            strikes : 0..MaxStrikes, at : Nat, wait : Nat]

Idle == [phase |-> "idle", verdict |-> "none", key |-> NoKey, limit |-> [cap |-> 0, per |-> 0],
         bucket |-> NoBucket, strikes |-> 0, at |-> 0, wait |-> 0]

\* grants: granted requests that read the bucket at since or later; granted: the
\* time of the last one, or -1; chain: refusals of which none came more than Decay after the
\* one before, the last at refused; row: those since the last grant; until: the
\* end of the last ban.
History == [since : Nat, grants : Nat, granted : Nat \cup {-1}, chain : 0..MaxStrikes,
            row : 0..MaxStrikes, refused : Nat, until : Nat]

TypeOK ==
  /\ clock \in Nat
  /\ config \in [{"scope", "any"} -> Limits \cup {NoLimit}]
  /\ buckets \in [Keys -> Bucket]
  /\ penalties \in [Keys -> [strikes : 0..MaxStrikes, ts : Nat]]
  /\ bans \in [Keys -> Nat]
  /\ request \in [Workers -> Request]
  /\ seen \in [Keys -> History]

Init ==
  /\ clock = 0
  /\ config = [level \in {"scope", "any"} |-> NoLimit]
  /\ buckets = [k \in Keys |-> NoBucket]
  /\ penalties = [k \in Keys |-> NoPenalty]
  /\ bans = [k \in Keys |-> 0]
  /\ request = [w \in Workers |-> Idle]
  /\ seen = [k \in Keys |-> [since |-> 0, grants |-> 0, granted |-> -1, chain |-> 0,
                             row |-> 0, refused |-> 0, until |-> 0]]

-----------------------------------------------------------------------------
(* Reading the dictionaries *)

\* get_limit: the override of the scope, then the catch-all, then the settings.
Limit == IF config["scope"] # NoLimit THEN config["scope"]
         ELSE IF config["any"] # NoLimit THEN config["any"] ELSE Default

Lapsed(k) == clock - penalties[k].ts > Decay

Strikes(k) == IF Lapsed(k) THEN 0 ELSE penalties[k].strikes

\* _apply_penalty_if_applicable: strikes divide the capacity, down to 1.
Reduced(k, cap) ==
  IF ~Penalised \/ Strikes(k) = 0 THEN cap
  ELSE IF cap \div (1 + Strikes(k)) >= 1 THEN cap \div (1 + Strikes(k)) ELSE 1

ReducedLimit(k) == [Limit EXCEPT !.cap = Reduced(k, Limit.cap)]

\* A window of no length brings nothing back: the parts are whole tokens.
Unit(b) == IF b.per > 0 THEN b.per ELSE 1
Rate(b) == IF b.per > 0 THEN b.cap ELSE 0

Full(limit) == [tokens |-> limit.cap * Unit(limit), last |-> clock,
                cap |-> limit.cap, per |-> limit.per]

Lesser(m, n) == IF m <= n THEN m ELSE n

\* Mutant of Refilled: the time passes and brings nothing until it fills the bucket.
RefilledLate(b) ==
  [b EXCEPT !.tokens = IF (clock - b.last) * Rate(b) >= b.cap * Unit(b)
                       THEN b.cap * Unit(b) ELSE @,
            !.last = clock]

\* Mutant of Refilled: the time of the last refill stays.
RefilledAgain(b) ==
  [b EXCEPT !.tokens = Lesser(b.cap * Unit(b), b.tokens + (clock - b.last) * Rate(b))]

\* _refill: what the bucket holds by now, as the size it was made with.
Refilled(b) ==
  [b EXCEPT !.tokens = Lesser(b.cap * Unit(b), b.tokens + (clock - b.last) * Rate(b)),
            !.last = clock]

\* The bucket of a client, or a full one of the size of the limit.
BucketOf(k, limit) == IF buckets[k].cap > 0 THEN Refilled(buckets[k]) ELSE Full(limit)

\* compute_retry_after: the time to the next token, in the whole seconds that
\* build_429_payload and the header give.
RetryAfter(k) ==
  LET limit == ReducedLimit(k)
      b == BucketOf(k, limit) IN
  IF limit.cap = 0 \/ limit.per = 0 THEN limit.per
  ELSE IF b.tokens >= Unit(b) \/ Rate(b) = 0 THEN 0
  ELSE (Unit(b) - b.tokens) \div Rate(b)

-----------------------------------------------------------------------------
(* check_rate *)

\* Mutant of OneMore: the count goes on beyond the maximum.
OneMoreAlways(n) == n + 1

\* Strikes are counted up to the maximum.
OneMore(n) == Lesser(MaxStrikes, n + 1)

\* What the observer notes of a grant from bucket b, and of a refusal.
WithGrant(k, b) ==
  [seen[k] EXCEPT !.grants = IF k \in Watched /\ b.last >= seen[k].since THEN @ + 1 ELSE @,
                  !.granted = clock, !.row = 0]

WithRefusal(k) ==
  LET late == clock - seen[k].refused > Decay IN
  [seen[k] EXCEPT !.chain = IF late THEN 1 ELSE OneMore(@),
                  !.row = IF late THEN 1 ELSE OneMore(@), !.refused = clock]

Goto(w, phase) == request' = [request EXCEPT ![w] = [@ EXCEPT !.phase = phase]]

\* The request ends with a verdict.
End(w, verdict) ==
  request' = [request EXCEPT ![w] = [Idle EXCEPT !.verdict = verdict]]

\* It is refused: the answer is to say when to come back.
Deny(w, k, verdict) ==
  request' = [request EXCEPT ![w] =
                [Idle EXCEPT !.phase = "reply", !.verdict = verdict, !.key = k]]

Begin(w, k, phase) ==
  request' = [request EXCEPT ![w] =
                [Idle EXCEPT !.phase = phase, !.key = k, !.limit = ReducedLimit(k)]]

\* Mutant of Ask: bans are recorded and not asked for.
AskUnbanned(w, k) ==
  /\ request[w].phase = "idle" /\ Begin(w, k, "fetch")
  /\ UNCHANGED <<clock, config, buckets, penalties, bans, seen>>

\* A request resolves its limit and looks for a ban: one that holds refuses
\* it, one that is over is to be deleted.
Ask(w, k) ==
  /\ request[w].phase = "idle"
  /\ \/ Penalised /\ bans[k] > clock /\ Deny(w, k, "banned")
     \/ Penalised /\ bans[k] \in 1..clock /\ Begin(w, k, "lift")
     \/ (Penalised => bans[k] = 0) /\ Begin(w, k, "fetch")
  /\ UNCHANGED <<clock, config, buckets, penalties, bans, seen>>

\* Who finds the ban deleted by another fails with a KeyError.
Lift(w) ==
  LET k == request[w].key IN
  /\ request[w].phase = "lift"
  /\ IF bans[k] > 0 THEN Goto(w, "fetch") ELSE End(w, "failed")
  /\ bans' = [bans EXCEPT ![k] = 0]
  /\ UNCHANGED <<clock, config, buckets, penalties, seen>>

\* A capacity of 0 refuses at once; else the bucket is read and refilled.
Fetch(w) ==
  LET k == request[w].key
      b == BucketOf(k, request[w].limit) IN
  /\ request[w].phase = "fetch"
  /\ \/ request[w].limit.cap = 0 /\ Deny(w, k, "blocked")
     \/ /\ request[w].limit.cap > 0
        /\ request' = [request EXCEPT ![w] =
             [@ EXCEPT !.phase = IF b.tokens >= Unit(b) THEN "grant" ELSE "refuse",
                       !.bucket = b]]
  /\ UNCHANGED <<clock, config, buckets, penalties, bans, seen>>

\* Mutant of Grant: what is granted leaves the strikes.
GrantUncleared(w) ==
  /\ request[w].phase = "grant" /\ Goto(w, "store")
  /\ UNCHANGED <<clock, config, buckets, penalties, bans, seen>>

\* A token is there: clear_penalty looks for strikes.
Grant(w) ==
  /\ request[w].phase = "grant"
  /\ Goto(w, IF Penalised /\ penalties[request[w].key].strikes > 0 THEN "clear" ELSE "store")
  /\ UNCHANGED <<clock, config, buckets, penalties, bans, seen>>

\* It deletes them, or fails if another has.
Clear(w) ==
  LET k == request[w].key IN
  /\ request[w].phase = "clear"
  /\ IF penalties[k].strikes > 0 THEN Goto(w, "store") ELSE End(w, "failed")
  /\ penalties' = [penalties EXCEPT ![k] = NoPenalty]
  /\ UNCHANGED <<clock, config, buckets, bans, seen>>

\* The copy, a token less, replaces the bucket.
Store(w) ==
  LET k == request[w].key
      b == request[w].bucket IN
  /\ request[w].phase = "store"
  /\ buckets' = [buckets EXCEPT ![k] = [b EXCEPT !.tokens = @ - Unit(b)]]
  /\ End(w, "granted")
  /\ seen' = [seen EXCEPT ![k] = WithGrant(k, b)]
  /\ UNCHANGED <<clock, config, penalties, bans>>

\* No token: the copy replaces the bucket as well.
Refuse(w) ==
  LET k == request[w].key IN
  /\ request[w].phase = "refuse"
  /\ buckets' = [buckets EXCEPT ![k] = request[w].bucket]
  /\ IF Penalised THEN Goto(w, "count") ELSE Deny(w, k, "limited")
  /\ UNCHANGED <<clock, config, penalties, bans, seen>>

\* record_penalty_hit reads the strikes and adds one.
Count(w) ==
  LET k == request[w].key IN
  /\ request[w].phase = "count"
  /\ request' = [request EXCEPT ![w] =
       [@ EXCEPT !.phase = "strike", !.strikes = OneMore(Strikes(k)), !.at = clock]]
  /\ seen' = [seen EXCEPT ![k] = WithRefusal(k)]
  /\ UNCHANGED <<clock, config, buckets, penalties, bans>>

\* It stores them with the time it has read, and bans the client at the maximum.
Strike(w) ==
  LET r == request[w] IN
  /\ r.phase = "strike"
  /\ penalties' = [penalties EXCEPT ![r.key] = [strikes |-> r.strikes, ts |-> r.at]]
  /\ IF r.strikes >= MaxStrikes
     THEN /\ bans' = [bans EXCEPT ![r.key] = r.at + BanSeconds]
          /\ seen' = [seen EXCEPT ![r.key] = [@ EXCEPT !.until = r.at + BanSeconds]]
     ELSE UNCHANGED <<bans, seen>>
  /\ Deny(w, r.key, "limited")
  /\ UNCHANGED <<clock, config, buckets>>

\* The handler asks compute_retry_after and answers 429.
Reply(w) ==
  /\ request[w].phase = "reply"
  /\ request' = [request EXCEPT ![w] =
       [Idle EXCEPT !.verdict = request[w].verdict, !.wait = RetryAfter(request[w].key)]]
  /\ UNCHANGED <<clock, config, buckets, penalties, bans, seen>>

-----------------------------------------------------------------------------
(* Developers, administrators and time *)

\* set_limit and delete_limit.
Override(level, limit) ==
  /\ config[level] # limit
  /\ config' = [config EXCEPT ![level] = limit]
  /\ UNCHANGED <<clock, buckets, penalties, bans, request, seen>>

\* clear_ban.
ClearBan(k) ==
  /\ bans[k] > 0
  /\ bans' = [bans EXCEPT ![k] = 0]
  /\ seen' = [seen EXCEPT ![k] = [@ EXCEPT !.until = 0]]
  /\ UNCHANGED <<clock, config, buckets, penalties, request>>

\* bucket_snapshot forgets the strikes that have lapsed and the bans that are over.
Snapshot ==
  /\ penalties' = [k \in Keys |-> IF Lapsed(k) THEN NoPenalty ELSE penalties[k]]
  /\ bans' = [k \in Keys |-> IF bans[k] <= clock THEN 0 ELSE bans[k]]
  /\ UNCHANGED <<clock, config, buckets, request, seen>>

Tick ==
  /\ clock < MaxClock
  /\ clock' = clock + 1
  /\ UNCHANGED <<config, buckets, penalties, bans, request, seen>>

\* An observer begins to count what a client is granted.
Observe(k) ==
  /\ seen[k].grants > 0
  /\ seen' = [seen EXCEPT ![k] = [@ EXCEPT !.since = clock, !.grants = 0]]
  /\ UNCHANGED <<clock, config, buckets, penalties, bans, request>>

Step(w) == Lift(w) \/ Fetch(w) \/ Grant(w) \/ Clear(w) \/ Store(w) \/ Refuse(w) \/ Count(w)
           \/ Strike(w) \/ Reply(w)

Next ==
  \/ \E w \in Workers : Step(w) \/ \E k \in Keys : Ask(w, k)
  \/ \E level \in {"scope", "any"}, limit \in Overrides \cup {NoLimit} : Override(level, limit)
  \/ \E k \in Keys : ClearBan(k) \/ Observe(k)
  \/ Snapshot \/ Tick

Spec == Init /\ [][Next]_vars

-----------------------------------------------------------------------------
(* What is required *)

\* No client is granted more than its bucket and what time has brought, from
\* whatever moment one counts, as long as its requests are served one by one.
Budget ==
  \A k \in Keys :
    LET b == buckets[k]
        s == seen[k] IN
    s.grants * Unit(b) <= b.cap * Unit(b) + Rate(b) * (clock - s.since)

\* A client is banned only after MaxStrikes refusals in a row, with nothing
\* granted between them and none of them more than Decay after the last.
BanEarned ==
  [][\A k \in Keys : bans'[k] > bans[k] => seen[k].row = MaxStrikes]_vars

\* Nothing is granted to a client whose ban is neither over nor cleared.
BanHolds ==
  [][\A w \in Workers : Store(w) => seen[request[w].key].until <= clock]_vars

\* Also when its requests overlap, the strike that bans a client is the last of
\* MaxStrikes refusals of which none came more than Decay after the one before.
BanRefused ==
  [][\A w \in Workers : Count(w) /\ request'[w].strikes = MaxStrikes =>
       seen'[request[w].key].chain = MaxStrikes]_vars

\* A client that lets the time of one token pass after its last grant is not
\* refused for want of tokens, whatever it did before and however its requests
\* overlap (unless its window has no length).
ServedAgain ==
  [][\A w \in Workers :
       LET b == request[w].bucket
           last == seen[request[w].key].granted IN
       Refuse(w) /\ b.per > 0 => last >= 0 /\ (b.last - last) * Rate(b) < Unit(b)]_vars
=============================================================================
