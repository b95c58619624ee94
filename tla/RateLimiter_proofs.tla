------------------------- MODULE RateLimiter_proofs -------------------------
(***************************************************************************)
(* What TLAPS proves of RateLimiter, for any clients, requests, limits and *)
(* penalties, and any value of the bounds.                                 *)
(***************************************************************************)
EXTENDS RateLimiter, TLAPS

(* The inductive invariant *)

\* A bucket was refilled in the past and is not beyond its capacity.
Sound(b) == b.last <= clock /\ b.tokens <= b.cap * Unit(b)

\* A request under way serves a client; the copy it has read is that of a real
\* bucket, and holds a token just if it is to be granted.
FlightOK(r) ==
  /\ r.phase # "idle" => r.key \in Keys
  /\ Sound(r.bucket)
  /\ r.phase \in {"grant", "clear", "store", "refuse"} => r.bucket.cap > 0
  /\ r.phase \in {"grant", "clear", "store"} => Unit(r.bucket) <= r.bucket.tokens
  /\ r.phase = "refuse" => r.bucket.tokens < Unit(r.bucket)

IInv ==
  /\ TypeOK
  /\ \A k \in Keys : Sound(buckets[k])
  /\ \A w \in Workers : FlightOK(request[w])

-----------------------------------------------------------------------------
(* Lemmas about the operators *)

LEMMA Products ==
  ASSUME NEW m \in Nat, NEW n \in Nat
  PROVE  m * n \in Nat
OBVIOUS

LEMMA UnitAndRate ==
  ASSUME NEW b \in Bucket
  PROVE  Unit(b) \in Nat /\ Unit(b) >= 1 /\ Rate(b) \in Nat /\ Rate(b) <= b.cap
BY DEF Bucket, Unit, Rate

\* What a refill makes of a bucket, however it is written down.
LEMMA RefillFacts ==
  ASSUME TypeOK, NEW b \in Bucket, Sound(b)
  PROVE  /\ Refilled(b) \in Bucket /\ Refilled(b).last = clock
         /\ Refilled(b).cap = b.cap /\ Refilled(b).per = b.per
         /\ Unit(Refilled(b)) = Unit(b) /\ Rate(Refilled(b)) = Rate(b)
         /\ Refilled(b).tokens = Lesser(b.cap * Unit(b), b.tokens + (clock - b.last) * Rate(b))
         /\ Sound(Refilled(b))
<1> DEFINE more == (clock - b.last) * Rate(b)
           most == b.cap * Unit(b)
<1>1. clock \in Nat /\ clock - b.last \in Nat /\ b.cap \in Nat /\ b.tokens \in Nat
  BY DEF TypeOK, Sound, Bucket
<1>2. more \in Nat /\ most \in Nat
  BY <1>1, UnitAndRate, Products
<1>3. Refilled(b) = [b EXCEPT !.tokens = Lesser(most, b.tokens + more), !.last = clock]
  BY DEF Refilled
<1> HIDE DEF more, most
<1>4. Lesser(most, b.tokens + more) \in Nat /\ Lesser(most, b.tokens + more) <= most
  BY <1>1, <1>2 DEF Lesser
<1>5. /\ Refilled(b) \in Bucket /\ Refilled(b).last = clock
      /\ Refilled(b).cap = b.cap /\ Refilled(b).per = b.per
      /\ Refilled(b).tokens = Lesser(most, b.tokens + more)
  BY <1>1, <1>3, <1>4 DEF Bucket
<1>6. Unit(Refilled(b)) = Unit(b) /\ Rate(Refilled(b)) = Rate(b)
  BY <1>5 DEF Unit, Rate
<1> QED BY <1>1, <1>4, <1>5, <1>6 DEF Sound, more, most

\* A full bucket is of its limit's size.
LEMMA FullFacts ==
  ASSUME TypeOK, NEW limit \in [cap : Nat, per : Nat]
  PROVE  /\ Full(limit) \in Bucket /\ Full(limit).last = clock
         /\ Full(limit).cap = limit.cap /\ Full(limit).per = limit.per
         /\ Full(limit).tokens = Full(limit).cap * Unit(Full(limit))
         /\ Sound(Full(limit))
<1>1. Unit(limit) \in Nat /\ limit.cap \in Nat /\ limit.per \in Nat
  BY DEF Unit
<1>2. limit.cap * Unit(limit) \in Nat
  BY <1>1, Products
<1>3. /\ Full(limit) \in Bucket /\ Full(limit).last = clock
      /\ Full(limit).cap = limit.cap /\ Full(limit).per = limit.per
      /\ Full(limit).tokens = limit.cap * Unit(limit)
  BY <1>1, <1>2 DEF Full, Bucket, TypeOK
<1>4. Unit(Full(limit)) = Unit(limit)
  BY <1>3 DEF Unit
<1> QED BY <1>1, <1>2, <1>3, <1>4 DEF Sound, TypeOK

LEMMA BucketOfFacts ==
  ASSUME IInv, NEW k \in Keys, NEW limit \in [cap : Nat, per : Nat]
  PROVE  /\ BucketOf(k, limit) \in Bucket /\ Sound(BucketOf(k, limit))
         /\ BucketOf(k, limit).last = clock
         /\ limit.cap > 0 => BucketOf(k, limit).cap > 0
<1>1. buckets[k] \in Bucket /\ Sound(buckets[k])
  BY DEF IInv, TypeOK
<1>2. CASE buckets[k].cap > 0
  BY <1>1, <1>2, RefillFacts DEF BucketOf, IInv
<1>3. CASE ~(buckets[k].cap > 0)
  BY <1>3, FullFacts DEF BucketOf, IInv
<1> QED BY <1>2, <1>3

\* The limit in force is one of those that were set.
LEMMA LimitType ==
  ASSUME TypeOK
  PROVE  Limit \in [cap : Nat, per : Nat]
<1>1. Default \in Limits /\ Limits \subseteq [cap : Nat, per : Nat]
  BY RateLimiterAssumption DEF Limits
<1>2. config["scope"] \in Limits \cup {NoLimit} /\ config["any"] \in Limits \cup {NoLimit}
  BY DEF TypeOK
<1> QED BY <1>1, <1>2 DEF Limit

LEMMA StrikesType ==
  ASSUME TypeOK, NEW k \in Keys
  PROVE  Strikes(k) \in 0..MaxStrikes
BY RateLimiterAssumption DEF TypeOK, Strikes

LEMMA ReducedType ==
  ASSUME TypeOK, NEW k \in Keys
  PROVE  ReducedLimit(k) \in [cap : Nat, per : Nat]
<1> DEFINE part == Limit.cap \div (1 + Strikes(k))
<1>1. Limit.cap \in Nat /\ Limit.per \in Nat /\ Limit \in [cap : Nat, per : Nat]
  BY LimitType
<1>2. 1 + Strikes(k) \in Nat \ {0}
  BY StrikesType, RateLimiterAssumption
<1>3. part \in Int
  BY <1>1, <1>2
<1> HIDE DEF part
<1>4. Reduced(k, Limit.cap) \in Nat
  BY <1>1, <1>3 DEF Reduced, part
<1> QED BY <1>1, <1>4 DEF ReducedLimit

LEMMA RetryAfterType ==
  ASSUME IInv, NEW k \in Keys
  PROVE  RetryAfter(k) \in Nat
<1> DEFINE limit == ReducedLimit(k)
           b == BucketOf(k, limit)
           left == Unit(b) - b.tokens
<1>1. limit \in [cap : Nat, per : Nat]
  BY ReducedType DEF IInv
<1>2. b \in Bucket
  BY <1>1, BucketOfFacts
<1>3. Unit(b) \in Nat /\ Rate(b) \in Nat /\ b.tokens \in Nat /\ limit.per \in Nat
  BY <1>1, <1>2, UnitAndRate DEF Bucket
<1>4. RetryAfter(k) = IF limit.cap = 0 \/ limit.per = 0 THEN limit.per
                      ELSE IF b.tokens >= Unit(b) \/ Rate(b) = 0 THEN 0
                      ELSE left \div Rate(b)
  BY DEF RetryAfter
<1>5. ASSUME ~(b.tokens >= Unit(b) \/ Rate(b) = 0)
      PROVE  left \div Rate(b) \in Nat
  <2> HIDE DEF b, limit
  <2>1. left \in Nat /\ Rate(b) \in Nat \ {0}
    BY <1>3, <1>5
  <2> HIDE DEF left
  <2> QED BY <2>1
<1> HIDE DEF limit, b, left
<1> QED BY <1>3, <1>4, <1>5

\* A request that has read no bucket.
LEMMA EmptyFlight ==
  ASSUME TypeOK, NEW r \in Request, r.bucket = NoBucket,
         r.phase \in {"idle", "lift", "fetch", "reply"}, r.phase # "idle" => r.key \in Keys
  PROVE  FlightOK(r)
BY DEF FlightOK, Sound, NoBucket, Unit, TypeOK

\* A step of one request that leaves the clock alone.
LEMMA FlightStep ==
  ASSUME IInv, clock' = clock, NEW w \in Workers, NEW r \in Request, FlightOK(r),
         request' = [request EXCEPT ![w] = r]
  PROVE  /\ request' \in [Workers -> Request]
         /\ \A v \in Workers : FlightOK(request[v])'
<1>1. request \in [Workers -> Request] /\ \A v \in Workers : FlightOK(request[v])
  BY DEF IInv, TypeOK
<1>2. \A v \in Workers : request'[v] = IF v = w THEN r ELSE request[v]
  BY <1>1
<1>3. \A v \in Workers : FlightOK(request'[v])
  BY <1>1, <1>2
<1>4. \A v \in Workers : FlightOK(request[v])' <=> FlightOK(request'[v])
  BY DEF FlightOK, Sound, Unit
<1> QED BY <1>1, <1>3, <1>4

LEMMA IdleType ==
  Idle \in Request /\ Idle.bucket = NoBucket
BY RateLimiterAssumption DEF Idle, Request, NoBucket, Bucket

\* What a request may become without reading a bucket.
LEMMA EndType ==
  ASSUME IInv, clock' = clock, NEW w \in Workers,
         NEW verdict \in {"none", "granted", "limited", "banned", "blocked", "failed"},
         End(w, verdict)
  PROVE  request' \in [Workers -> Request] /\ \A v \in Workers : FlightOK(request[v])'
<1> DEFINE r == [Idle EXCEPT !.verdict = verdict]
<1>1. r \in Request /\ r.bucket = NoBucket /\ r.phase = "idle"
  BY IdleType DEF Request, Idle
<1>2. FlightOK(r)
  BY <1>1, EmptyFlight DEF IInv
<1> QED BY <1>1, <1>2, FlightStep DEF End

LEMMA DenyType ==
  ASSUME IInv, clock' = clock, NEW w \in Workers, NEW k \in Keys,
         NEW verdict \in {"none", "granted", "limited", "banned", "blocked", "failed"},
         Deny(w, k, verdict)
  PROVE  request' \in [Workers -> Request] /\ \A v \in Workers : FlightOK(request[v])'
<1> DEFINE r == [Idle EXCEPT !.phase = "reply", !.verdict = verdict, !.key = k]
<1>1. r \in Request /\ r.bucket = NoBucket /\ r.phase = "reply" /\ r.key = k
  BY IdleType DEF Request
<1>2. FlightOK(r)
  BY <1>1, EmptyFlight DEF IInv
<1> QED BY <1>1, <1>2, FlightStep DEF Deny

LEMMA BeginType ==
  ASSUME IInv, clock' = clock, NEW w \in Workers, NEW k \in Keys,
         NEW phase \in {"lift", "fetch"}, Begin(w, k, phase)
  PROVE  request' \in [Workers -> Request] /\ \A v \in Workers : FlightOK(request[v])'
<1> DEFINE r == [Idle EXCEPT !.phase = phase, !.key = k, !.limit = ReducedLimit(k)]
<1>1. ReducedLimit(k) \in [cap : Nat, per : Nat]
  BY ReducedType DEF IInv
<1>2. r \in Request /\ r.bucket = NoBucket /\ r.phase = phase /\ r.key = k
  BY <1>1, IdleType DEF Request
<1>3. FlightOK(r)
  BY <1>2, EmptyFlight DEF IInv
<1> QED BY <1>2, <1>3, FlightStep DEF Begin

\* A request that moves from one phase to another with what it holds.
LEMMA GotoType ==
  ASSUME IInv, clock' = clock, NEW w \in Workers, NEW phase, Goto(w, phase),
         \/ request[w].phase = "lift" /\ phase = "fetch"
         \/ request[w].phase \in {"grant", "clear"} /\ phase \in {"clear", "store"}
         \/ request[w].phase = "refuse" /\ phase = "count"
  PROVE  request' \in [Workers -> Request] /\ \A v \in Workers : FlightOK(request[v])'
<1> DEFINE r == [request[w] EXCEPT !.phase = phase]
<1>1. request[w] \in Request /\ FlightOK(request[w])
  BY DEF IInv, TypeOK
<1>2. r \in Request /\ r.phase = phase /\ r.key = request[w].key /\ r.bucket = request[w].bucket
  BY <1>1 DEF Request
<1>3. FlightOK(r)
  BY <1>1, <1>2 DEF FlightOK
<1> QED BY <1>2, <1>3, FlightStep DEF Goto

-----------------------------------------------------------------------------
(* The invariant is kept *)

LEMMA InvInit == Init => IInv
<1> SUFFICES ASSUME Init PROVE IInv
  OBVIOUS
<1>1. Idle \in Request /\ Idle.bucket = NoBucket /\ Idle.phase = "idle"
  BY IdleType DEF Idle
<1>2. TypeOK
  BY <1>1, RateLimiterAssumption DEF Init, TypeOK, Bucket, NoBucket, NoPenalty, History
<1>3. FlightOK(Idle)
  BY <1>1, <1>2, EmptyFlight
<1>4. Sound(NoBucket)
  BY <1>2 DEF Sound, NoBucket, Unit, TypeOK
<1>5. \A k \in Keys : Sound(buckets[k])
  BY <1>4 DEF Init
<1> QED BY <1>5, <1>2, <1>3, <1>4 DEF IInv, Init

\* Buckets that no step changes stay sound.
LEMMA BucketsKept ==
  ASSUME IInv, UNCHANGED <<clock, buckets>>
  PROVE  buckets' \in [Keys -> Bucket] /\ \A k \in Keys : Sound(buckets[k])'
BY DEF IInv, TypeOK, Sound, Unit

\* A sound bucket takes the place of another.
LEMMA BucketStep ==
  ASSUME IInv, clock' = clock, NEW k \in Keys, NEW b \in Bucket, Sound(b),
         buckets' = [buckets EXCEPT ![k] = b]
  PROVE  buckets' \in [Keys -> Bucket] /\ \A j \in Keys : Sound(buckets[j])'
<1>1. buckets \in [Keys -> Bucket] /\ \A j \in Keys : Sound(buckets[j])
  BY DEF IInv, TypeOK
<1>2. \A j \in Keys : buckets'[j] = IF j = k THEN b ELSE buckets[j]
  BY <1>1
<1>3. \A j \in Keys : Sound(buckets'[j])
  BY <1>1, <1>2
<1>4. \A j \in Keys : Sound(buckets[j])' <=> Sound(buckets'[j])
  BY DEF Sound, Unit
<1> QED BY <1>1, <1>3, <1>4

LEMMA AskStep ==
  ASSUME IInv, NEW w \in Workers, NEW k \in Keys, Ask(w, k)
  PROVE  IInv'
<1>1. UNCHANGED <<clock, config, buckets, penalties, bans, seen>>
  BY DEF Ask
<1>2. request' \in [Workers -> Request] /\ \A v \in Workers : FlightOK(request[v])'
  BY <1>1, DenyType, BeginType DEF Ask
<1> QED BY <1>1, <1>2, BucketsKept DEF IInv, TypeOK

LEMMA LiftStep ==
  ASSUME IInv, NEW w \in Workers, Lift(w)
  PROVE  IInv'
<1>1. UNCHANGED <<clock, config, buckets, penalties, seen>> /\ request[w].phase = "lift"
  BY DEF Lift
<1>2. request' \in [Workers -> Request] /\ \A v \in Workers : FlightOK(request[v])'
  BY <1>1, GotoType, EndType DEF Lift
<1>3. bans' \in [Keys -> Nat]
  BY DEF Lift, IInv, TypeOK
<1> QED BY <1>1, <1>2, <1>3, BucketsKept DEF IInv, TypeOK

LEMMA FetchStep ==
  ASSUME IInv, NEW w \in Workers, Fetch(w)
  PROVE  IInv'
<1> DEFINE q == request[w]
           b == BucketOf(q.key, q.limit)
           r == [q EXCEPT !.phase = IF b.tokens >= Unit(b) THEN "grant" ELSE "refuse",
                          !.bucket = b]
<1>1. UNCHANGED <<clock, config, buckets, penalties, bans, seen>> /\ q.phase = "fetch"
  BY DEF Fetch
<1>2. q \in Request /\ q.key \in Keys /\ q.limit \in [cap : Nat, per : Nat]
  BY <1>1 DEF IInv, TypeOK, FlightOK, Request
<1>3. CASE q.limit.cap = 0 /\ Deny(w, q.key, "blocked")
  BY <1>1, <1>2, <1>3, DenyType, BucketsKept DEF IInv, TypeOK
<1>4. CASE q.limit.cap > 0 /\ request' = [request EXCEPT ![w] = r]
  <2>1. b \in Bucket /\ Sound(b) /\ b.cap > 0
    BY <1>2, <1>4, BucketOfFacts
  <2>2. Unit(b) \in Nat /\ b.tokens \in Nat
    BY <2>1, UnitAndRate DEF Bucket
  <2> DEFINE phase == IF b.tokens >= Unit(b) THEN "grant" ELSE "refuse"
  <2> HIDE DEF b
  <2>3. phase \in {"grant", "refuse"}
    OBVIOUS
  <2>4. r.phase = phase /\ r.bucket = b /\ r.key = q.key /\ r \in Request
    <3> HIDE DEF q, phase
    <3> QED BY <1>2, <2>1, <2>3 DEF Request, phase
  <2>5. FlightOK(r)
    BY <1>2, <2>1, <2>2, <2>4 DEF FlightOK
  <2> HIDE DEF r
  <2>6. request' \in [Workers -> Request] /\ \A v \in Workers : FlightOK(request[v])'
    BY <1>1, <1>4, <2>4, <2>5, FlightStep
  <2> QED BY <1>1, <2>6, BucketsKept DEF IInv, TypeOK
<1> QED BY <1>3, <1>4 DEF Fetch

LEMMA GrantStep ==
  ASSUME IInv, NEW w \in Workers, Grant(w)
  PROVE  IInv'
<1>1. UNCHANGED <<clock, config, buckets, penalties, bans, seen>> /\ request[w].phase = "grant"
  BY DEF Grant
<1>2. request' \in [Workers -> Request] /\ \A v \in Workers : FlightOK(request[v])'
  BY <1>1, GotoType DEF Grant
<1> QED BY <1>1, <1>2, BucketsKept DEF IInv, TypeOK

LEMMA NoPenaltyType == NoPenalty \in [strikes : 0..MaxStrikes, ts : Nat]
BY RateLimiterAssumption DEF NoPenalty

LEMMA ClearStep ==
  ASSUME IInv, NEW w \in Workers, Clear(w)
  PROVE  IInv'
<1>1. UNCHANGED <<clock, config, buckets, bans, seen>> /\ request[w].phase = "clear"
  BY DEF Clear
<1>2. request' \in [Workers -> Request] /\ \A v \in Workers : FlightOK(request[v])'
  BY <1>1, GotoType, EndType DEF Clear
<1>3. penalties' \in [Keys -> [strikes : 0..MaxStrikes, ts : Nat]]
  BY NoPenaltyType DEF Clear, IInv, TypeOK
<1> QED BY <1>1, <1>2, <1>3, BucketsKept DEF IInv, TypeOK

\* What the holder of a token puts back.
LEMMA Charged ==
  ASSUME TypeOK, NEW b \in Bucket, Sound(b), Unit(b) <= b.tokens
  PROVE  LET c == [b EXCEPT !.tokens = @ - Unit(b)] IN
         /\ c \in Bucket /\ Sound(c) /\ c.cap = b.cap /\ c.per = b.per /\ c.last = b.last
         /\ c.tokens = b.tokens - Unit(b) /\ Unit(c) = Unit(b) /\ Rate(c) = Rate(b)
<1> DEFINE c == [b EXCEPT !.tokens = @ - Unit(b)]
<1>1. Unit(b) \in Nat /\ b.tokens \in Nat /\ b.cap \in Nat /\ b.last \in Nat
  BY UnitAndRate DEF Bucket
<1>2. b.tokens - Unit(b) \in Nat
  BY <1>1
<1>3. /\ c \in Bucket /\ c.cap = b.cap /\ c.per = b.per /\ c.last = b.last
      /\ c.tokens = b.tokens - Unit(b)
  BY <1>2 DEF Bucket
<1>4. Unit(c) = Unit(b) /\ Rate(c) = Rate(b)
  BY <1>3 DEF Unit, Rate
<1>5. b.cap * Unit(b) \in Nat
  BY <1>1, Products
<1>6. Sound(c)
  BY <1>1, <1>3, <1>4, <1>5 DEF Sound
<1> QED BY <1>3, <1>4, <1>6

\* What the observer notes.
LEMMA GrantNoted ==
  ASSUME TypeOK, NEW k \in Keys, NEW b
  PROVE  /\ WithGrant(k, b) \in History
         /\ WithGrant(k, b).since = seen[k].since /\ WithGrant(k, b).granted = clock
         /\ WithGrant(k, b).grants = IF k \in Watched /\ b.last >= seen[k].since
                                     THEN seen[k].grants + 1 ELSE seen[k].grants
<1> DEFINE n == IF k \in Watched /\ b.last >= seen[k].since
                THEN seen[k].grants + 1 ELSE seen[k].grants
<1>1. seen[k] \in History /\ clock \in Nat /\ 0 \in 0..MaxStrikes
  BY RateLimiterAssumption DEF TypeOK
<1>2. n \in Nat
  BY <1>1 DEF History
<1>3. WithGrant(k, b) = [seen[k] EXCEPT !.grants = n, !.granted = clock, !.row = 0]
  BY DEF WithGrant
<1> HIDE DEF n
<1>4. /\ WithGrant(k, b) \in History /\ WithGrant(k, b).since = seen[k].since
      /\ WithGrant(k, b).granted = clock /\ WithGrant(k, b).grants = n
  BY <1>1, <1>2, <1>3 DEF History
<1> QED BY <1>4 DEF n

LEMMA OneMoreType ==
  ASSUME NEW n \in 0..MaxStrikes
  PROVE  OneMore(n) \in 0..MaxStrikes /\ OneMore(n) >= 1
BY RateLimiterAssumption DEF OneMore, Lesser

LEMMA RefusalNoted ==
  ASSUME TypeOK, NEW k \in Keys
  PROVE  /\ WithRefusal(k) \in History
         /\ WithRefusal(k).since = seen[k].since /\ WithRefusal(k).granted = seen[k].granted
         /\ WithRefusal(k).grants = seen[k].grants /\ WithRefusal(k).refused = clock
         /\ WithRefusal(k).chain = IF clock - seen[k].refused > Decay THEN 1
                                   ELSE OneMore(seen[k].chain)
<1> DEFINE late == clock - seen[k].refused > Decay
           c == IF late THEN 1 ELSE OneMore(seen[k].chain)
           d == IF late THEN 1 ELSE OneMore(seen[k].row)
<1>1. seen[k] \in History /\ clock \in Nat /\ 1 \in 0..MaxStrikes
  BY RateLimiterAssumption DEF TypeOK
<1>2. c \in 0..MaxStrikes /\ d \in 0..MaxStrikes
  BY <1>1, OneMoreType DEF History
<1>3. WithRefusal(k) = [seen[k] EXCEPT !.chain = c, !.row = d, !.refused = clock]
  BY DEF WithRefusal
<1> HIDE DEF c, d
<1>4. /\ WithRefusal(k) \in History /\ WithRefusal(k).since = seen[k].since
      /\ WithRefusal(k).granted = seen[k].granted /\ WithRefusal(k).grants = seen[k].grants
      /\ WithRefusal(k).refused = clock /\ WithRefusal(k).chain = c
  BY <1>1, <1>2, <1>3 DEF History
<1> QED BY <1>4 DEF c

LEMMA StoreStep ==
  ASSUME IInv, NEW w \in Workers, Store(w)
  PROVE  IInv'
<1> DEFINE q == request[w]
           k == q.key
           c == [q.bucket EXCEPT !.tokens = @ - Unit(q.bucket)]
<1>1. UNCHANGED <<clock, config, penalties, bans>> /\ q.phase = "store"
  BY DEF Store
<1>2. k \in Keys /\ q.bucket \in Bucket /\ Sound(q.bucket) /\ Unit(q.bucket) <= q.bucket.tokens
  BY <1>1 DEF IInv, TypeOK, FlightOK, Request
<1>3. request' \in [Workers -> Request] /\ \A v \in Workers : FlightOK(request[v])'
  BY <1>1, EndType DEF Store
<1>4. c \in Bucket /\ Sound(c)
  BY <1>2, Charged DEF IInv
<1>5. buckets' = [buckets EXCEPT ![k] = c]
  BY DEF Store
<1> HIDE DEF c
<1>6. buckets' \in [Keys -> Bucket] /\ \A j \in Keys : Sound(buckets[j])'
  BY <1>1, <1>2, <1>4, <1>5, BucketStep
<1>7. seen' \in [Keys -> History]
  <2>1. WithGrant(k, q.bucket) \in History
    BY <1>2, GrantNoted DEF IInv
  <2> QED BY <2>1 DEF Store, IInv, TypeOK
<1> QED BY <1>1, <1>3, <1>6, <1>7 DEF IInv, TypeOK

LEMMA RefuseStep ==
  ASSUME IInv, NEW w \in Workers, Refuse(w)
  PROVE  IInv'
<1>1. UNCHANGED <<clock, config, penalties, bans, seen>> /\ request[w].phase = "refuse"
  BY DEF Refuse
<1>2. request[w].key \in Keys /\ request[w].bucket \in Bucket /\ Sound(request[w].bucket)
  BY <1>1 DEF IInv, TypeOK, FlightOK, Request
<1>3. request' \in [Workers -> Request] /\ \A v \in Workers : FlightOK(request[v])'
  BY <1>1, <1>2, GotoType, DenyType DEF Refuse
<1>4. buckets' \in [Keys -> Bucket] /\ \A j \in Keys : Sound(buckets[j])'
  BY <1>1, <1>2, BucketStep DEF Refuse
<1> QED BY <1>1, <1>3, <1>4 DEF IInv, TypeOK

LEMMA CountStep ==
  ASSUME IInv, NEW w \in Workers, Count(w)
  PROVE  IInv'
<1> DEFINE q == request[w]
           k == q.key
           n == OneMore(Strikes(k))
           r == [q EXCEPT !.phase = "strike", !.strikes = n, !.at = clock]
<1>1. UNCHANGED <<clock, config, buckets, penalties, bans>> /\ q.phase = "count"
  BY DEF Count
<1>2. q \in Request /\ FlightOK(q) /\ k \in Keys /\ clock \in Nat /\ seen[k] \in History
  BY <1>1 DEF IInv, TypeOK, FlightOK
<1>4. n \in 0..MaxStrikes
  BY <1>2, OneMoreType, StrikesType DEF IInv
<1>5. request' = [request EXCEPT ![w] = r]
  BY DEF Count
<1>6. r \in Request /\ r.phase = "strike" /\ r.bucket = q.bucket /\ r.key = k
  <2> HIDE DEF q, n
  <2> QED BY <1>2, <1>4 DEF Request
<1>7. FlightOK(r)
  BY <1>2, <1>6 DEF FlightOK
<1>8. request' \in [Workers -> Request] /\ \A v \in Workers : FlightOK(request[v])'
  <2> HIDE DEF r
  <2> QED BY <1>1, <1>5, <1>6, <1>7, FlightStep
<1>9. seen' \in [Keys -> History]
  <2>1. WithRefusal(k) \in History
    BY <1>2, RefusalNoted DEF IInv
  <2> QED BY <2>1 DEF Count, IInv, TypeOK
<1> QED BY <1>1, <1>8, <1>9, BucketsKept DEF IInv, TypeOK

LEMMA StrikeStep ==
  ASSUME IInv, NEW w \in Workers, Strike(w)
  PROVE  IInv'
<1> DEFINE r == request[w]
<1>1. UNCHANGED <<clock, config, buckets>> /\ r.phase = "strike"
  BY DEF Strike
<1>2. r.key \in Keys /\ r.strikes \in 0..MaxStrikes /\ r.at + BanSeconds \in Nat /\ r.at \in Nat
  BY <1>1, RateLimiterAssumption DEF IInv, TypeOK, FlightOK, Request
<1>3. request' \in [Workers -> Request] /\ \A v \in Workers : FlightOK(request[v])'
  BY <1>1, <1>2, DenyType DEF Strike
<1>4. penalties' \in [Keys -> [strikes : 0..MaxStrikes, ts : Nat]]
  BY <1>2 DEF Strike, IInv, TypeOK
<1>5. bans' \in [Keys -> Nat]
  BY <1>2 DEF Strike, IInv, TypeOK
<1>6. seen' \in [Keys -> History]
  <2> DEFINE h == [seen[r.key] EXCEPT !.until = r.at + BanSeconds]
  <2>1. h \in History
    BY <1>2 DEF IInv, TypeOK, History
  <2>2. seen' = seen \/ seen' = [seen EXCEPT ![r.key] = h]
    BY Zenon DEF Strike
  <2> HIDE DEF h
  <2> QED BY <2>1, <2>2 DEF IInv, TypeOK
<1> QED BY <1>1, <1>3, <1>4, <1>5, <1>6, BucketsKept DEF IInv, TypeOK

LEMMA ReplyStep ==
  ASSUME IInv, NEW w \in Workers, Reply(w)
  PROVE  IInv'
<1> DEFINE q == request[w]
           r == [Idle EXCEPT !.verdict = q.verdict, !.wait = RetryAfter(q.key)]
<1>1. UNCHANGED <<clock, config, buckets, penalties, bans, seen>> /\ q.phase = "reply"
  BY DEF Reply
<1>2. q \in Request /\ q.key \in Keys
  BY <1>1 DEF IInv, TypeOK, FlightOK
<1>3. RetryAfter(q.key) \in Nat
  BY <1>2, RetryAfterType
<1>4. r \in Request /\ r.bucket = NoBucket /\ r.phase = "idle"
  <2>1. q.verdict \in {"none", "granted", "limited", "banned", "blocked", "failed"}
    BY <1>2 DEF Request
  <2>2. Idle.phase = "idle"
    BY DEF Idle
  <2> QED BY <1>3, <2>1, <2>2, IdleType DEF Request
<1>5. FlightOK(r)
  BY <1>4, EmptyFlight DEF IInv
<1>6. request' = [request EXCEPT ![w] = r]
  BY DEF Reply
<1> HIDE DEF r
<1>7. request' \in [Workers -> Request] /\ \A v \in Workers : FlightOK(request[v])'
  BY <1>1, <1>4, <1>5, <1>6, FlightStep
<1> QED BY <1>1, <1>7, BucketsKept DEF IInv, TypeOK

\* A step that leaves the requests and the clock alone.
LEMMA FlightsKept ==
  ASSUME IInv, UNCHANGED <<clock, request>>
  PROVE  request' \in [Workers -> Request] /\ \A v \in Workers : FlightOK(request[v])'
BY DEF IInv, TypeOK, FlightOK, Sound, Unit

LEMMA TickStep ==
  ASSUME IInv, Tick
  PROVE  IInv'
<1>1. clock \in Nat /\ clock' = clock + 1 /\ UNCHANGED <<config, buckets, penalties, bans, request, seen>>
  BY DEF IInv, TypeOK, Tick
<1>2. ASSUME NEW b \in Bucket, Sound(b)
      PROVE  b.last <= clock + 1 /\ b.tokens <= b.cap * Unit(b)
  BY <1>1, <1>2 DEF Sound, Bucket
<1>3. \A k \in Keys : Sound(buckets[k])'
  BY <1>1, <1>2 DEF IInv, TypeOK, Sound, Unit
<1>4. \A v \in Workers : FlightOK(request[v])'
  <2> SUFFICES ASSUME NEW v \in Workers PROVE FlightOK(request[v])'
    OBVIOUS
  <2>1. request[v].bucket \in Bucket /\ FlightOK(request[v])
    BY DEF IInv, TypeOK, Request
  <2>2. Sound(request[v].bucket)'
    BY <1>1, <1>2, <2>1 DEF FlightOK, Sound, Unit
  <2> QED BY <1>1, <2>1, <2>2 DEF FlightOK, Unit
<1> QED BY <1>1, <1>3, <1>4 DEF IInv, TypeOK

LEMMA OtherSteps ==
  ASSUME IInv,
         \/ \E level \in {"scope", "any"}, limit \in Overrides \cup {NoLimit} : Override(level, limit)
         \/ \E k \in Keys : ClearBan(k) \/ Observe(k)
         \/ Snapshot
         \/ UNCHANGED vars
  PROVE  IInv'
<1>1. ASSUME NEW level \in {"scope", "any"}, NEW limit \in Overrides \cup {NoLimit},
             Override(level, limit)
      PROVE  IInv'
  <2>1. UNCHANGED <<clock, buckets, penalties, bans, request, seen>>
    BY <1>1 DEF Override
  <2>2. config' \in [{"scope", "any"} -> Limits \cup {NoLimit}]
    BY <1>1 DEF Override, IInv, TypeOK, Limits
  <2> QED BY <2>1, <2>2, FlightsKept, BucketsKept DEF IInv, TypeOK
<1>2. ASSUME NEW k \in Keys, ClearBan(k)
      PROVE  IInv'
  <2>1. UNCHANGED <<clock, config, buckets, penalties, request>>
    BY <1>2 DEF ClearBan
  <2>2. bans' \in [Keys -> Nat] /\ seen' \in [Keys -> History]
    BY <1>2 DEF ClearBan, IInv, TypeOK, History
  <2> QED BY <2>1, <2>2, FlightsKept, BucketsKept DEF IInv, TypeOK
<1>3. ASSUME NEW k \in Keys, Observe(k)
      PROVE  IInv'
  <2>1. UNCHANGED <<clock, config, buckets, penalties, bans, request>>
    BY <1>3 DEF Observe
  <2>2. seen' \in [Keys -> History]
    BY <1>3 DEF Observe, IInv, TypeOK, History
  <2> QED BY <2>1, <2>2, FlightsKept, BucketsKept DEF IInv, TypeOK
<1>4. CASE Snapshot
  <2>1. UNCHANGED <<clock, config, buckets, request, seen>>
    BY <1>4 DEF Snapshot
  <2>2. penalties' \in [Keys -> [strikes : 0..MaxStrikes, ts : Nat]]
    BY <1>4, NoPenaltyType DEF Snapshot, IInv, TypeOK
  <2>3. bans' \in [Keys -> Nat]
    BY <1>4 DEF Snapshot, IInv, TypeOK
  <2> QED BY <2>1, <2>2, <2>3, FlightsKept, BucketsKept DEF IInv, TypeOK
<1>5. CASE UNCHANGED vars
  BY <1>5, FlightsKept, BucketsKept DEF IInv, TypeOK, vars
<1> QED BY <1>1, <1>2, <1>3, <1>4, <1>5

LEMMA InvStep == IInv /\ [Next]_vars => IInv'
<1> SUFFICES ASSUME IInv, [Next]_vars PROVE IInv'
  OBVIOUS
<1>1. ASSUME NEW w \in Workers, Step(w)
      PROVE  IInv'
  BY <1>1, LiftStep, FetchStep, GrantStep, ClearStep, StoreStep, RefuseStep, CountStep,
     StrikeStep, ReplyStep DEF Step
<1> QED BY <1>1, AskStep, TickStep, OtherSteps DEF Next

LEMMA Invariance == Spec => []IInv
BY InvInit, InvStep, PTL DEF Spec

\* Buckets never hold a negative number of tokens, strikes stay within their
\* maximum, and what the observer counts is what it says, however requests overlap.
THEOREM TypeCorrect == Spec => []TypeOK
<1>1. IInv => TypeOK
  BY DEF IInv
<1> QED BY <1>1, Invariance, PTL

-----------------------------------------------------------------------------
(* Steps that neither read nor write a bucket *)

\* A request that holds a copy of a bucket.
Holds(r) == r.phase \in {"grant", "clear", "store", "refuse"}

\* No bucket changes, no request reads one, and no client is noted as served.
Quiet ==
  /\ buckets' = buckets /\ clock' >= clock
  /\ \A k \in Keys : /\ seen'[k].since = seen[k].since
                     /\ seen'[k].grants = seen[k].grants
                     /\ seen'[k].granted = seen[k].granted
  /\ \A w \in Workers : Holds(request'[w]) =>
       Holds(request[w]) /\ request'[w].key = request[w].key
                         /\ request'[w].bucket = request[w].bucket

\* One request lets go of its copy, or keeps it.
LEMMA QuietRequest ==
  ASSUME IInv, UNCHANGED <<clock, buckets, seen>>, NEW w \in Workers, NEW r,
         request' = [request EXCEPT ![w] = r],
         Holds(r) => Holds(request[w]) /\ r.key = request[w].key /\ r.bucket = request[w].bucket
  PROVE  Quiet
<1>1. clock \in Nat /\ request \in [Workers -> Request]
  BY DEF IInv, TypeOK
<1>2. \A v \in Workers : request'[v] = IF v = w THEN r ELSE request[v]
  BY <1>1
<1> QED BY <1>1, <1>2 DEF Quiet

LEMMA QuietGoto ==
  ASSUME IInv, UNCHANGED <<clock, buckets, seen>>, NEW w \in Workers, NEW phase, Goto(w, phase),
         Holds(request[w]) \/ phase \notin {"grant", "clear", "store", "refuse"}
  PROVE  Quiet
<1> DEFINE r == [request[w] EXCEPT !.phase = phase]
<1>1. request[w] \in Request
  BY DEF IInv, TypeOK
<1>2. r.phase = phase /\ r.key = request[w].key /\ r.bucket = request[w].bucket
  BY <1>1 DEF Request
<1>3. request' = [request EXCEPT ![w] = r]
  BY DEF Goto
<1> HIDE DEF r
<1> QED BY <1>2, <1>3, QuietRequest DEF Holds

LEMMA QuietEnd ==
  ASSUME IInv, UNCHANGED <<clock, buckets, seen>>, NEW w \in Workers, NEW verdict, End(w, verdict)
  PROVE  Quiet
<1>1. ~Holds([Idle EXCEPT !.verdict = verdict])
  BY DEF Holds, Idle
<1> QED BY <1>1, QuietRequest DEF End

LEMMA QuietDeny ==
  ASSUME IInv, UNCHANGED <<clock, buckets, seen>>, NEW w \in Workers, NEW k, NEW verdict,
         Deny(w, k, verdict)
  PROVE  Quiet
<1>1. ~Holds([Idle EXCEPT !.phase = "reply", !.verdict = verdict, !.key = k])
  BY DEF Holds, Idle
<1> QED BY <1>1, QuietRequest DEF Deny

LEMMA QuietBegin ==
  ASSUME IInv, UNCHANGED <<clock, buckets, seen>>, NEW w \in Workers, NEW k \in Keys,
         NEW phase \in {"lift", "fetch"}, Begin(w, k, phase)
  PROVE  Quiet
<1>1. ~Holds([Idle EXCEPT !.phase = phase, !.key = k, !.limit = ReducedLimit(k)])
  BY DEF Holds, Idle
<1> QED BY <1>1, QuietRequest DEF Begin

LEMMA QuietReply ==
  ASSUME IInv, NEW w \in Workers, Reply(w)
  PROVE  Quiet
<1>1. ~Holds([Idle EXCEPT !.verdict = request[w].verdict, !.wait = RetryAfter(request[w].key)])
  BY DEF Holds, Idle
<1> QED BY <1>1, QuietRequest DEF Reply

LEMMA QuietCount ==
  ASSUME IInv, NEW w \in Workers, Count(w)
  PROVE  Quiet
<1> DEFINE k == request[w].key
           r == [request[w] EXCEPT !.phase = "strike", !.strikes = OneMore(Strikes(k)), !.at = clock]
<1>1. request \in [Workers -> Request] /\ request[w] \in Request /\ clock \in Nat
  BY DEF IInv, TypeOK
<1>2. k \in Keys /\ seen \in [Keys -> History]
  BY DEF Count, IInv, TypeOK, FlightOK
<1>3. r.phase = "strike"
  BY <1>1 DEF Request
<1>4. request' = [request EXCEPT ![w] = r] /\ UNCHANGED <<clock, buckets>>
  BY DEF Count
<1> HIDE DEF r
<1>5. \A v \in Workers : request'[v] = IF v = w THEN r ELSE request[v]
  BY <1>1, <1>4
<1>6. \A v \in Workers : Holds(request'[v]) => v # w
  BY <1>3, <1>5 DEF Holds
<1>7. seen' = [seen EXCEPT ![k] = WithRefusal(k)]
  BY DEF Count
<1>8. \A j \in Keys : /\ seen'[j].since = seen[j].since /\ seen'[j].grants = seen[j].grants
                      /\ seen'[j].granted = seen[j].granted
  BY <1>2, <1>7, RefusalNoted DEF IInv
<1> QED BY <1>1, <1>4, <1>5, <1>6, <1>8 DEF Quiet

LEMMA QuietStrike ==
  ASSUME IInv, NEW w \in Workers, Strike(w)
  PROVE  Quiet
<1> DEFINE q == request[w]
           r == [Idle EXCEPT !.phase = "reply", !.verdict = "limited", !.key = q.key]
<1>1. request \in [Workers -> Request] /\ clock \in Nat
  BY DEF IInv, TypeOK
<1>2. seen \in [Keys -> History]
  BY DEF IInv, TypeOK
<1>3. request' = [request EXCEPT ![w] = r] /\ UNCHANGED <<clock, buckets>>
  BY DEF Strike, Deny
<1>4. r.phase = "reply"
  BY DEF Idle
<1> HIDE DEF r
<1>5. \A v \in Workers : request'[v] = IF v = w THEN r ELSE request[v]
  BY <1>1, <1>3
<1>6. \A v \in Workers : Holds(request'[v]) => v # w
  BY <1>4, <1>5 DEF Holds
<1>7. \/ seen' = seen
      \/ seen' = [seen EXCEPT ![q.key] = [@ EXCEPT !.until = q.at + BanSeconds]]
  BY Zenon DEF Strike
<1>8. \A j \in Keys : /\ seen'[j].since = seen[j].since /\ seen'[j].grants = seen[j].grants
                      /\ seen'[j].granted = seen[j].granted
  BY <1>2, <1>7 DEF History
<1> QED BY <1>1, <1>3, <1>5, <1>6, <1>8 DEF Quiet

LEMMA QuietEnvironment ==
  ASSUME IInv,
         \/ UNCHANGED <<clock, buckets, request, seen>>
         \/ \E k \in Keys : ClearBan(k)
         \/ Tick
  PROVE  Quiet
<1>1. clock \in Nat /\ seen \in [Keys -> History]
  BY DEF IInv, TypeOK
<1>2. ASSUME NEW k \in Keys, ClearBan(k) PROVE Quiet
  <2>1. \A j \in Keys : /\ seen'[j].since = seen[j].since /\ seen'[j].grants = seen[j].grants
                        /\ seen'[j].granted = seen[j].granted
    BY <1>1, <1>2 DEF ClearBan, History
  <2> QED BY <1>1, <1>2, <2>1 DEF ClearBan, Quiet
<1>3. CASE Tick
  BY <1>1, <1>3 DEF Tick, Quiet
<1>4. CASE UNCHANGED <<clock, buckets, request, seen>>
  BY <1>1, <1>4 DEF Quiet
<1> QED BY <1>2, <1>3, <1>4

\* Every other step is a Fetch, a Store, a Refuse or an Observe.
LEMMA Steps ==
  ASSUME IInv, [Next]_vars
  PROVE  \/ Quiet
         \/ \E w \in Workers : Fetch(w) \/ Store(w) \/ Refuse(w)
         \/ \E k \in Keys : Observe(k)
<1>1. ASSUME NEW w \in Workers, NEW k \in Keys, Ask(w, k) PROVE Quiet
  BY <1>1, QuietDeny, QuietBegin DEF Ask
<1>2. ASSUME NEW w \in Workers, Lift(w) PROVE Quiet
  BY <1>2, QuietEnd, QuietGoto DEF Lift
<1>3. ASSUME NEW w \in Workers, Grant(w) PROVE Quiet
  <2>1. Holds(request[w]) /\ UNCHANGED <<clock, buckets, seen>>
    BY <1>3 DEF Grant, Holds
  <2> QED BY <1>3, <2>1, QuietGoto DEF Grant
<1>4. ASSUME NEW w \in Workers, Clear(w) PROVE Quiet
  <2>1. Holds(request[w]) /\ UNCHANGED <<clock, buckets, seen>>
    BY <1>4 DEF Clear, Holds
  <2> QED BY <1>4, <2>1, QuietGoto, QuietEnd DEF Clear
<1>5. ASSUME \/ \E level \in {"scope", "any"}, limit \in Overrides \cup {NoLimit} : Override(level, limit)
             \/ Snapshot
             \/ UNCHANGED vars
      PROVE  UNCHANGED <<clock, buckets, request, seen>>
  BY <1>5 DEF Override, Snapshot, vars
<1> QED BY <1>1, <1>2, <1>3, <1>4, <1>5, QuietReply, QuietCount, QuietStrike, QuietEnvironment
    DEF Next, Step

-----------------------------------------------------------------------------
(* Who waits is served *)

\* A bucket is full, or holds what time has brought since the last grant.
Waited(b, granted) ==
  \/ b.tokens = b.cap * Unit(b)
  \/ granted >= 0 /\ (b.last - granted) * Rate(b) <= b.tokens

\* So do the buckets and the copies that requests hold of them.
PInv ==
  /\ \A k \in Keys : /\ seen[k].granted <= clock
                     /\ buckets[k].cap > 0 => Waited(buckets[k], seen[k].granted)
  /\ \A w \in Workers : Holds(request[w]) =>
       Waited(request[w].bucket, seen[request[w].key].granted)

LEMMA Split ==
  ASSUME NEW x \in Int, NEW y \in Int, NEW z \in Int, NEW n \in Nat
  PROVE  (x - z) * n = (x - y) * n + (y - z) * n
OBVIOUS

LEMMA NotPositive ==
  ASSUME NEW m \in Int, NEW n \in Nat, m <= 0
  PROVE  m * n \in Int /\ m * n <= 0
OBVIOUS

\* Time goes on.
LEMMA WaitedRefilled ==
  ASSUME TypeOK, NEW b \in Bucket, Sound(b), NEW granted \in Nat \cup {-1}, Waited(b, granted)
  PROVE  Waited(Refilled(b), granted)
<1> DEFINE more == (clock - b.last) * Rate(b)
           most == b.cap * Unit(b)
           past == (b.last - granted) * Rate(b)
           c == Refilled(b)
<1>1. /\ clock \in Nat /\ clock - b.last \in Nat /\ b.last \in Nat /\ b.cap \in Nat
      /\ b.tokens \in Nat /\ granted \in Int
  BY DEF TypeOK, Sound, Bucket
<1>2. more \in Nat /\ most \in Nat /\ past \in Int
  BY <1>1, UnitAndRate, Products
<1>3. /\ c.tokens = Lesser(most, b.tokens + more) /\ c.last = clock
      /\ c.cap * Unit(c) = most /\ Rate(c) = Rate(b)
  BY RefillFacts
<1>4. (clock - granted) * Rate(b) = more + past
  BY <1>1, UnitAndRate, Split
<1>5. b.tokens = most \/ (granted >= 0 /\ past <= b.tokens)
  BY DEF Waited
<1>6. b.tokens <= most
  BY DEF Sound
<1> HIDE DEF more, most, past, c
<1>7. c.tokens = most \/ (granted >= 0 /\ (c.last - granted) * Rate(c) <= c.tokens)
  <2>1. CASE b.tokens = most
    BY <1>1, <1>2, <1>3, <2>1 DEF Lesser
  <2>2. CASE granted >= 0 /\ past <= b.tokens
    <3>1. c.tokens = most \/ c.tokens = b.tokens + more
      BY <1>3 DEF Lesser
    <3> QED BY <1>1, <1>2, <1>3, <1>4, <2>2, <3>1
  <2> QED BY <1>5, <2>1, <2>2
<1> QED BY <1>3, <1>7 DEF Waited, c

\* A grant now leaves nothing to wait for.
LEMMA WaitedNow ==
  ASSUME TypeOK, NEW b \in Bucket, Sound(b)
  PROVE  Waited(b, clock)
<1>1. b.last - clock \in Int /\ b.last - clock <= 0 /\ b.tokens \in Nat /\ clock \in Nat
  BY DEF TypeOK, Sound, Bucket
<1>2. (b.last - clock) * Rate(b) \in Int /\ (b.last - clock) * Rate(b) <= 0
  BY <1>1, UnitAndRate, NotPositive
<1> QED BY <1>1, <1>2 DEF Waited

\* What a request reads has waited as long as the bucket.
LEMMA WaitedRead ==
  ASSUME IInv, PInv, NEW k \in Keys, NEW limit \in [cap : Nat, per : Nat]
  PROVE  Waited(BucketOf(k, limit), seen[k].granted)
<1>1. buckets[k] \in Bucket /\ Sound(buckets[k]) /\ seen[k].granted \in Nat \cup {-1}
  BY DEF IInv, TypeOK, History
<1>2. CASE buckets[k].cap > 0
  BY <1>1, <1>2, WaitedRefilled DEF PInv, BucketOf, IInv
<1>3. CASE ~(buckets[k].cap > 0)
  BY <1>3, FullFacts DEF BucketOf, Waited, IInv
<1> QED BY <1>2, <1>3

\* What a client has been answered before its first request.
LEMMA SeenInit ==
  ASSUME Init, NEW k \in Keys
  PROVE  /\ seen[k].since = 0 /\ seen[k].grants = 0 /\ seen[k].granted = -1 /\ seen[k].chain = 0
         /\ seen[k].row = 0 /\ seen[k].refused = 0 /\ seen[k].until = 0
<1>1. seen = [j \in Keys |-> [since |-> 0, grants |-> 0, granted |-> -1, chain |-> 0,
                             row |-> 0, refused |-> 0, until |-> 0]]
  BY Zenon DEF Init
<1> QED BY <1>1

LEMMA WaitedInit == Init => PInv
<1> SUFFICES ASSUME Init PROVE PInv
  OBVIOUS
<1>1. clock = 0 /\ \A k \in Keys : buckets[k] = NoBucket
  BY DEF Init
<1>2. NoBucket.cap = 0
  BY DEF NoBucket
<1>3. \A w \in Workers : ~Holds(request[w])
  BY DEF Init, Idle, Holds
<1> QED BY <1>1, <1>2, <1>3, SeenInit DEF PInv

LEMMA WaitedQuiet ==
  ASSUME IInv, PInv, Quiet, IInv'
  PROVE  PInv'
<1>1. \A k \in Keys : seen[k].granted \in Int /\ clock \in Int /\ clock' \in Int
  BY DEF IInv, TypeOK, History
<1>2. \A k \in Keys : (seen[k].granted <= clock)'
  BY <1>1 DEF PInv, Quiet
<1>3. \A k \in Keys : (buckets[k].cap > 0 => Waited(buckets[k], seen[k].granted))'
  BY DEF PInv, Quiet, Waited, Unit, Rate
<1>4. \A w \in Workers : Holds(request[w]) => request[w].key \in Keys
  BY DEF Holds, IInv, FlightOK
<1>5. ASSUME NEW w \in Workers, Holds(request[w])'
      PROVE  Waited(request[w].bucket, seen[request[w].key].granted)'
  <2>1. /\ Holds(request[w]) /\ request'[w].key = request[w].key
        /\ request'[w].bucket = request[w].bucket
    BY <1>5 DEF Quiet, Holds
  <2>2. seen'[request'[w].key].granted = seen[request[w].key].granted
    BY <1>4, <2>1 DEF Quiet
  <2>3. Waited(request[w].bucket, seen[request[w].key].granted)
    BY <2>1 DEF PInv
  <2> QED BY <2>1, <2>2, <2>3 DEF Waited, Unit, Rate
<1> QED BY <1>2, <1>3, <1>5 DEF PInv

\* The bucket that one request holds changes; the others keep theirs.
LEMMA WaitedFetch ==
  ASSUME IInv, PInv, NEW w \in Workers, Fetch(w)
  PROVE  PInv'
<1> DEFINE q == request[w]
           b == BucketOf(q.key, q.limit)
<1>1. UNCHANGED <<clock, buckets, seen>> /\ q.phase = "fetch" /\ request \in [Workers -> Request]
  BY DEF Fetch, IInv, TypeOK
<1>2. q.key \in Keys /\ q.limit \in [cap : Nat, per : Nat] /\ q \in Request
  BY <1>1 DEF IInv, TypeOK, FlightOK, Request
<1>3. CASE Deny(w, q.key, "blocked")
  BY <1>1, <1>3, QuietDeny, WaitedQuiet, FetchStep
<1>4. CASE request' = [request EXCEPT ![w] =
             [@ EXCEPT !.phase = IF b.tokens >= Unit(b) THEN "grant" ELSE "refuse",
                       !.bucket = b]]
  <2>1. Waited(b, seen[q.key].granted)
    BY <1>2, WaitedRead
  <2>2. request'[w].bucket = b /\ request'[w].key = q.key
    <3> HIDE DEF b
    <3> QED BY <1>1, <1>2, <1>4 DEF Request
  <2>3. \A v \in Workers : v # w => request'[v] = request[v]
    BY <1>1, <1>4
  <2> HIDE DEF b, q
  <2>4. ASSUME NEW v \in Workers, Holds(request[v])'
        PROVE  Waited(request[v].bucket, seen[request[v].key].granted)'
    <3>1. CASE v = w
      BY <1>1, <2>1, <2>2, <3>1 DEF Waited, Unit, Rate
    <3>2. CASE v # w
      BY <1>1, <2>3, <2>4, <3>2 DEF PInv, Holds, Waited, Unit, Rate
    <3> QED BY <3>1, <3>2
  <2>5. \A k \in Keys : (/\ seen[k].granted <= clock
                         /\ buckets[k].cap > 0 => Waited(buckets[k], seen[k].granted))'
    BY <1>1 DEF PInv, Waited, Unit, Rate
  <2> QED BY <2>4, <2>5 DEF PInv
<1> QED BY <1>3, <1>4 DEF Fetch

LEMMA WaitedStore ==
  ASSUME IInv, PInv, NEW w \in Workers, Store(w), IInv'
  PROVE  PInv'
<1> DEFINE q == request[w]
           i == q.key
<1>1. UNCHANGED clock /\ q.phase = "store" /\ request \in [Workers -> Request] /\ i \in Keys
  BY DEF Store, IInv, TypeOK, FlightOK
<1>2. /\ seen'[i].granted = clock
      /\ \A k \in Keys : k # i => seen'[k] = seen[k] /\ buckets'[k] = buckets[k]
  <2>1. seen' = [seen EXCEPT ![i] = WithGrant(i, q.bucket)] /\ seen \in [Keys -> History]
    BY DEF Store, IInv, TypeOK
  <2>2. WithGrant(i, q.bucket).granted = clock
    BY <1>1, GrantNoted DEF IInv
  <2>3. \A k \in Keys : k # i => buckets'[k] = buckets[k]
    BY DEF Store, IInv, TypeOK
  <2> QED BY <1>1, <2>1, <2>2, <2>3
<1>3. \A v \in Workers : v # w => request'[v] = request[v]
  BY <1>1 DEF Store, End
<1>4. ~Holds(request'[w])
  BY <1>1 DEF Store, End, Idle, Holds
<1>5. clock \in Nat /\ TypeOK' /\ \A k \in Keys : buckets'[k] \in Bucket /\ Sound(buckets[k])'
  BY DEF IInv, TypeOK
<1>6. ASSUME NEW b \in Bucket, Sound(b)
      PROVE  Waited(b, clock)
  BY <1>6, WaitedNow DEF IInv
<1> HIDE DEF q, i
<1>7. ASSUME NEW k \in Keys
      PROVE  (/\ seen[k].granted <= clock
              /\ buckets[k].cap > 0 => Waited(buckets[k], seen[k].granted))'
  <2>1. CASE k = i
    <3>1. Sound(buckets'[i])
      BY <1>1, <1>5, <2>1 DEF Sound, Unit
    <3>2. Waited(buckets'[i], clock)
      BY <1>5, <1>6, <2>1, <3>1
    <3> QED BY <1>1, <1>2, <1>5, <2>1, <3>2 DEF Waited, Unit, Rate
  <2>2. CASE k # i
    BY <1>1, <1>2, <2>2 DEF PInv, Waited, Unit, Rate
  <2> QED BY <2>1, <2>2
<1>8. ASSUME NEW v \in Workers, Holds(request[v])'
      PROVE  Waited(request[v].bucket, seen[request[v].key].granted)'
  <2>1. v # w /\ request'[v] = request[v] /\ Holds(request[v])
    BY <1>3, <1>4, <1>8 DEF Holds
  <2>2. request[v].key \in Keys /\ request[v].bucket \in Bucket /\ Sound(request[v].bucket)
    BY <2>1 DEF Holds, IInv, TypeOK, FlightOK, Request
  <2>3. CASE request[v].key = i
    BY <1>2, <1>6, <2>1, <2>2, <2>3 DEF Waited, Unit, Rate
  <2>4. CASE request[v].key # i
    BY <1>2, <2>1, <2>2, <2>4 DEF PInv, Waited, Unit, Rate
  <2> QED BY <2>3, <2>4
<1> QED BY <1>7, <1>8 DEF PInv

LEMMA WaitedRefuse ==
  ASSUME IInv, PInv, NEW w \in Workers, Refuse(w)
  PROVE  PInv'
<1> DEFINE q == request[w]
           i == q.key
<1>1. /\ UNCHANGED <<clock, seen>> /\ q.phase = "refuse" /\ i \in Keys
      /\ request \in [Workers -> Request] /\ buckets \in [Keys -> Bucket]
  BY DEF Refuse, IInv, TypeOK, FlightOK
<1>2. buckets' = [buckets EXCEPT ![i] = q.bucket]
  BY DEF Refuse
<1>3. Waited(q.bucket, seen[i].granted)
  BY <1>1 DEF PInv, Holds
<1>4. \A v \in Workers : Holds(request'[v]) => v # w
  <2>1. q \in Request
    BY <1>1
  <2>2. ~Holds([q EXCEPT !.phase = "count"])
    BY <2>1 DEF Request, Holds
  <2>3. ~Holds([Idle EXCEPT !.phase = "reply", !.verdict = "limited", !.key = i])
    BY DEF Idle, Holds
  <2>4. ~Holds(request'[w])
    BY <1>1, <2>2, <2>3 DEF Refuse, Goto, Deny
  <2> QED BY <2>4
<1>5. \A v \in Workers : v # w => request'[v] = request[v]
  BY <1>1 DEF Refuse, Goto, Deny
<1> HIDE DEF q, i
<1>6. \A k \in Keys : (/\ seen[k].granted <= clock
                       /\ buckets[k].cap > 0 => Waited(buckets[k], seen[k].granted))'
  <2> SUFFICES ASSUME NEW k \in Keys
               PROVE  (/\ seen[k].granted <= clock
                       /\ buckets[k].cap > 0 => Waited(buckets[k], seen[k].granted))'
    OBVIOUS
  <2>1. CASE k = i
    BY <1>1, <1>2, <1>3, <2>1 DEF PInv, Waited, Unit, Rate
  <2>2. CASE k # i
    BY <1>1, <1>2, <2>2 DEF PInv, Waited, Unit, Rate
  <2> QED BY <2>1, <2>2
<1>7. \A v \in Workers : (Holds(request[v]) =>
                            Waited(request[v].bucket, seen[request[v].key].granted))'
  BY <1>1, <1>4, <1>5 DEF PInv, Holds, Waited, Unit, Rate
<1> QED BY <1>6, <1>7 DEF PInv

LEMMA WaitedObserve ==
  ASSUME IInv, PInv, NEW k \in Keys, Observe(k)
  PROVE  PInv'
<1>1. UNCHANGED <<clock, buckets, request>> /\ seen \in [Keys -> History]
  BY DEF Observe, IInv, TypeOK
<1>2. \A j \in Keys : seen'[j].granted = seen[j].granted
  BY <1>1 DEF Observe, History
<1>3. \A w \in Workers : Holds(request[w]) => request[w].key \in Keys
  BY DEF Holds, IInv, FlightOK
<1> QED BY <1>1, <1>2, <1>3 DEF PInv, Holds, Waited, Unit, Rate

LEMMA WaitedStep == IInv /\ PInv /\ [Next]_vars => PInv'
BY Steps, InvStep, WaitedQuiet, WaitedFetch, WaitedStore, WaitedRefuse, WaitedObserve

LEMMA WaitedAlways == Spec => [](IInv /\ PInv)
<1>1. Init => IInv /\ PInv
  BY InvInit, WaitedInit
<1>2. IInv /\ PInv /\ [Next]_vars => (IInv /\ PInv)'
  BY InvStep, WaitedStep
<1> QED BY <1>1, <1>2, PTL DEF Spec

\* However the requests of a client overlap and whatever it did before, it is
\* not refused once the time of one token has passed since its last grant.
THEOREM WaitIsEnough == Spec => ServedAgain
<1> DEFINE Due ==
      \A w \in Workers :
        LET b == request[w].bucket
            last == seen[request[w].key].granted IN
        Refuse(w) /\ b.per > 0 => last >= 0 /\ (b.last - last) * Rate(b) < Unit(b)
<1>1. IInv /\ PInv => Due
  <2> SUFFICES ASSUME IInv, PInv, NEW w \in Workers, Refuse(w), request[w].bucket.per > 0
               PROVE  /\ seen[request[w].key].granted >= 0
                      /\ (request[w].bucket.last - seen[request[w].key].granted)
                           * Rate(request[w].bucket) < Unit(request[w].bucket)
    BY Zenon DEF Due
  <2> DEFINE b == request[w].bucket
             last == seen[request[w].key].granted
  <2>1. request[w].phase = "refuse"
    BY DEF Refuse
  <2>2. /\ request[w].key \in Keys /\ b \in Bucket /\ b.cap > 0
        /\ b.tokens < Unit(b) /\ Waited(b, last) /\ last \in Int
    BY <2>1 DEF IInv, TypeOK, FlightOK, Request, PInv, Holds, History
  <2>3. Unit(b) \in Nat /\ Rate(b) \in Nat /\ b.cap \in Nat /\ b.tokens \in Nat /\ b.last \in Nat
    BY <2>2, UnitAndRate DEF Bucket
  <2>4. b.cap * Unit(b) >= Unit(b)
    <3> HIDE DEF b
    <3>1. \A m, n \in Nat : m > 0 => m * n >= n
      OBVIOUS
    <3> QED BY <2>2, <2>3, <3>1
  <2>5. b.cap * Unit(b) \in Nat /\ (b.last - last) * Rate(b) \in Int
    <3> HIDE DEF b, last
    <3> QED BY <2>2, <2>3
  <2> HIDE DEF b, last
  <2>6. last >= 0 /\ (b.last - last) * Rate(b) < Unit(b)
    BY <2>2, <2>3, <2>4, <2>5 DEF Waited
  <2> QED BY <2>6 DEF b, last
<1>2. IInv /\ PInv => [Due]_vars
  BY <1>1
<1> QED BY <1>2, WaitedAlways, PTL DEF ServedAgain

-----------------------------------------------------------------------------
(* One request at a time: nobody is granted more than the budget *)

\* What was granted since the count began and what is left are covered by a
\* full bucket and what time has brought; before the bucket's last refill
\* there was nothing to count.
Counted(b, s) ==
  IF b.last >= s.since
  THEN s.grants * Unit(b) + b.tokens <= b.cap * Unit(b) + (b.last - s.since) * Rate(b)
  ELSE s.grants = 0

BInv ==
  /\ \A k \in Keys : /\ seen[k].since <= clock
                     /\ IF buckets[k].cap > 0 THEN Counted(buckets[k], seen[k])
                        ELSE seen[k].grants = 0
  /\ \A w \in Workers : Holds(request[w]) => Counted(request[w].bucket, seen[request[w].key])

OneByOne == \A v, w \in Workers : v = w

LEMMA CountedRefilled ==
  ASSUME TypeOK, NEW b \in Bucket, Sound(b), NEW s \in History, s.since <= clock, Counted(b, s)
  PROVE  Counted(Refilled(b), s)
<1> DEFINE more == (clock - b.last) * Rate(b)
           most == b.cap * Unit(b)
           past == (b.last - s.since) * Rate(b)
           all == (clock - s.since) * Rate(b)
           spent == s.grants * Unit(b)
           c == Refilled(b)
<1>1. /\ clock \in Nat /\ clock - b.last \in Nat /\ b.last \in Nat /\ b.cap \in Nat
      /\ b.tokens \in Nat /\ s.since \in Nat /\ clock - s.since \in Nat /\ s.grants \in Nat
  BY DEF TypeOK, Sound, Bucket, History
<1>2. more \in Nat /\ most \in Nat /\ past \in Int /\ all \in Nat /\ spent \in Nat
  BY <1>1, UnitAndRate, Products
<1>3. /\ c.tokens = Lesser(most, b.tokens + more) /\ c.last = clock
      /\ c.cap * Unit(c) = most /\ Rate(c) = Rate(b) /\ Unit(c) = Unit(b)
  BY RefillFacts
<1>4. all = more + past
  BY <1>1, UnitAndRate, Split
<1>5. IF b.last >= s.since THEN spent + b.tokens <= most + past ELSE s.grants = 0
  BY DEF Counted
<1>6. c.tokens \in Nat /\ c.tokens <= most /\ c.tokens <= b.tokens + more
  BY <1>1, <1>2, <1>3 DEF Lesser
<1>7. spent + c.tokens <= most + all
  <2>1. CASE b.last >= s.since
    <3> HIDE DEF spent, most, past, more, all, c
    <3> QED BY <1>1, <1>2, <1>4, <1>5, <1>6, <2>1
  <2>2. CASE ~(b.last >= s.since)
    <3>1. spent = 0
      BY <1>5, <2>2, UnitAndRate
    <3> HIDE DEF spent, most, past, more, all, c
    <3> QED BY <1>2, <1>6, <3>1
  <2> QED BY <2>1, <2>2
<1> QED BY <1>1, <1>3, <1>7 DEF Counted

\* Where nothing was granted, there is nothing to count.
LEMMA CountedNone ==
  ASSUME TypeOK, NEW b \in Bucket, Sound(b), NEW s \in History, s.grants = 0
  PROVE  Counted(b, s)
<1>1. /\ Unit(b) \in Nat /\ Rate(b) \in Nat /\ b.tokens \in Nat /\ b.last \in Nat
      /\ s.since \in Nat /\ b.tokens <= b.cap * Unit(b) /\ b.cap * Unit(b) \in Nat
  BY UnitAndRate, Products DEF Bucket, History, Sound
<1>2. s.grants * Unit(b) = 0
  BY <1>1
<1>3. b.last >= s.since => (b.last - s.since) * Rate(b) \in Nat
  BY <1>1, Products
<1> QED BY <1>1, <1>2, <1>3 DEF Counted

\* A grant is paid for by the token it takes.
LEMMA CountedStored ==
  ASSUME IInv, NEW k \in Keys, NEW b \in Bucket, Sound(b), Unit(b) <= b.tokens,
         Counted(b, seen[k])
  PROVE  Counted([b EXCEPT !.tokens = @ - Unit(b)], WithGrant(k, b))
<1> DEFINE c == [b EXCEPT !.tokens = @ - Unit(b)]
           s == seen[k]
           h == WithGrant(k, b)
           most == b.cap * Unit(b)
           past == (b.last - s.since) * Rate(b)
<1>1. /\ c.last = b.last /\ c.cap = b.cap /\ c.tokens = b.tokens - Unit(b)
      /\ Unit(c) = Unit(b) /\ Rate(c) = Rate(b)
  BY Charged DEF IInv
<1>2. /\ h.since = s.since
      /\ h.grants = s.grants \/ (h.grants = s.grants + 1 /\ b.last >= s.since)
  BY GrantNoted DEF IInv
<1>3. /\ Unit(b) \in Nat /\ b.tokens \in Nat /\ b.last \in Nat /\ s.since \in Nat
      /\ s.grants \in Nat /\ most \in Nat /\ past \in Int
  BY UnitAndRate, Products DEF Bucket, IInv, TypeOK, History
<1>4. (s.grants + 1) * Unit(b) = s.grants * Unit(b) + Unit(b) /\ s.grants * Unit(b) \in Nat
  BY <1>3
<1>5. IF b.last >= s.since THEN s.grants * Unit(b) + b.tokens <= most + past ELSE s.grants = 0
  BY DEF Counted
<1> DEFINE spent == s.grants * Unit(b)
           now == h.grants * Unit(b)
<1> HIDE DEF c, h, s, most, past
<1>6. now = spent \/ (now = spent + Unit(b) /\ b.last >= s.since)
  BY <1>2, <1>4
<1>7. IF b.last >= s.since THEN now + c.tokens <= most + past ELSE h.grants = 0
  <2>1. spent \in Nat /\ now \in Nat
    BY <1>3, <1>4, <1>6
  <2>2. CASE b.last >= s.since
    <3>1. spent + b.tokens <= most + past
      BY <1>5, <2>2
    <3> HIDE DEF spent, now
    <3> QED BY <1>1, <1>3, <1>6, <2>1, <2>2, <3>1
  <2>3. CASE ~(b.last >= s.since)
    BY <1>2, <1>5, <2>3
  <2> QED BY <2>2, <2>3
<1>8. IF c.last >= h.since
      THEN h.grants * Unit(c) + c.tokens <= c.cap * Unit(c) + (c.last - h.since) * Rate(c)
      ELSE h.grants = 0
  BY <1>1, <1>2, <1>7 DEF most, past, now
<1> QED BY <1>8 DEF Counted, c, h

LEMMA CountedRead ==
  ASSUME IInv, BInv, NEW k \in Keys, NEW limit \in [cap : Nat, per : Nat]
  PROVE  Counted(BucketOf(k, limit), seen[k])
<1>1. /\ buckets[k] \in Bucket /\ Sound(buckets[k]) /\ seen[k] \in History
      /\ seen[k].since <= clock
  BY DEF IInv, TypeOK, BInv
<1>2. CASE buckets[k].cap > 0
  BY <1>1, <1>2, CountedRefilled DEF BInv, BucketOf, IInv
<1>3. CASE ~(buckets[k].cap > 0)
  BY <1>1, <1>3, BucketOfFacts, CountedNone DEF BInv, IInv
<1> QED BY <1>2, <1>3

LEMMA CountedInit == Init => BInv
<1> SUFFICES ASSUME Init PROVE BInv
  OBVIOUS
<1>1. clock = 0 /\ \A k \in Keys : buckets[k] = NoBucket
  BY DEF Init
<1>2. NoBucket.cap = 0
  BY DEF NoBucket
<1>3. \A w \in Workers : ~Holds(request[w])
  BY DEF Init, Idle, Holds
<1> QED BY <1>1, <1>2, <1>3, SeenInit DEF BInv

LEMMA CountedQuiet ==
  ASSUME IInv, BInv, Quiet, IInv'
  PROVE  BInv'
<1>1. \A k \in Keys : seen[k].since \in Int /\ clock \in Int /\ clock' \in Int
  BY DEF IInv, TypeOK, History
<1>2. \A k \in Keys : (seen[k].since <= clock)'
  BY <1>1 DEF BInv, Quiet
<1>3. \A k \in Keys : (IF buckets[k].cap > 0 THEN Counted(buckets[k], seen[k])
                       ELSE seen[k].grants = 0)'
  BY DEF BInv, Quiet, Counted, Unit, Rate
<1>4. \A w \in Workers : Holds(request[w]) => request[w].key \in Keys
  BY DEF Holds, IInv, FlightOK
<1>5. ASSUME NEW w \in Workers, Holds(request[w])'
      PROVE  Counted(request[w].bucket, seen[request[w].key])'
  <2>1. /\ Holds(request[w]) /\ request'[w].key = request[w].key
        /\ request'[w].bucket = request[w].bucket
    BY <1>5 DEF Quiet, Holds
  <2>2. /\ seen'[request'[w].key].since = seen[request[w].key].since
        /\ seen'[request'[w].key].grants = seen[request[w].key].grants
    BY <1>4, <2>1 DEF Quiet
  <2>3. Counted(request[w].bucket, seen[request[w].key])
    BY <2>1 DEF BInv
  <2> QED BY <2>1, <2>2, <2>3 DEF Counted, Unit, Rate
<1> QED BY <1>2, <1>3, <1>5 DEF BInv

LEMMA CountedFetch ==
  ASSUME IInv, BInv, OneByOne, NEW w \in Workers, Fetch(w)
  PROVE  BInv'
<1> DEFINE q == request[w]
           b == BucketOf(q.key, q.limit)
<1>1. UNCHANGED <<clock, buckets, seen>> /\ q.phase = "fetch" /\ request \in [Workers -> Request]
  BY DEF Fetch, IInv, TypeOK
<1>2. q.key \in Keys /\ q.limit \in [cap : Nat, per : Nat] /\ q \in Request
  BY <1>1 DEF IInv, TypeOK, FlightOK, Request
<1>3. CASE Deny(w, q.key, "blocked")
  BY <1>1, <1>3, QuietDeny, CountedQuiet, FetchStep
<1>4. CASE request' = [request EXCEPT ![w] =
             [@ EXCEPT !.phase = IF b.tokens >= Unit(b) THEN "grant" ELSE "refuse",
                       !.bucket = b]]
  <2>1. Counted(b, seen[q.key])
    BY <1>2, CountedRead
  <2>2. request'[w].bucket = b /\ request'[w].key = q.key
    <3> HIDE DEF b
    <3> QED BY <1>1, <1>2, <1>4 DEF Request
  <2> HIDE DEF b, q
  <2>3. \A v \in Workers : Counted(request[v].bucket, seen[request[v].key])'
    BY <1>1, <2>1, <2>2 DEF OneByOne, Counted, Unit, Rate
  <2>4. \A k \in Keys : (/\ seen[k].since <= clock
                         /\ IF buckets[k].cap > 0 THEN Counted(buckets[k], seen[k])
                            ELSE seen[k].grants = 0)'
    BY <1>1 DEF BInv, Counted, Unit, Rate
  <2> QED BY <2>3, <2>4 DEF BInv
<1> QED BY <1>3, <1>4 DEF Fetch

LEMMA CountedStore ==
  ASSUME IInv, BInv, OneByOne, NEW w \in Workers, Store(w)
  PROVE  BInv'
<1> DEFINE q == request[w]
           i == q.key
           c == [q.bucket EXCEPT !.tokens = @ - Unit(q.bucket)]
           h == WithGrant(i, q.bucket)
<1>1. /\ UNCHANGED clock /\ q.phase = "store" /\ request \in [Workers -> Request] /\ i \in Keys
      /\ seen \in [Keys -> History] /\ buckets \in [Keys -> Bucket]
  BY DEF Store, IInv, TypeOK, FlightOK
<1>2. /\ q.bucket \in Bucket /\ Sound(q.bucket) /\ Unit(q.bucket) <= q.bucket.tokens
      /\ q.bucket.cap > 0 /\ Counted(q.bucket, seen[i])
  BY <1>1 DEF IInv, TypeOK, FlightOK, Request, BInv, Holds
<1>3. Counted(c, h) /\ c.cap > 0 /\ h.since = seen[i].since
  BY <1>1, <1>2, CountedStored, Charged, GrantNoted DEF IInv
<1>4. buckets' = [buckets EXCEPT ![i] = c] /\ seen' = [seen EXCEPT ![i] = h]
  BY DEF Store
<1>5. ~Holds(request'[w])
  BY <1>1 DEF Store, End, Idle, Holds
<1> HIDE DEF q, i, c, h
<1>6. ASSUME NEW k \in Keys
      PROVE  (/\ seen[k].since <= clock
              /\ IF buckets[k].cap > 0 THEN Counted(buckets[k], seen[k])
                 ELSE seen[k].grants = 0)'
  <2>1. CASE k = i
    BY <1>1, <1>3, <1>4, <2>1 DEF BInv, Counted, Unit, Rate
  <2>2. CASE k # i
    BY <1>1, <1>4, <2>2 DEF BInv, Counted, Unit, Rate
  <2> QED BY <2>1, <2>2
<1>7. \A v \in Workers : ~Holds(request[v])'
  BY <1>5 DEF OneByOne, Holds
<1> QED BY <1>6, <1>7 DEF BInv

LEMMA CountedRefuse ==
  ASSUME IInv, BInv, OneByOne, NEW w \in Workers, Refuse(w)
  PROVE  BInv'
<1> DEFINE q == request[w]
           i == q.key
<1>1. /\ UNCHANGED <<clock, seen>> /\ q.phase = "refuse" /\ i \in Keys /\ q \in Request
      /\ request \in [Workers -> Request] /\ buckets \in [Keys -> Bucket]
      /\ buckets' = [buckets EXCEPT ![i] = q.bucket]
  BY DEF Refuse, IInv, TypeOK, FlightOK
<1>2. Counted(q.bucket, seen[i]) /\ q.bucket.cap > 0
  BY <1>1 DEF BInv, Holds, IInv, FlightOK
<1>3. ~Holds(request'[w])
  <2>1. ~Holds([q EXCEPT !.phase = "count"])
    BY <1>1 DEF Request, Holds
  <2>2. ~Holds([Idle EXCEPT !.phase = "reply", !.verdict = "limited", !.key = i])
    BY DEF Idle, Holds
  <2> QED BY <1>1, <2>1, <2>2 DEF Refuse, Goto, Deny
<1> HIDE DEF q, i
<1>4. ASSUME NEW k \in Keys
      PROVE  (/\ seen[k].since <= clock
              /\ IF buckets[k].cap > 0 THEN Counted(buckets[k], seen[k])
                 ELSE seen[k].grants = 0)'
  <2>1. CASE k = i
    BY <1>1, <1>2, <2>1 DEF BInv, Counted, Unit, Rate
  <2>2. CASE k # i
    BY <1>1, <2>2 DEF BInv, Counted, Unit, Rate
  <2> QED BY <2>1, <2>2
<1>5. \A v \in Workers : ~Holds(request[v])'
  BY <1>3 DEF OneByOne, Holds
<1> QED BY <1>4, <1>5 DEF BInv

LEMMA CountedObserve ==
  ASSUME IInv, BInv, NEW i \in Keys, Observe(i), IInv'
  PROVE  BInv'
<1>1. UNCHANGED <<clock, buckets, request>> /\ seen \in [Keys -> History] /\ clock \in Nat
  BY DEF Observe, IInv, TypeOK
<1>2. seen'[i].grants = 0 /\ seen'[i].since = clock /\ seen'[i] \in History
  <2>1. seen'[i] \in History
    BY DEF IInv, TypeOK
  <2>2. seen'[i].grants = 0 /\ seen'[i].since = clock
    BY <1>1 DEF Observe, History
  <2> QED BY <2>1, <2>2
<1>3. \A k \in Keys : k # i => seen'[k] = seen[k]
  BY <1>1 DEF Observe
<1>4. ASSUME NEW b \in Bucket, Sound(b)
      PROVE  Counted(b, seen'[i])
  BY <1>2, <1>4, CountedNone DEF IInv
<1>5. ASSUME NEW k \in Keys
      PROVE  (/\ seen[k].since <= clock
              /\ IF buckets[k].cap > 0 THEN Counted(buckets[k], seen[k])
                 ELSE seen[k].grants = 0)'
  <2>1. buckets[k] \in Bucket /\ Sound(buckets[k])
    BY DEF IInv, TypeOK
  <2>2. CASE k = i
    BY <1>1, <1>2, <1>4, <2>1, <2>2 DEF Counted, Unit, Rate
  <2>3. CASE k # i
    BY <1>1, <1>3, <2>3 DEF BInv, Counted, Unit, Rate
  <2> QED BY <2>2, <2>3
<1>6. ASSUME NEW v \in Workers, Holds(request[v])'
      PROVE  Counted(request[v].bucket, seen[request[v].key])'
  <2>1. Holds(request[v]) /\ request' = request
    BY <1>1, <1>6 DEF Holds
  <2>2. request[v].key \in Keys /\ request[v].bucket \in Bucket /\ Sound(request[v].bucket)
    BY <2>1 DEF Holds, IInv, TypeOK, FlightOK, Request
  <2>3. CASE request[v].key = i
    BY <1>4, <2>1, <2>2, <2>3 DEF Counted, Unit, Rate
  <2>4. CASE request[v].key # i
    BY <1>3, <2>1, <2>2, <2>4 DEF BInv, Counted, Unit, Rate
  <2> QED BY <2>3, <2>4
<1> QED BY <1>5, <1>6 DEF BInv

LEMMA CountedStep == OneByOne /\ IInv /\ BInv /\ [Next]_vars => BInv'
BY Steps, InvStep, CountedQuiet, CountedFetch, CountedStore, CountedRefuse, CountedObserve

\* As long as its requests are served one by one, no client is granted more than
\* its bucket and what time has brought, from whatever moment one counts.
THEOREM BudgetKept ==
  ASSUME OneByOne
  PROVE  Spec => []Budget
<1>1. Init => IInv /\ BInv
  BY InvInit, CountedInit
<1>2. IInv /\ BInv /\ [Next]_vars => (IInv /\ BInv)'
  BY InvStep, CountedStep
<1>3. IInv /\ BInv => Budget
  <2> SUFFICES ASSUME IInv, BInv, NEW k \in Keys
               PROVE  seen[k].grants * Unit(buckets[k])
                        <= buckets[k].cap * Unit(buckets[k])
                             + Rate(buckets[k]) * (clock - seen[k].since)
    BY Zenon DEF Budget
  <2> DEFINE b == buckets[k]
             s == seen[k]
             past == (b.last - s.since) * Rate(b)
             more == (clock - b.last) * Rate(b)
             all == (clock - s.since) * Rate(b)
  <2>1. /\ b \in Bucket /\ s \in History /\ clock \in Nat /\ b.last <= clock
        /\ s.since <= clock
    BY DEF IInv, TypeOK, Sound, BInv
  <2>2. /\ b.cap \in Nat /\ b.last \in Nat /\ b.tokens \in Nat /\ s.since \in Nat
        /\ s.grants \in Nat /\ Unit(b) \in Nat /\ Rate(b) \in Nat
    BY <2>1, UnitAndRate DEF Bucket, History
  <2>3. clock - b.last \in Nat /\ clock - s.since \in Nat
    BY <2>1, <2>2
  <2>4. /\ b.cap * Unit(b) \in Nat /\ s.grants * Unit(b) \in Nat
        /\ all \in Nat /\ more \in Nat /\ past \in Int
    BY <2>2, <2>3, Products
  <2>5. all = more + past
    BY <2>1, <2>2, Split
  <2>6. s.grants * Unit(b) <= b.cap * Unit(b) + all
    <3>1. CASE s.grants = 0
      <4>1. s.grants * Unit(b) = 0
        BY <2>2, <3>1
      <4> HIDE DEF b, s, all
      <4> QED BY <2>4, <4>1
    <3>2. CASE s.grants # 0
      <4>1. s.grants * Unit(b) + b.tokens <= b.cap * Unit(b) + past
        BY <3>2 DEF BInv, Counted
      <4> HIDE DEF b, s, all, more, past
      <4> QED BY <2>2, <2>4, <2>5, <4>1
    <3> QED BY <3>1, <3>2
  <2>7. all = Rate(b) * (clock - s.since)
    BY <2>1, <2>2
  <2> QED BY <2>6, <2>7
<1> QED BY <1>1, <1>2, <1>3, PTL DEF Spec

=============================================================================
