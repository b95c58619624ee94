----------------------- MODULE RateLimiterBans_proofs -----------------------
(***************************************************************************)
(* What TLAPS proves of the strikes and the bans of RateLimiter.           *)
(***************************************************************************)
EXTENDS RateLimiter_proofs

-----------------------------------------------------------------------------
(* Types of what is read *)

LEMMA SeenTypes ==
  ASSUME TypeOK, NEW k \in Keys
  PROVE  /\ seen[k].refused \in Nat /\ seen[k].until \in Nat
         /\ seen[k].chain \in 0..MaxStrikes /\ seen[k].row \in 0..MaxStrikes
BY DEF TypeOK, History

LEMMA PenaltyTypes ==
  ASSUME TypeOK, NEW k \in Keys
  PROVE  penalties[k].strikes \in 0..MaxStrikes /\ penalties[k].ts \in Nat
BY DEF TypeOK

LEMMA RequestTypes ==
  ASSUME IInv, NEW w \in Workers
  PROVE  /\ request[w].strikes \in 0..MaxStrikes /\ request[w].at \in Nat
         /\ request[w].phase # "idle" => request[w].key \in Keys
BY DEF IInv, TypeOK, Request, FlightOK

-----------------------------------------------------------------------------
(* What a step makes of the request that takes it *)

\* Only the request of one worker changes.
Alone(w) == \A v \in Workers : v # w => request'[v] = request[v]

LEMMA AfterGoto ==
  ASSUME TypeOK, NEW w \in Workers, NEW phase, Goto(w, phase)
  PROVE  /\ Alone(w) /\ request'[w].phase = phase /\ request'[w].key = request[w].key
BY DEF TypeOK, Goto, Alone, Request

LEMMA AfterEnd ==
  ASSUME TypeOK, NEW w \in Workers, NEW verdict, End(w, verdict)
  PROVE  Alone(w) /\ request'[w].phase = "idle"
BY DEF TypeOK, End, Alone, Idle

LEMMA AfterDeny ==
  ASSUME TypeOK, NEW w \in Workers, NEW k, NEW verdict, Deny(w, k, verdict)
  PROVE  Alone(w) /\ request'[w].phase = "reply"
BY DEF TypeOK, Deny, Alone, Idle

LEMMA AfterBegin ==
  ASSUME TypeOK, NEW w \in Workers, NEW k, NEW phase, Begin(w, k, phase)
  PROVE  Alone(w) /\ request'[w].phase = phase /\ request'[w].key = k
<1> DEFINE r == [Idle EXCEPT !.phase = phase, !.key = k, !.limit = ReducedLimit(k)]
<1>1. r.phase = phase /\ r.key = k
  BY DEF Idle
<1>2. request' = [request EXCEPT ![w] = r]
  BY DEF Begin
<1> HIDE DEF r
<1> QED BY <1>1, <1>2 DEF TypeOK, Alone

LEMMA AfterFetch ==
  ASSUME TypeOK, NEW w \in Workers, Fetch(w)
  PROVE  /\ Alone(w) /\ request'[w].phase \in {"reply", "grant", "refuse"}
         /\ request'[w].phase # "reply" => request'[w].key = request[w].key
<1> DEFINE q == request[w]
           b == BucketOf(q.key, q.limit)
           phase == IF b.tokens >= Unit(b) THEN "grant" ELSE "refuse"
           r == [q EXCEPT !.phase = phase, !.bucket = b]
<1>1. CASE Deny(w, q.key, "blocked")
  BY <1>1, AfterDeny
<1>2. CASE request' = [request EXCEPT ![w] = r]
  <2>1. q \in Request /\ request \in [Workers -> Request]
    BY DEF TypeOK
  <2>2. phase \in {"grant", "refuse"}
    OBVIOUS
  <2> HIDE DEF b, phase
  <2>3. r.phase = phase /\ r.key = q.key
    BY <2>1 DEF Request
  <2> HIDE DEF r
  <2> QED BY <1>2, <2>1, <2>2, <2>3 DEF Alone
<1> QED BY <1>1, <1>2 DEF Fetch

LEMMA AfterReply ==
  ASSUME TypeOK, NEW w \in Workers, Reply(w)
  PROVE  Alone(w) /\ request'[w].phase = "idle"
<1> DEFINE r == [Idle EXCEPT !.verdict = request[w].verdict, !.wait = RetryAfter(request[w].key)]
<1>1. r.phase = "idle"
  BY DEF Idle
<1> HIDE DEF r
<1> QED BY <1>1 DEF TypeOK, Reply, Alone, r

LEMMA AfterCount ==
  ASSUME TypeOK, NEW w \in Workers, Count(w)
  PROVE  /\ Alone(w) /\ request'[w].phase = "strike" /\ request'[w].key = request[w].key
         /\ request'[w].strikes = OneMore(Strikes(request[w].key)) /\ request'[w].at = clock
<1> DEFINE q == request[w]
           n == OneMore(Strikes(q.key))
           r == [q EXCEPT !.phase = "strike", !.strikes = n, !.at = clock]
<1>1. q \in Request /\ request \in [Workers -> Request] /\ request' = [request EXCEPT ![w] = r]
  BY DEF TypeOK, Count
<1> HIDE DEF n
<1>2. r.phase = "strike" /\ r.key = q.key /\ r.strikes = n /\ r.at = clock
  BY <1>1 DEF Request
<1> HIDE DEF r
<1> QED BY <1>1, <1>2 DEF Alone, n

\* What the observer notes of a refusal and of a grant, as far as bans go.
LEMMA RefusalRow ==
  ASSUME TypeOK, NEW k \in Keys
  PROVE  /\ WithRefusal(k).until = seen[k].until /\ WithRefusal(k).refused = clock
         /\ WithRefusal(k).row = IF clock - seen[k].refused > Decay THEN 1
                                 ELSE OneMore(seen[k].row)
<1> DEFINE late == clock - seen[k].refused > Decay
           c == IF late THEN 1 ELSE OneMore(seen[k].chain)
           d == IF late THEN 1 ELSE OneMore(seen[k].row)
<1>1. WithRefusal(k) = [seen[k] EXCEPT !.chain = c, !.row = d, !.refused = clock]
  BY DEF WithRefusal
<1>2. seen[k] \in History
  BY DEF TypeOK
<1> HIDE DEF c, d
<1>3. /\ WithRefusal(k).until = seen[k].until /\ WithRefusal(k).refused = clock
      /\ WithRefusal(k).row = d
  BY <1>1, <1>2 DEF History
<1> QED BY <1>3 DEF d

LEMMA GrantRow ==
  ASSUME TypeOK, NEW k \in Keys, NEW b
  PROVE  /\ WithGrant(k, b).until = seen[k].until /\ WithGrant(k, b).refused = seen[k].refused
         /\ WithGrant(k, b).chain = seen[k].chain /\ WithGrant(k, b).row = 0
<1> DEFINE n == IF k \in Watched /\ b.last >= seen[k].since
                THEN seen[k].grants + 1 ELSE seen[k].grants
<1>1. WithGrant(k, b) = [seen[k] EXCEPT !.grants = n, !.granted = clock, !.row = 0]
  BY DEF WithGrant
<1>2. seen[k] \in History
  BY DEF TypeOK
<1> HIDE DEF n
<1> QED BY <1>1, <1>2 DEF History

\* One refusal more counts as one strike more.
LEMMA OneMoreMonotone ==
  ASSUME NEW m \in 0..MaxStrikes, NEW n \in 0..MaxStrikes
  PROVE  m <= n => m <= OneMore(n) /\ OneMore(m) <= OneMore(n)
BY RateLimiterAssumption DEF OneMore, Lesser

LEMMA OneMoreOfNone == OneMore(0) = 1
BY RateLimiterAssumption DEF OneMore, Lesser

-----------------------------------------------------------------------------
(* Overlapping requests: a ban stands for refusals close to each other *)

\* Strikes of time ts that have not lapsed stand for as many refusals in a chain.
Chained(n, ts, h) == ts <= h.refused /\ (clock - ts <= Decay => n <= h.chain)

CInv ==
  /\ \A k \in Keys : /\ seen[k].refused <= clock
                     /\ Chained(penalties[k].strikes, penalties[k].ts, seen[k])
  /\ \A w \in Workers : request[w].phase = "strike" =>
       Chained(request[w].strikes, request[w].at, seen[request[w].key])

\* Strikes are only taken away, and no refusal is counted.
Calm ==
  /\ clock' = clock
  /\ \A k \in Keys : /\ penalties'[k] \in {penalties[k], NoPenalty}
                     /\ seen'[k].refused = seen[k].refused /\ seen'[k].chain = seen[k].chain
  /\ \A w \in Workers : request'[w].phase = "strike" => request'[w] = request[w]

LEMMA CalmRequest ==
  ASSUME UNCHANGED <<clock, penalties, seen>>, NEW w \in Workers, Alone(w),
         request'[w].phase # "strike"
  PROVE  Calm
BY DEF Calm, Alone

LEMMA CalmClear ==
  ASSUME TypeOK, NEW w \in Workers, Clear(w)
  PROVE  Calm
<1>1. Alone(w) /\ request'[w].phase # "strike"
  BY AfterGoto, AfterEnd DEF Clear
<1>2. /\ UNCHANGED <<clock, seen>>
      /\ penalties' = [penalties EXCEPT ![request[w].key] = NoPenalty]
  BY DEF Clear
<1> QED BY <1>1, <1>2 DEF Calm, Alone, TypeOK

LEMMA CalmStore ==
  ASSUME IInv, NEW w \in Workers, Store(w)
  PROVE  Calm
<1> DEFINE i == request[w].key
           h == WithGrant(i, request[w].bucket)
<1>1. Alone(w) /\ request'[w].phase # "strike"
  BY AfterEnd DEF Store, IInv
<1>2. /\ UNCHANGED <<clock, penalties>> /\ seen' = [seen EXCEPT ![i] = h]
      /\ i \in Keys /\ seen \in [Keys -> History]
  BY DEF Store, IInv, TypeOK, FlightOK
<1>3. h.refused = seen[i].refused /\ h.chain = seen[i].chain
  BY <1>2, GrantRow DEF IInv
<1> HIDE DEF i, h
<1> QED BY <1>1, <1>2, <1>3 DEF Calm, Alone

LEMMA CalmClearBan ==
  ASSUME TypeOK, NEW k \in Keys, ClearBan(k)
  PROVE  Calm
<1>1. UNCHANGED <<clock, penalties, request>> /\ seen \in [Keys -> History]
  BY DEF ClearBan, TypeOK
<1>2. ASSUME NEW j \in Keys
      PROVE  seen'[j].refused = seen[j].refused /\ seen'[j].chain = seen[j].chain
  BY <1>1 DEF ClearBan, History
<1> QED BY <1>1, <1>2 DEF Calm

LEMMA CalmObserve ==
  ASSUME TypeOK, NEW k \in Keys, Observe(k)
  PROVE  Calm
<1>1. UNCHANGED <<clock, penalties, request>> /\ seen \in [Keys -> History]
  BY DEF Observe, TypeOK
<1>2. ASSUME NEW j \in Keys
      PROVE  seen'[j].refused = seen[j].refused /\ seen'[j].chain = seen[j].chain
  BY <1>1 DEF Observe, History
<1> QED BY <1>1, <1>2 DEF Calm

LEMMA CalmSteps ==
  ASSUME IInv, [Next]_vars
  PROVE  Calm \/ Tick \/ \E w \in Workers : Count(w) \/ Strike(w)
<1>1. ASSUME NEW w \in Workers, NEW k \in Keys, Ask(w, k) PROVE Calm
  BY <1>1, AfterDeny, AfterBegin, CalmRequest DEF Ask, IInv
<1>2. ASSUME NEW w \in Workers, Lift(w) PROVE Calm
  BY <1>2, AfterGoto, AfterEnd, CalmRequest DEF Lift, IInv
<1>3. ASSUME NEW w \in Workers, Fetch(w) PROVE Calm
  <2>1. UNCHANGED <<clock, penalties, seen>>
    BY <1>3 DEF Fetch
  <2> QED BY <1>3, <2>1, AfterFetch, CalmRequest DEF IInv
<1>4. ASSUME NEW w \in Workers, Grant(w) PROVE Calm
  BY <1>4, AfterGoto, CalmRequest DEF Grant, IInv
<1>5. ASSUME NEW w \in Workers, Refuse(w) PROVE Calm
  BY <1>5, AfterGoto, AfterDeny, CalmRequest DEF Refuse, IInv
<1>6. ASSUME NEW w \in Workers, Reply(w) PROVE Calm
  <2>1. UNCHANGED <<clock, penalties, seen>>
    BY <1>6 DEF Reply
  <2> QED BY <1>6, <2>1, AfterReply, CalmRequest DEF IInv
<1>7. ASSUME \/ \E level \in {"scope", "any"}, limit \in Overrides \cup {NoLimit} : Override(level, limit)
             \/ UNCHANGED vars
      PROVE  UNCHANGED <<clock, penalties, seen, request>>
  BY <1>7 DEF Override, vars
<1>8. ASSUME NEW w \in Workers, Step(w) PROVE Calm \/ Count(w) \/ Strike(w)
  BY <1>2, <1>3, <1>4, <1>5, <1>6, <1>8, CalmClear, CalmStore DEF Step, IInv
<1>9. CASE Snapshot
  BY <1>9 DEF Snapshot, Calm
<1>10. CASE UNCHANGED <<clock, penalties, seen, request>>
  BY <1>10 DEF Calm
<1> QED BY <1>1, <1>7, <1>8, <1>9, <1>10, CalmClearBan, CalmObserve DEF Next, IInv

LEMMA ChainedInit == Init => CInv
<1> SUFFICES ASSUME Init PROVE CInv
  OBVIOUS
<1>1. clock = 0 /\ \A k \in Keys : penalties[k].strikes = 0 /\ penalties[k].ts = 0
  BY DEF Init, NoPenalty
<1>2. \A w \in Workers : request[w].phase # "strike"
  BY DEF Init, Idle
<1> QED BY <1>1, <1>2, SeenInit, RateLimiterAssumption DEF CInv, Chained

LEMMA ChainedCalm ==
  ASSUME IInv, CInv, Calm
  PROVE  CInv'
<1>1. ASSUME NEW k \in Keys PROVE seen[k].refused \in Nat /\ seen[k].chain \in Nat
  BY SeenTypes DEF IInv
<1>2. NoPenalty.ts = 0 /\ NoPenalty.strikes = 0
  BY DEF NoPenalty
<1>3. \A k \in Keys : (/\ seen[k].refused <= clock
                       /\ Chained(penalties[k].strikes, penalties[k].ts, seen[k]))'
  BY <1>1, <1>2 DEF Calm, CInv, Chained
<1>4. \A w \in Workers : request[w].phase = "strike" => request[w].key \in Keys
  BY DEF IInv, FlightOK
<1>5. \A w \in Workers : (request[w].phase = "strike" =>
        Chained(request[w].strikes, request[w].at, seen[request[w].key]))'
  BY <1>4 DEF Calm, CInv, Chained
<1> QED BY <1>3, <1>5 DEF CInv

\* Strikes that were in the chain stay in it when it goes on, or have lapsed.
LEMMA ChainGoesOn ==
  ASSUME IInv, CInv, NEW k \in Keys, NEW n \in 0..MaxStrikes, NEW ts \in Nat,
         Chained(n, ts, seen[k])
  PROVE  Chained(n, ts, WithRefusal(k))
<1>1. /\ clock \in Nat /\ seen[k].refused \in Nat /\ seen[k].refused <= clock
      /\ seen[k].chain \in 0..MaxStrikes /\ Decay \in Nat
  BY RateLimiterAssumption DEF IInv, TypeOK, History, CInv
<1>2. /\ WithRefusal(k).refused = clock
      /\ WithRefusal(k).chain = IF clock - seen[k].refused > Decay THEN 1
                                ELSE OneMore(seen[k].chain)
  BY RefusalNoted DEF IInv
<1> QED BY <1>1, <1>2, OneMoreMonotone, OneMoreType DEF Chained

LEMMA ChainedCount ==
  ASSUME IInv, CInv, NEW w \in Workers, Count(w)
  PROVE  /\ CInv'
         /\ request'[w].strikes <= seen'[request[w].key].chain
<1> DEFINE i == request[w].key
           h == WithRefusal(i)
<1>1. /\ UNCHANGED <<clock, penalties>> /\ i \in Keys /\ seen' = [seen EXCEPT ![i] = h]
      /\ seen \in [Keys -> History] /\ clock \in Nat /\ Decay \in Nat
  BY RateLimiterAssumption DEF Count, IInv, TypeOK, FlightOK
<1>2. /\ Alone(w) /\ request'[w].phase = "strike" /\ request'[w].key = i
      /\ request'[w].strikes = OneMore(Strikes(i)) /\ request'[w].at = clock
  BY AfterCount DEF IInv
<1>3. /\ h.refused = clock
      /\ h.chain = IF clock - seen[i].refused > Decay THEN 1 ELSE OneMore(seen[i].chain)
  BY <1>1, RefusalNoted DEF IInv
<1>4. OneMore(Strikes(i)) <= h.chain
  <2>1. /\ penalties[i].ts \in Nat /\ penalties[i].strikes \in 0..MaxStrikes
        /\ seen[i].chain \in 0..MaxStrikes /\ seen[i].refused \in Nat /\ 0 \in 0..MaxStrikes
    BY <1>1, RateLimiterAssumption DEF IInv, TypeOK, History
  <2>2. Chained(penalties[i].strikes, penalties[i].ts, seen[i])
    BY <1>1 DEF CInv
  <2>3. CASE Lapsed(i)
    <3>1. OneMore(Strikes(i)) = 1
      BY <2>3, OneMoreOfNone DEF Strikes
    <3>2. OneMore(seen[i].chain) >= 1
      BY <2>1, OneMoreType
    <3> QED BY <1>3, <3>1, <3>2
  <2>4. CASE ~Lapsed(i)
    <3>1. /\ Strikes(i) = penalties[i].strikes /\ penalties[i].strikes <= seen[i].chain
          /\ ~(clock - seen[i].refused > Decay)
      BY <1>1, <2>1, <2>2, <2>4 DEF Strikes, Lapsed, Chained
    <3> QED BY <1>3, <2>1, <3>1, OneMoreMonotone
  <2> QED BY <2>3, <2>4
<1>5. ASSUME NEW k \in Keys
      PROVE  penalties[k].strikes \in 0..MaxStrikes /\ penalties[k].ts \in Nat
  BY PenaltyTypes DEF IInv
<1>6. \A v \in Workers : request[v].phase = "strike" =>
        /\ request[v].key \in Keys /\ request[v].strikes \in 0..MaxStrikes
        /\ request[v].at \in Nat
  BY RequestTypes
<1>7. ASSUME NEW n \in 0..MaxStrikes, NEW ts \in Nat, Chained(n, ts, seen[i])
      PROVE  Chained(n, ts, h)
  BY <1>1, <1>7, ChainGoesOn
<1> HIDE DEF i, h
<1>8. ASSUME NEW k \in Keys
      PROVE  (/\ seen[k].refused <= clock
              /\ Chained(penalties[k].strikes, penalties[k].ts, seen[k]))'
  <2>1. CASE k = i
    BY <1>1, <1>3, <1>5, <1>7, <2>1 DEF CInv, Chained
  <2>2. CASE k # i
    BY <1>1, <2>2 DEF CInv, Chained
  <2> QED BY <2>1, <2>2
<1>9. ASSUME NEW v \in Workers, (request[v].phase = "strike")'
      PROVE  Chained(request[v].strikes, request[v].at, seen[request[v].key])'
  <2>1. CASE v = w
    BY <1>1, <1>2, <1>3, <1>4, <2>1 DEF Chained
  <2>2. CASE v # w
    <3>1. request'[v] = request[v] /\ request[v].phase = "strike"
      BY <1>2, <1>9, <2>2 DEF Alone
    <3>2. Chained(request[v].strikes, request[v].at, seen[request[v].key])
      BY <3>1 DEF CInv
    <3>3. CASE request[v].key = i
      BY <1>1, <1>6, <1>7, <3>1, <3>2, <3>3 DEF Chained
    <3>4. CASE request[v].key # i
      BY <1>1, <1>6, <3>1, <3>2, <3>4 DEF Chained
    <3> QED BY <3>3, <3>4
  <2> QED BY <2>1, <2>2
<1>10. seen'[i].chain = h.chain
  BY <1>1
<1> QED BY <1>2, <1>4, <1>8, <1>9, <1>10 DEF CInv, i

LEMMA ChainedStrike ==
  ASSUME IInv, CInv, NEW w \in Workers, Strike(w)
  PROVE  CInv'
<1> DEFINE q == request[w]
<1>1. /\ UNCHANGED clock /\ q.phase = "strike" /\ q.key \in Keys /\ seen \in [Keys -> History]
      /\ penalties' = [penalties EXCEPT ![q.key] = [strikes |-> q.strikes, ts |-> q.at]]
      /\ penalties \in [Keys -> [strikes : 0..MaxStrikes, ts : Nat]]
  BY DEF Strike, IInv, TypeOK, FlightOK
<1>2. Alone(w) /\ request'[w].phase # "strike"
  BY AfterDeny DEF Strike, IInv
<1>3. \A k \in Keys : seen'[k].refused = seen[k].refused /\ seen'[k].chain = seen[k].chain
  <2>1. \/ seen' = seen
        \/ seen' = [seen EXCEPT ![q.key] = [@ EXCEPT !.until = q.at + BanSeconds]]
    BY Zenon DEF Strike
  <2> QED BY <1>1, <2>1 DEF History
<1>4. Chained(q.strikes, q.at, seen[q.key])
  BY <1>1 DEF CInv
<1>5. \A v \in Workers : request[v].phase = "strike" => request[v].key \in Keys
  BY DEF IInv, FlightOK
<1> HIDE DEF q
<1>6. ASSUME NEW k \in Keys
      PROVE  (/\ seen[k].refused <= clock
              /\ Chained(penalties[k].strikes, penalties[k].ts, seen[k]))'
  <2>1. CASE k = q.key
    BY <1>1, <1>3, <1>4, <2>1 DEF CInv, Chained
  <2>2. CASE k # q.key
    BY <1>1, <1>3, <2>2 DEF CInv, Chained
  <2> QED BY <2>1, <2>2
<1>7. ASSUME NEW v \in Workers, (request[v].phase = "strike")'
      PROVE  Chained(request[v].strikes, request[v].at, seen[request[v].key])'
  BY <1>1, <1>2, <1>3, <1>5, <1>7 DEF Alone, CInv, Chained
<1> QED BY <1>6, <1>7 DEF CInv

LEMMA ChainedTick ==
  ASSUME IInv, CInv, Tick
  PROVE  CInv'
<1>1. clock \in Nat /\ clock' = clock + 1 /\ UNCHANGED <<penalties, request, seen>>
  BY DEF IInv, TypeOK, Tick
<1>2. ASSUME NEW k \in Keys PROVE penalties[k].ts \in Nat /\ seen[k].refused \in Nat
  BY PenaltyTypes, SeenTypes DEF IInv
<1>3. \A w \in Workers : request[w].at \in Nat
  BY RequestTypes
<1>4. \A k \in Keys : (/\ seen[k].refused <= clock
                       /\ Chained(penalties[k].strikes, penalties[k].ts, seen[k]))'
  BY <1>1, <1>2, RateLimiterAssumption DEF CInv, Chained
<1>5. \A w \in Workers : (request[w].phase = "strike" =>
        Chained(request[w].strikes, request[w].at, seen[request[w].key]))'
  BY <1>1, <1>3, RateLimiterAssumption DEF CInv, Chained
<1> QED BY <1>4, <1>5 DEF CInv

LEMMA ChainedAlways == Spec => [](IInv /\ CInv)
<1>1. Init => IInv /\ CInv
  BY InvInit, ChainedInit
<1>2. IInv /\ CInv /\ [Next]_vars => (IInv /\ CInv)'
  BY InvStep, CalmSteps, ChainedCalm, ChainedCount, ChainedStrike, ChainedTick
<1> QED BY <1>1, <1>2, PTL DEF Spec

LEMMA ChainTypeAfter ==
  ASSUME IInv, NEW w \in Workers, Count(w)
  PROVE  seen'[request[w].key].chain \in 0..MaxStrikes
<1>1. request[w].key \in Keys /\ seen \in [Keys -> History]
  BY RequestTypes DEF Count, IInv, TypeOK
<1>2. WithRefusal(request[w].key) \in History
  BY <1>1, RefusalNoted DEF IInv
<1>3. seen'[request[w].key] = WithRefusal(request[w].key)
  BY <1>1 DEF Count
<1> QED BY <1>2, <1>3 DEF History

\* However the requests of a client overlap, the strike that bans it is the last
\* of MaxStrikes refusals of which none came more than Decay after the one before.
THEOREM BansStandForRefusals == Spec => BanRefused
<1> DEFINE Stands ==
      \A w \in Workers : Count(w) /\ request'[w].strikes = MaxStrikes =>
        seen'[request[w].key].chain = MaxStrikes
<1>1. IInv /\ CInv => Stands
  <2> SUFFICES ASSUME IInv, CInv, NEW w \in Workers, Count(w), request'[w].strikes = MaxStrikes
               PROVE  seen'[request[w].key].chain = MaxStrikes
    BY Zenon DEF Stands
  <2>1. request[w].key \in Keys /\ request[w].phase = "count"
    BY RequestTypes DEF Count
  <2>2. seen'[request[w].key].chain \in 0..MaxStrikes
    BY <2>1, ChainTypeAfter
  <2>3. MaxStrikes <= seen'[request[w].key].chain
    BY ChainedCount
  <2> QED BY <2>2, <2>3, RateLimiterAssumption
<1>2. IInv /\ CInv => [Stands]_vars
  BY <1>1
<1> QED BY <1>2, ChainedAlways, PTL DEF BanRefused

-----------------------------------------------------------------------------
(* One request at a time: bans are earned, and hold *)

\* Strikes that have not lapsed stand for as many refusals in a row, a ban is
\* the last one given, and only a scope that is penalised has either.
KeyOK(k) ==
  /\ clock - penalties[k].ts <= Decay => penalties[k].strikes <= seen[k].row
  /\ penalties[k].strikes > 0 => Penalised
  /\ IF bans[k] > 0 THEN Penalised /\ seen[k].until = bans[k] ELSE seen[k].until <= clock

\* A request past the question for a ban has none to fear, and its grant finds
\* no strikes.
RequestOK(r) ==
  /\ r.phase \in {"count", "strike"} => Penalised
  /\ r.phase = "strike" => r.strikes <= seen[r.key].row
  /\ r.phase \in {"lift", "fetch", "grant", "clear", "store"} => seen[r.key].until <= clock
  /\ r.phase = "store" => penalties[r.key].strikes = 0

RInv ==
  /\ \A k \in Keys : KeyOK(k)
  /\ \A w \in Workers : RequestOK(request[w])

\* A step that only moves a request.
LEMMA RowFrame ==
  ASSUME RInv, OneByOne, NEW w \in Workers, UNCHANGED <<clock, penalties, bans, seen>>,
         RequestOK(request'[w])
  PROVE  RInv'
<1>1. \A k \in Keys : KeyOK(k)'
  BY DEF RInv, KeyOK
<1>2. \A v \in Workers : RequestOK(request[v])'
  BY DEF OneByOne, RequestOK
<1> QED BY <1>1, <1>2 DEF RInv

LEMMA RowInit == Init => RInv
<1> SUFFICES ASSUME Init PROVE RInv
  OBVIOUS
<1>1. /\ clock = 0
      /\ \A k \in Keys : penalties[k].strikes = 0 /\ penalties[k].ts = 0 /\ bans[k] = 0
  BY DEF Init, NoPenalty
<1>2. \A w \in Workers : request[w].phase = "idle"
  BY DEF Init, Idle
<1> QED BY <1>1, <1>2, SeenInit DEF RInv, KeyOK, RequestOK

LEMMA RowAsk ==
  ASSUME IInv, RInv, OneByOne, NEW w \in Workers, NEW k \in Keys, Ask(w, k)
  PROVE  RInv'
<1>1. UNCHANGED <<clock, penalties, bans, seen>>
  BY DEF Ask
<1>2. bans[k] \in Nat /\ clock \in Nat /\ KeyOK(k)
  BY DEF IInv, TypeOK, RInv
<1>3. CASE Deny(w, k, "banned")
  BY <1>1, <1>3, AfterDeny, RowFrame DEF RequestOK, IInv
<1>4. ASSUME NEW phase \in {"lift", "fetch"}, Begin(w, k, phase), seen[k].until <= clock
      PROVE  RInv'
  BY <1>1, <1>4, AfterBegin, RowFrame DEF RequestOK, IInv
<1>5. CASE bans[k] \in 1..clock /\ Begin(w, k, "lift")
  BY <1>2, <1>4, <1>5 DEF KeyOK
<1>6. CASE (Penalised => bans[k] = 0) /\ Begin(w, k, "fetch")
  BY <1>2, <1>4, <1>6 DEF KeyOK
<1> QED BY <1>3, <1>5, <1>6 DEF Ask

LEMMA RowFetch ==
  ASSUME IInv, RInv, OneByOne, NEW w \in Workers, Fetch(w)
  PROVE  RInv'
<1>1. UNCHANGED <<clock, penalties, bans, seen>> /\ request[w].phase = "fetch"
  BY DEF Fetch
<1>2. seen[request[w].key].until <= clock
  BY <1>1 DEF RInv, RequestOK
<1> QED BY <1>1, <1>2, AfterFetch, RowFrame DEF RequestOK, IInv

LEMMA RowGrant ==
  ASSUME IInv, RInv, OneByOne, NEW w \in Workers, Grant(w)
  PROVE  RInv'
<1> DEFINE k == request[w].key
           phase == IF Penalised /\ penalties[k].strikes > 0 THEN "clear" ELSE "store"
<1>1. UNCHANGED <<clock, penalties, bans, seen>> /\ request[w].phase = "grant" /\ Goto(w, phase)
  BY DEF Grant
<1>2. seen[k].until <= clock /\ k \in Keys
  BY <1>1, RequestTypes DEF RInv, RequestOK
<1>3. penalties[k].strikes \in Nat /\ (penalties[k].strikes > 0 => Penalised)
  BY <1>2, PenaltyTypes DEF IInv, RInv, KeyOK
<1>4. phase \in {"clear", "store"} /\ (phase = "store" => penalties[k].strikes = 0)
  BY <1>3
<1>5. request'[w].phase = phase /\ request'[w].key = k
  BY <1>1, AfterGoto DEF IInv
<1> HIDE DEF phase, k
<1>6. RequestOK(request'[w])
  BY <1>2, <1>4, <1>5 DEF RequestOK
<1> QED BY <1>1, <1>6, RowFrame

LEMMA RowRefuse ==
  ASSUME IInv, RInv, OneByOne, NEW w \in Workers, Refuse(w)
  PROVE  RInv'
<1>1. UNCHANGED <<clock, penalties, bans, seen>>
  BY DEF Refuse
<1>2. request'[w].phase \in {"count", "reply"} /\ (request'[w].phase = "count" => Penalised)
  BY AfterGoto, AfterDeny DEF Refuse, IInv
<1> QED BY <1>1, <1>2, RowFrame DEF RequestOK

LEMMA RowReply ==
  ASSUME IInv, RInv, OneByOne, NEW w \in Workers, Reply(w)
  PROVE  RInv'
<1>1. UNCHANGED <<clock, penalties, bans, seen>>
  BY DEF Reply
<1>2. request'[w].phase = "idle"
  BY AfterReply DEF IInv
<1> QED BY <1>1, <1>2, RowFrame DEF RequestOK

LEMMA RowLift ==
  ASSUME IInv, RInv, OneByOne, NEW w \in Workers, Lift(w)
  PROVE  RInv'
<1> DEFINE i == request[w].key
<1>1. /\ UNCHANGED <<clock, penalties, seen>> /\ request[w].phase = "lift" /\ i \in Keys
      /\ bans' = [bans EXCEPT ![i] = 0] /\ bans \in [Keys -> Nat]
  BY RequestTypes DEF Lift, IInv, TypeOK
<1>2. seen[i].until <= clock
  BY <1>1 DEF RInv, RequestOK
<1>3. \/ request'[w].phase = "fetch" /\ request'[w].key = i
      \/ request'[w].phase = "idle"
  BY AfterGoto, AfterEnd DEF Lift, IInv
<1> HIDE DEF i
<1>4. ASSUME NEW k \in Keys PROVE KeyOK(k)'
  BY <1>1, <1>2 DEF RInv, KeyOK
<1>5. RequestOK(request[w])'
  BY <1>1, <1>2, <1>3 DEF RequestOK
<1> QED BY <1>4, <1>5 DEF RInv, OneByOne

LEMMA RowClear ==
  ASSUME IInv, RInv, OneByOne, NEW w \in Workers, Clear(w)
  PROVE  RInv'
<1> DEFINE i == request[w].key
<1>1. /\ UNCHANGED <<clock, bans, seen>> /\ request[w].phase = "clear" /\ i \in Keys
      /\ penalties' = [penalties EXCEPT ![i] = NoPenalty]
      /\ penalties \in [Keys -> [strikes : 0..MaxStrikes, ts : Nat]]
  BY RequestTypes DEF Clear, IInv, TypeOK
<1>2. seen[i].until <= clock /\ seen[i].row >= 0
  BY <1>1, SeenTypes DEF RInv, RequestOK, IInv
<1>3. \/ request'[w].phase = "store" /\ request'[w].key = i
      \/ request'[w].phase = "idle"
  BY AfterGoto, AfterEnd DEF Clear, IInv
<1>4. penalties'[i].strikes = 0
  BY <1>1 DEF NoPenalty
<1> HIDE DEF i
<1>5. ASSUME NEW k \in Keys PROVE KeyOK(k)'
  BY <1>1, <1>2, <1>4 DEF RInv, KeyOK
<1>6. RequestOK(request[w])'
  BY <1>1, <1>2, <1>3, <1>4 DEF RequestOK
<1> QED BY <1>5, <1>6 DEF RInv, OneByOne

LEMMA RowStore ==
  ASSUME IInv, RInv, OneByOne, NEW w \in Workers, Store(w)
  PROVE  RInv' /\ seen[request[w].key].until <= clock
<1> DEFINE i == request[w].key
           h == WithGrant(i, request[w].bucket)
<1>1. /\ UNCHANGED <<clock, bans, penalties>> /\ request[w].phase = "store" /\ i \in Keys
      /\ seen' = [seen EXCEPT ![i] = h] /\ seen \in [Keys -> History]
  BY RequestTypes DEF Store, IInv, TypeOK
<1>2. seen[i].until <= clock /\ penalties[i].strikes = 0
  BY <1>1 DEF RInv, RequestOK
<1>3. request'[w].phase = "idle"
  BY AfterEnd DEF Store, IInv
<1>4. h.until = seen[i].until /\ h.row = 0
  BY <1>1, GrantRow DEF IInv
<1> HIDE DEF i, h
<1>5. ASSUME NEW k \in Keys PROVE KeyOK(k)'
  <2>1. CASE k = i
    BY <1>1, <1>2, <1>4, <2>1 DEF RInv, KeyOK
  <2>2. CASE k # i
    BY <1>1, <2>2 DEF RInv, KeyOK
  <2> QED BY <2>1, <2>2
<1>6. RequestOK(request[w])'
  BY <1>3 DEF RequestOK
<1> QED BY <1>2, <1>5, <1>6 DEF RInv, OneByOne, i

LEMMA RowCount ==
  ASSUME IInv, CInv, RInv, OneByOne, NEW w \in Workers, Count(w)
  PROVE  RInv'
<1> DEFINE i == request[w].key
           h == WithRefusal(i)
<1>1. /\ UNCHANGED <<clock, bans, penalties>> /\ request[w].phase = "count" /\ i \in Keys
      /\ seen' = [seen EXCEPT ![i] = h] /\ seen \in [Keys -> History]
  BY RequestTypes DEF Count, IInv, TypeOK
<1>2. Penalised
  BY <1>1 DEF RInv, RequestOK
<1>3. /\ request'[w].phase = "strike" /\ request'[w].key = i
      /\ request'[w].strikes = OneMore(Strikes(i))
  BY AfterCount DEF IInv
<1>4. /\ h.until = seen[i].until
      /\ h.row = IF clock - seen[i].refused > Decay THEN 1 ELSE OneMore(seen[i].row)
  BY <1>1, RefusalRow DEF IInv
<1>5. /\ clock \in Nat /\ Decay \in Nat /\ 0 \in 0..MaxStrikes
      /\ penalties[i].ts \in Nat /\ penalties[i].strikes \in 0..MaxStrikes
      /\ seen[i].row \in 0..MaxStrikes /\ seen[i].refused \in Nat
      /\ penalties[i].ts <= seen[i].refused
  BY <1>1, SeenTypes, PenaltyTypes, RateLimiterAssumption DEF IInv, TypeOK, CInv, Chained
<1>6. /\ OneMore(Strikes(i)) <= h.row
      /\ clock - penalties[i].ts <= Decay => penalties[i].strikes <= h.row
  <2>1. CASE Lapsed(i)
    <3>1. OneMore(Strikes(i)) = 1 /\ ~(clock - penalties[i].ts <= Decay)
      BY <1>5, <2>1, OneMoreOfNone DEF Strikes, Lapsed
    <3>2. OneMore(seen[i].row) >= 1
      BY <1>5, OneMoreType
    <3> QED BY <1>4, <3>1, <3>2
  <2>2. CASE ~Lapsed(i)
    <3>1. /\ Strikes(i) = penalties[i].strikes /\ penalties[i].strikes <= seen[i].row
          /\ ~(clock - seen[i].refused > Decay)
      BY <1>1, <1>5, <2>2 DEF Strikes, Lapsed, RInv, KeyOK
    <3>2. h.row = OneMore(seen[i].row)
      BY <1>4, <3>1
    <3> QED BY <1>5, <3>1, <3>2, OneMoreMonotone
  <2> QED BY <2>1, <2>2
<1> HIDE DEF i, h
<1>7. ASSUME NEW k \in Keys PROVE KeyOK(k)'
  <2>1. CASE k = i
    BY <1>1, <1>4, <1>6, <2>1 DEF RInv, KeyOK
  <2>2. CASE k # i
    BY <1>1, <2>2 DEF RInv, KeyOK
  <2> QED BY <2>1, <2>2
<1>8. RequestOK(request[w])'
  BY <1>1, <1>2, <1>3, <1>6 DEF RequestOK
<1> QED BY <1>7, <1>8 DEF RInv, OneByOne

\* A strike bans its own client, and only at the end of a full row.
LEMMA RowStrike ==
  ASSUME IInv, RInv, OneByOne, NEW w \in Workers, Strike(w)
  PROVE  RInv' /\ \A k \in Keys : bans'[k] > bans[k] => seen[k].row = MaxStrikes
<1> DEFINE q == request[w]
           i == q.key
           banned == q.strikes >= MaxStrikes
           end == q.at + BanSeconds
<1>1. /\ UNCHANGED clock /\ q.phase = "strike" /\ i \in Keys /\ seen \in [Keys -> History]
      /\ penalties' = [penalties EXCEPT ![i] = [strikes |-> q.strikes, ts |-> q.at]]
      /\ penalties \in [Keys -> [strikes : 0..MaxStrikes, ts : Nat]] /\ bans \in [Keys -> Nat]
  BY RequestTypes DEF Strike, IInv, TypeOK
<1>2. Penalised /\ q.strikes <= seen[i].row
  BY <1>1 DEF RInv, RequestOK
<1>3. request'[w].phase = "reply"
  BY AfterDeny DEF Strike, IInv
<1>4. /\ q.strikes \in 0..MaxStrikes /\ q.at \in Nat /\ end \in Nat /\ end > 0
      /\ seen[i].row \in 0..MaxStrikes
  BY <1>1, RequestTypes, SeenTypes, RateLimiterAssumption DEF IInv
<1>5. /\ penalties'[i].strikes = q.strikes
      /\ \A k \in Keys : k # i => penalties'[k] = penalties[k]
  BY <1>1
<1>6. /\ \A k \in Keys : seen'[k].row = seen[k].row
      /\ \A k \in Keys : k # i => seen'[k].until = seen[k].until /\ bans'[k] = bans[k]
      /\ \/ banned /\ seen'[i].until = end /\ bans'[i] = end
         \/ seen'[i].until = seen[i].until /\ bans'[i] = bans[i]
  <2>1. \/ banned /\ bans' = [bans EXCEPT ![i] = end]
                  /\ seen' = [seen EXCEPT ![i] = [@ EXCEPT !.until = end]]
        \/ UNCHANGED <<bans, seen>>
    BY Zenon DEF Strike
  <2> HIDE DEF i, end, banned, q
  <2>2. CASE UNCHANGED <<bans, seen>>
    BY <1>1, <2>2
  <2>3. CASE banned /\ bans' = [bans EXCEPT ![i] = end]
                    /\ seen' = [seen EXCEPT ![i] = [@ EXCEPT !.until = end]]
    <3>1. bans'[i] = end /\ \A k \in Keys : k # i => seen'[k] = seen[k] /\ bans'[k] = bans[k]
      BY <1>1, <2>3
    <3>2. seen'[i].until = end /\ seen'[i].row = seen[i].row
      BY <1>1, <2>3 DEF History
    <3> QED BY <2>3, <3>1, <3>2
  <2> QED BY <2>1, <2>2, <2>3
<1>7. banned => seen[i].row = MaxStrikes
  BY <1>2, <1>4, RateLimiterAssumption
<1> HIDE DEF i, end, banned, q
<1>8. ASSUME NEW k \in Keys PROVE KeyOK(k)'
  <2>1. CASE k = i
    BY <1>1, <1>2, <1>4, <1>5, <1>6, <2>1 DEF RInv, KeyOK
  <2>2. CASE k # i
    BY <1>1, <1>5, <1>6, <2>2 DEF RInv, KeyOK
  <2> QED BY <2>1, <2>2
<1>9. RequestOK(request[w])'
  BY <1>3 DEF RequestOK
<1>10. ASSUME NEW k \in Keys, bans'[k] > bans[k]
       PROVE  seen[k].row = MaxStrikes
  BY <1>1, <1>6, <1>7, <1>10
<1> QED BY <1>8, <1>9, <1>10 DEF RInv, OneByOne

LEMMA RowObserve ==
  ASSUME IInv, RInv, NEW i \in Keys, Observe(i)
  PROVE  RInv'
<1>1. /\ UNCHANGED <<clock, penalties, bans, request>> /\ seen \in [Keys -> History]
  BY DEF Observe, IInv, TypeOK
<1>2. ASSUME NEW k \in Keys PROVE seen'[k].row = seen[k].row /\ seen'[k].until = seen[k].until
  BY <1>1 DEF Observe, History
<1>3. ASSUME NEW k \in Keys PROVE KeyOK(k)'
  BY <1>1, <1>2 DEF RInv, KeyOK
<1>4. ASSUME NEW v \in Workers PROVE RequestOK(request[v])'
  <2>1. RequestOK(request[v]) /\ (request[v].phase # "idle" => request[v].key \in Keys)
    BY RequestTypes DEF RInv
  <2> QED BY <1>1, <1>2, <2>1 DEF RequestOK
<1> QED BY <1>3, <1>4 DEF RInv

LEMMA RowClearBan ==
  ASSUME IInv, RInv, NEW i \in Keys, ClearBan(i)
  PROVE  RInv'
<1>1. /\ UNCHANGED <<clock, penalties, request>> /\ seen \in [Keys -> History] /\ clock \in Nat
      /\ bans' = [bans EXCEPT ![i] = 0] /\ bans \in [Keys -> Nat]
  BY DEF ClearBan, IInv, TypeOK
<1>2. ASSUME NEW k \in Keys
      PROVE  seen'[k].row = seen[k].row /\ seen'[k].until = IF k = i THEN 0 ELSE seen[k].until
  BY <1>1 DEF ClearBan, History
<1>3. ASSUME NEW k \in Keys PROVE KeyOK(k)'
  BY <1>1, <1>2 DEF RInv, KeyOK
<1>4. ASSUME NEW v \in Workers PROVE RequestOK(request[v])'
  <2>1. RequestOK(request[v]) /\ (request[v].phase # "idle" => request[v].key \in Keys)
    BY RequestTypes DEF RInv
  <2> QED BY <1>1, <1>2, <2>1 DEF RequestOK
<1> QED BY <1>3, <1>4 DEF RInv

LEMMA RowSnapshot ==
  ASSUME IInv, RInv, Snapshot
  PROVE  RInv'
<1>1. UNCHANGED <<clock, request, seen>> /\ clock \in Nat /\ NoPenalty.strikes = 0
  BY DEF Snapshot, IInv, TypeOK, NoPenalty
<1>2. ASSUME NEW k \in Keys
      PROVE  /\ penalties'[k] \in {penalties[k], NoPenalty}
             /\ bans'[k] = IF bans[k] <= clock THEN 0 ELSE bans[k]
  BY DEF Snapshot
<1>3. ASSUME NEW k \in Keys PROVE KeyOK(k)'
  <2>1. seen[k].row \in Nat /\ bans[k] \in Nat /\ KeyOK(k)
    BY SeenTypes DEF IInv, TypeOK, RInv
  <2> QED BY <1>1, <1>2, <2>1 DEF KeyOK
<1>4. ASSUME NEW v \in Workers PROVE RequestOK(request[v])'
  <2>1. RequestOK(request[v]) /\ (request[v].phase # "idle" => request[v].key \in Keys)
    BY RequestTypes DEF RInv
  <2> QED BY <1>1, <1>2, <2>1 DEF RequestOK
<1> QED BY <1>3, <1>4 DEF RInv

LEMMA RowTick ==
  ASSUME IInv, RInv, Tick
  PROVE  RInv'
<1>1. clock \in Nat /\ clock' = clock + 1 /\ UNCHANGED <<penalties, bans, request, seen>>
  BY DEF Tick, IInv, TypeOK
<1>2. ASSUME NEW k \in Keys PROVE KeyOK(k)'
  <2>1. seen[k].until \in Nat /\ penalties[k].ts \in Nat /\ KeyOK(k) /\ Decay \in Nat
    BY SeenTypes, PenaltyTypes, RateLimiterAssumption DEF IInv, RInv
  <2> QED BY <1>1, <2>1 DEF KeyOK
<1>3. ASSUME NEW v \in Workers PROVE RequestOK(request[v])'
  <2>1. RequestOK(request[v]) /\ (request[v].phase # "idle" => request[v].key \in Keys)
    BY RequestTypes DEF RInv
  <2>2. request[v].phase # "idle" => seen[request[v].key].until \in Nat
    BY <2>1, SeenTypes DEF IInv
  <2> QED BY <1>1, <2>1, <2>2 DEF RequestOK
<1> QED BY <1>2, <1>3 DEF RInv

LEMMA RowStep == OneByOne /\ IInv /\ CInv /\ RInv /\ [Next]_vars => RInv'
<1> SUFFICES ASSUME OneByOne, IInv, CInv, RInv, [Next]_vars PROVE RInv'
  OBVIOUS
<1>1. ASSUME NEW w \in Workers, Step(w) PROVE RInv'
  BY <1>1, RowLift, RowFetch, RowGrant, RowClear, RowStore, RowRefuse, RowCount, RowStrike,
     RowReply DEF Step
<1>2. CASE UNCHANGED <<clock, penalties, bans, request, seen>>
  BY <1>2 DEF RInv, KeyOK, RequestOK
<1>3. ASSUME \/ \E level \in {"scope", "any"}, limit \in Overrides \cup {NoLimit} : Override(level, limit)
             \/ UNCHANGED vars
      PROVE  UNCHANGED <<clock, penalties, bans, request, seen>>
  BY <1>3 DEF Override, vars
<1> QED BY <1>1, <1>2, <1>3, RowAsk, RowObserve, RowClearBan, RowSnapshot, RowTick DEF Next

LEMMA RowAlways ==
  ASSUME OneByOne
  PROVE  Spec => [](IInv /\ CInv /\ RInv)
<1>1. Init => RInv
  BY RowInit
<1>2. IInv /\ CInv /\ RInv /\ [Next]_vars => RInv'
  BY RowStep
<1> QED BY <1>1, <1>2, ChainedAlways, PTL DEF Spec

\* No step but a strike bans anyone.
LEMMA BansOnlyByStrike ==
  ASSUME IInv, [Next]_vars, NEW k \in Keys, bans'[k] > bans[k]
  PROVE  \E w \in Workers : Strike(w)
<1>1. bans \in [Keys -> Nat]
  BY DEF IInv, TypeOK
<1>2. ASSUME NEW w \in Workers, Step(w) PROVE Strike(w) \/ UNCHANGED bans \/ Lift(w)
  BY <1>2 DEF Step, Fetch, Grant, Clear, Store, Refuse, Count, Reply
<1>3. ASSUME NEW w \in Workers, Lift(w) PROVE FALSE
  BY <1>1, <1>3 DEF Lift
<1>4. ASSUME NEW w \in Workers, NEW j \in Keys, Ask(w, j) PROVE FALSE
  BY <1>1, <1>4 DEF Ask
<1>5. ASSUME NEW j \in Keys, ClearBan(j) PROVE FALSE
  BY <1>1, <1>5 DEF ClearBan
<1>6. ASSUME NEW j \in Keys, Observe(j) PROVE FALSE
  BY <1>1, <1>6 DEF Observe
<1>7. CASE Snapshot
  BY <1>1, <1>7 DEF Snapshot
<1>8. CASE Tick
  BY <1>1, <1>8 DEF Tick
<1>9. ASSUME \/ \E level \in {"scope", "any"}, limit \in Overrides \cup {NoLimit} : Override(level, limit)
             \/ UNCHANGED vars
      PROVE  FALSE
  BY <1>1, <1>9 DEF Override, vars
<1> QED BY <1>1, <1>2, <1>3, <1>4, <1>5, <1>6, <1>7, <1>8, <1>9 DEF Next

\* As long as its requests are served one by one, a client is banned only after
\* MaxStrikes refusals in a row with nothing granted between them.
THEOREM BansAreEarned ==
  ASSUME OneByOne
  PROVE  Spec => BanEarned
<1> DEFINE Earned == \A k \in Keys : bans'[k] > bans[k] => seen[k].row = MaxStrikes
<1>1. IInv /\ RInv /\ [Next]_vars => Earned
  BY BansOnlyByStrike, RowStrike
<1>2. IInv /\ RInv /\ [Next]_vars => [Earned]_vars
  BY <1>1
<1> QED BY <1>2, RowAlways, PTL DEF BanEarned, Spec

\* As long as its requests are served one by one, nothing is granted to a client
\* whose ban is neither over nor cleared.
THEOREM BansAreKept ==
  ASSUME OneByOne
  PROVE  Spec => BanHolds
<1> DEFINE Held == \A w \in Workers : Store(w) => seen[request[w].key].until <= clock
<1>1. IInv /\ RInv => Held
  BY RowStore
<1>2. IInv /\ RInv => [Held]_vars
  BY <1>1
<1> QED BY <1>2, RowAlways, PTL DEF BanHolds

=============================================================================
