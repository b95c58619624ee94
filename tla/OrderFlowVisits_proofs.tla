----------------------- MODULE OrderFlowVisits_proofs -----------------------
(***************************************************************************)
(* What TLAPS proves of the visit counter of OrderFlow.  The properties    *)
(* add up a sequence of counter rows, and SumFunction is a recursive       *)
(* function, so the first half establishes what a sum over a finite set    *)
(* is: an induction carried out by looking at a smallest counterexample.   *)
(***************************************************************************)
EXTENDS OrderFlow_proofs, FiniteSetTheorems

(* Sums over finite sets *)

\* The element that SumFunctionOnSet takes out of a set first.
Some(s) == CHOOSE x \in s : TRUE

\* The equation of the recursive function behind SumFunctionOnSet, and a
\* solution of it, if there is one.
SumStep(f, S, g) ==
  [s \in SUBSET S |-> IF s = {} THEN 0 ELSE f[Some(s)] + g[s \ {Some(s)}]]
SumFn(f, S) == CHOOSE g : g = SumStep(f, S, g)
SumDefined(f, S) == SumFn(f, S) = SumStep(f, S, SumFn(f, S))

\* SumFunctionOnSet is the value of that solution at the whole set.
LEMMA SumUnfolds ==
  ASSUME NEW f, NEW S
  PROVE  SumFunctionOnSet(f, S) = SumFn(f, S)[S]
BY DEF SumFunctionOnSet, FoldFunctionOnSet, MapThenFoldSet, SumFn, SumStep, Some

LEMMA SomeElement == ASSUME NEW s, s # {} PROVE Some(s) \in s
BY DEF Some

\* What the equation says of one set.
LEMMA SumStepAt ==
  ASSUME NEW f, NEW S, NEW g, g = SumStep(f, S, g), NEW s, s \subseteq S
  PROVE  /\ s = {} => g[s] = 0
         /\ s # {} => g[s] = f[Some(s)] + g[s \ {Some(s)}]
BY DEF SumStep

\* A set of subsets of a finite set, unless it is empty, has a smallest member.
LEMMA SmallestSubset ==
  ASSUME NEW S, IsFiniteSet(S), NEW B, B \subseteq SUBSET S, B # {}
  PROVE  \E s \in B : \A t \in B : ~(t \subseteq s /\ t # s)
<1>1. B \subseteq FiniteSubsetsOf(S)
  BY FS_Subset DEF FiniteSubsetsOf
<1>2. \E s \in B : \A t \in B : <<t, s>> \notin StrictSubsetOrdering(S)
  BY <1>1, FS_StrictSubsetOrderingWellFounded, WFMin
<1> QED
  BY <1>2 DEF StrictSubsetOrdering

\* Two functions that satisfy the equation agree where both are defined: no
\* smallest set is one on which they differ.
LEMMA SumUnique ==
  ASSUME NEW f, NEW S, IsFiniteSet(S), NEW T, NEW g, g = SumStep(f, S, g),
         NEW h, h = SumStep(f, T, h), NEW s, s \subseteq S, s \subseteq T
  PROVE  g[s] = h[s]
<1> DEFINE B == {t \in SUBSET S : t \subseteq T /\ g[t] # h[t]}
<1>1. SUFFICES ASSUME B # {} PROVE FALSE
  OBVIOUS
<1>2. B \subseteq SUBSET S
  OBVIOUS
<1>3. PICK t \in B : \A u \in B : ~(u \subseteq t /\ u # t)
  <2> HIDE DEF B
  <2> QED
    BY <1>1, <1>2, SmallestSubset
<1>4. t # {}
  BY SumStepAt
<1>5. Some(t) \in t
  BY <1>4, SomeElement
<1>6. g[t \ {Some(t)}] = h[t \ {Some(t)}]
  BY <1>3, <1>5
<1>7. g[t] = f[Some(t)] + g[t \ {Some(t)}] /\ h[t] = f[Some(t)] + h[t \ {Some(t)}]
  BY <1>4, SumStepAt
<1> QED
  BY <1>6, <1>7

\* On the subsets of a finite set the equation has a solution: from those on
\* the proper subsets of a set one is put together on the set.
LEMMA SumExists ==
  ASSUME NEW f, NEW S, IsFiniteSet(S)
  PROVE  SumDefined(f, S)
<1> DEFINE B == {t \in SUBSET S : ~SumDefined(f, t)}
<1>1. SUFFICES ASSUME B # {} PROVE FALSE
  OBVIOUS
<1>2. B \subseteq SUBSET S
  OBVIOUS
<1>3. PICK s \in B : \A u \in B : ~(u \subseteq s /\ u # s)
  <2> HIDE DEF B
  <2> QED
    BY <1>1, <1>2, SmallestSubset
<1> DEFINE G == [t \in SUBSET s |-> IF t = {} THEN 0
                                    ELSE f[Some(t)] + SumFn(f, t \ {Some(t)})[t \ {Some(t)}]]
<1>4. ASSUME NEW t \in SUBSET s, t # s
      PROVE  IsFiniteSet(t) /\ SumDefined(f, t)
  <2>1. t \in SUBSET S /\ t \notin B
    BY <1>3, <1>4
  <2> QED
    BY <2>1, FS_Subset
<1>5. ASSUME NEW t \in SUBSET s, t # {}
      PROVE  t \ {Some(t)} \in SUBSET s /\ t \ {Some(t)} # s /\ t \ {Some(t)} \subseteq t
  BY <1>5, SomeElement
<1>6. ASSUME NEW t \in SUBSET s, t # s
      PROVE  G[t] = SumFn(f, t)[t]
  <2>1. SumFn(f, t) = SumStep(f, t, SumFn(f, t))
    BY <1>4, <1>6 DEF SumDefined
  <2>2. CASE t = {}
    <3>1. G[t] = 0
      BY <2>2
    <3>2. SumFn(f, t)[t] = 0
      BY <2>1, <2>2, SumStepAt
    <3> QED
      BY <3>1, <3>2
  <2>3. CASE t # {}
    <3> DEFINE u == t \ {Some(t)}
    <3>1. u \in SUBSET s /\ u # s /\ u \subseteq t
      BY <1>5, <2>3
    <3>2. SumFn(f, u) = SumStep(f, u, SumFn(f, u)) /\ IsFiniteSet(u)
      BY <1>4, <3>1 DEF SumDefined
    <3>3. SumFn(f, t)[u] = SumFn(f, u)[u]
      BY <2>1, <3>1, <3>2, SumUnique
    <3>4. SumFn(f, t)[t] = f[Some(t)] + SumFn(f, t)[u]
      BY <2>1, <2>3, SumStepAt
    <3>5. G[t] = f[Some(t)] + SumFn(f, u)[u]
      BY <2>3
    <3> QED
      BY <3>3, <3>4, <3>5
  <2> QED
    BY <2>2, <2>3
<1>7. ASSUME NEW t \in SUBSET s
      PROVE  G[t] = IF t = {} THEN 0 ELSE f[Some(t)] + G[t \ {Some(t)}]
  <2>1. CASE t = {}
    BY <2>1
  <2>2. CASE t # {}
    <3>1. G[t] = f[Some(t)] + SumFn(f, t \ {Some(t)})[t \ {Some(t)}]
      BY <2>2
    <3> HIDE DEF G
    <3> QED
      BY <1>5, <1>6, <2>2, <3>1
  <2> QED
    BY <2>1, <2>2
<1>8. G = SumStep(f, s, G)
  <2>1. G = [t \in SUBSET s |-> G[t]]
    OBVIOUS
  <2> HIDE DEF G
  <2> QED
    BY <1>7, <2>1 DEF SumStep
<1>9. SumDefined(f, s)
  <2> HIDE DEF G
  <2> QED
    BY <1>8 DEF SumDefined, SumFn
<1> QED
  BY <1>3, <1>9

\* The sum over nothing, and the sum over a set from which one is taken first.
LEMMA SumChosen ==
  ASSUME NEW f, NEW S, IsFiniteSet(S)
  PROVE  /\ S = {} => SumFunctionOnSet(f, S) = 0
         /\ S # {} => SumFunctionOnSet(f, S) = f[Some(S)] + SumFunctionOnSet(f, S \ {Some(S)})
<1> DEFINE u == S \ {Some(S)}
<1>1. IsFiniteSet(u) /\ u \subseteq S
  BY FS_Subset
<1>2. SumFn(f, S) = SumStep(f, S, SumFn(f, S)) /\ SumFn(f, u) = SumStep(f, u, SumFn(f, u))
  BY <1>1, SumExists DEF SumDefined
<1>3. /\ S = {} => SumFn(f, S)[S] = 0
      /\ S # {} => SumFn(f, S)[S] = f[Some(S)] + SumFn(f, S)[u]
  <2> DEFINE g == SumFn(f, S)
  <2>1. g = SumStep(f, S, g) /\ S \subseteq S
    BY <1>2
  <2> HIDE DEF g
  <2>2. /\ S = {} => g[S] = 0
        /\ S # {} => g[S] = f[Some(S)] + g[S \ {Some(S)}]
    BY <2>1, SumStepAt
  <2> QED
    BY <2>2 DEF g
<1>4. SumFn(f, S)[u] = SumFn(f, u)[u]
  BY <1>1, <1>2, SumUnique
<1>5. SumFunctionOnSet(f, S) = SumFn(f, S)[S] /\ SumFunctionOnSet(f, u) = SumFn(f, u)[u]
  BY SumUnfolds
<1> QED
  BY <1>3, <1>4, <1>5

LEMMA SumEmpty == ASSUME NEW f PROVE SumFunctionOnSet(f, {}) = 0
<1>1. IsFiniteSet({})
  BY FS_EmptySet
<1> QED
  BY <1>1, SumChosen

\* A sum of natural numbers is a natural number.
LEMMA SumType ==
  ASSUME NEW f, NEW S, IsFiniteSet(S), \A x \in S : f[x] \in Nat
  PROVE  SumFunctionOnSet(f, S) \in Nat
<1> DEFINE B == {t \in SUBSET S : SumFunctionOnSet(f, t) \notin Nat}
<1>1. SUFFICES ASSUME B # {} PROVE FALSE
  OBVIOUS
<1>2. B \subseteq SUBSET S
  OBVIOUS
<1>3. PICK t \in B : \A u \in B : ~(u \subseteq t /\ u # t)
  <2> HIDE DEF B
  <2> QED
    BY <1>1, <1>2, SmallestSubset
<1>4. IsFiniteSet(t)
  BY FS_Subset
<1>5. t # {}
  BY SumEmpty
<1>6. Some(t) \in t /\ SumFunctionOnSet(f, t) = f[Some(t)] + SumFunctionOnSet(f, t \ {Some(t)})
  BY <1>4, <1>5, SumChosen, SomeElement
<1>7. t \ {Some(t)} \in SUBSET S /\ t \ {Some(t)} \notin B
  BY <1>3, <1>6
<1> QED
  BY <1>6, <1>7

\* Any element can be taken out of a sum first.
LEMMA SumSplit ==
  ASSUME NEW f, NEW S, IsFiniteSet(S), \A x \in S : f[x] \in Nat, NEW a \in S
  PROVE  SumFunctionOnSet(f, S) = f[a] + SumFunctionOnSet(f, S \ {a})
<1> DEFINE B == {t \in SUBSET S : \E b \in t :
                  SumFunctionOnSet(f, t) # f[b] + SumFunctionOnSet(f, t \ {b})}
<1>1. SUFFICES ASSUME B # {} PROVE FALSE
  OBVIOUS
<1>2. B \subseteq SUBSET S
  OBVIOUS
<1>3. PICK t \in B : \A u \in B : ~(u \subseteq t /\ u # t)
  <2> HIDE DEF B
  <2> QED
    BY <1>1, <1>2, SmallestSubset
<1>4. PICK b \in t : SumFunctionOnSet(f, t) # f[b] + SumFunctionOnSet(f, t \ {b})
  OBVIOUS
<1> DEFINE x == Some(t)
           rest == t \ {x, b}
<1>5. /\ IsFiniteSet(t) /\ IsFiniteSet(rest) /\ rest \subseteq S
      /\ x \in t /\ SumFunctionOnSet(f, t) = f[x] + SumFunctionOnSet(f, t \ {x})
  BY <1>4, FS_Subset, SumChosen, SomeElement
<1>6. x # b
  BY <1>4, <1>5
<1>7. /\ (t \ {x}) \ {b} = rest /\ (t \ {b}) \ {x} = rest
      /\ b \in t \ {x} /\ x \in t \ {b} /\ t \ {x} # t /\ t \ {b} # t
  BY <1>4, <1>5, <1>6
<1>8. t \ {x} \notin B /\ t \ {b} \notin B
  BY <1>3, <1>7
<1>9. /\ SumFunctionOnSet(f, t \ {x}) = f[b] + SumFunctionOnSet(f, rest)
      /\ SumFunctionOnSet(f, t \ {b}) = f[x] + SumFunctionOnSet(f, rest)
  BY <1>7, <1>8
<1>10. SumFunctionOnSet(f, rest) \in Nat /\ f[x] \in Nat /\ f[b] \in Nat
  BY <1>4, <1>5, SumType
<1> QED
  BY <1>4, <1>5, <1>9, <1>10

\* A sum does not exceed one whose terms are all as large.
LEMMA SumMonotonic ==
  ASSUME NEW f, NEW g, NEW S, IsFiniteSet(S),
         \A x \in S : f[x] \in Nat /\ g[x] \in Nat /\ f[x] <= g[x]
  PROVE  SumFunctionOnSet(f, S) <= SumFunctionOnSet(g, S)
<1> DEFINE B == {t \in SUBSET S : ~(SumFunctionOnSet(f, t) <= SumFunctionOnSet(g, t))}
<1>1. SUFFICES ASSUME B # {} PROVE FALSE
  OBVIOUS
<1>2. B \subseteq SUBSET S
  OBVIOUS
<1>3. PICK t \in B : \A u \in B : ~(u \subseteq t /\ u # t)
  <2> HIDE DEF B
  <2> QED
    BY <1>1, <1>2, SmallestSubset
<1> DEFINE x == Some(t)
<1>4. IsFiniteSet(t) /\ IsFiniteSet(t \ {x})
  BY FS_Subset
<1>5. t # {}
  BY SumEmpty
<1>6. /\ x \in t
      /\ SumFunctionOnSet(f, t) = f[x] + SumFunctionOnSet(f, t \ {x})
      /\ SumFunctionOnSet(g, t) = g[x] + SumFunctionOnSet(g, t \ {x})
  BY <1>4, <1>5, SumChosen, SomeElement
<1>7. SumFunctionOnSet(f, t \ {x}) <= SumFunctionOnSet(g, t \ {x})
  BY <1>3, <1>6
<1>8. /\ SumFunctionOnSet(f, t \ {x}) \in Nat /\ SumFunctionOnSet(g, t \ {x}) \in Nat
      /\ f[x] \in Nat /\ g[x] \in Nat /\ f[x] <= g[x]
  BY <1>4, <1>6, SumType
<1>9. ~(SumFunctionOnSet(f, t) <= SumFunctionOnSet(g, t))
  OBVIOUS
<1> HIDE DEF x
<1> QED
  BY <1>6, <1>7, <1>8, <1>9

-----------------------------------------------------------------------------
(* Sums of sequences *)

\* Functions that agree on a set have the same sum over it.
LEMMA SumSame ==
  ASSUME NEW f, NEW g, NEW S, IsFiniteSet(S), \A x \in S : f[x] \in Nat /\ g[x] = f[x]
  PROVE  SumFunctionOnSet(f, S) = SumFunctionOnSet(g, S)
<1>1. SumFunctionOnSet(f, S) <= SumFunctionOnSet(g, S) /\ SumFunctionOnSet(g, S) <= SumFunctionOnSet(f, S)
  BY SumMonotonic
<1>2. SumFunctionOnSet(f, S) \in Nat /\ SumFunctionOnSet(g, S) \in Nat
  BY SumType
<1> QED
  BY <1>1, <1>2

LEMMA SumOfSeq ==
  ASSUME NEW v \in Seq(Nat)
  PROVE  /\ SumFunction(v) = SumFunctionOnSet(v, 1 .. Len(v)) /\ SumFunction(v) \in Nat
         /\ IsFiniteSet(1 .. Len(v)) /\ \A i \in 1 .. Len(v) : v[i] \in Nat
<1>1. DOMAIN v = 1 .. Len(v) /\ Len(v) \in Nat /\ \A i \in 1 .. Len(v) : v[i] \in Nat
  OBVIOUS
<1>2. IsFiniteSet(1 .. Len(v))
  BY <1>1, FS_Interval
<1> QED
  BY <1>1, <1>2, SumType DEF SumFunction

\* One more term adds to the sum.
LEMMA SumAppend ==
  ASSUME NEW v \in Seq(Nat), NEW n \in Nat
  PROVE  SumFunction(Append(v, n)) = SumFunction(v) + n
<1> DEFINE w == Append(v, n)
           k == Len(v) + 1
<1>1. /\ w \in Seq(Nat) /\ Len(w) = k /\ w[k] = n /\ \A i \in 1 .. Len(v) : w[i] = v[i]
      /\ Len(v) \in Nat
  BY AppendProperties
<1> HIDE DEF w
<1>2. (1 .. k) \ {k} = 1 .. Len(v) /\ k \in 1 .. k
  BY <1>1
<1>3. SumFunctionOnSet(w, 1 .. k) = w[k] + SumFunctionOnSet(w, (1 .. k) \ {k})
  BY <1>1, <1>2, SumOfSeq, SumSplit
<1>4. SumFunctionOnSet(v, 1 .. Len(v)) = SumFunctionOnSet(w, 1 .. Len(v))
  <2> DEFINE S == 1 .. Len(v)
  <2>1. IsFiniteSet(S) /\ \A j \in S : v[j] \in Nat /\ w[j] = v[j]
    BY <1>1, SumOfSeq
  <2> HIDE DEF S
  <2>2. SumFunctionOnSet(v, S) = SumFunctionOnSet(w, S)
    BY <2>1, SumSame
  <2> QED
    BY <2>2 DEF S
<1>5. SumFunction(w) = n + SumFunction(v)
  BY <1>1, <1>2, <1>3, <1>4, SumOfSeq
<1> QED
  BY <1>5, SumOfSeq DEF w

\* Replacing a term replaces it in the sum.
LEMMA SumReplace ==
  ASSUME NEW v \in Seq(Nat), NEW i \in 1 .. Len(v), NEW n \in Nat
  PROVE  SumFunction([v EXCEPT ![i] = n]) + v[i] = SumFunction(v) + n
<1> DEFINE w == [v EXCEPT ![i] = n]
           rest == (1 .. Len(v)) \ {i}
<1>1. w \in Seq(Nat) /\ Len(w) = Len(v) /\ w[i] = n /\ \A j \in rest : w[j] = v[j] /\ v[j] \in Nat
  BY ExceptSeq
<1>2. IsFiniteSet(rest) /\ v[i] \in Nat
  BY SumOfSeq, FS_Subset
<1> HIDE DEF w
<1>3. SumFunctionOnSet(w, 1 .. Len(v)) = w[i] + SumFunctionOnSet(w, rest)
  <2> DEFINE S == 1 .. Len(v)
  <2>1. IsFiniteSet(S) /\ i \in S /\ \A j \in S : w[j] \in Nat
    BY <1>1, SumOfSeq
  <2> HIDE DEF S
  <2>2. SumFunctionOnSet(w, S) = w[i] + SumFunctionOnSet(w, S \ {i})
    BY <2>1, SumSplit
  <2> QED
    BY <2>2 DEF S
<1>4. SumFunctionOnSet(v, 1 .. Len(v)) = v[i] + SumFunctionOnSet(v, rest)
  BY SumOfSeq, SumSplit
<1>5. SumFunctionOnSet(v, rest) = SumFunctionOnSet(w, rest) /\ SumFunctionOnSet(v, rest) \in Nat
  <2> HIDE DEF rest
  <2> QED
    BY <1>1, <1>2, SumSame, SumType
<1>6. SumFunction(w) = n + SumFunctionOnSet(v, rest) /\ SumFunction(v) = v[i] + SumFunctionOnSet(v, rest)
  BY <1>1, <1>3, <1>4, <1>5, SumOfSeq
<1> QED
  BY <1>2, <1>5, <1>6 DEF w

LEMMA SumNothing == SumFunction(<<>>) = 0
<1>1. DOMAIN <<>> = {}
  OBVIOUS
<1> QED
  BY <1>1, SumEmpty DEF SumFunction

-----------------------------------------------------------------------------
(* The visit counter *)

\* The visits that were logged can be shared out among the counter's rows, so
\* that each row, and each session about to write one, stays within its share.
WithinShare(w, q) ==
  q.count # 0 => IF q.row = 0 THEN q.count = 1
                 ELSE q.row \in 1 .. Len(w) /\ q.count <= w[q.row] + 1

Shares(w, rows, total, sessions) ==
  /\ w \in Seq(Nat) /\ Len(w) = Len(rows) /\ SumFunction(w) = total
  /\ \A i \in 1 .. Len(rows) : rows[i] <= w[i]
  /\ \A r \in Requests : WithinShare(w, sessions[r])

VInv == \E w \in Seq(Nat) : Shares(w, visits, logged, req)

\* Only LoadVisits prepares a visit in memory.
LEMMA CountsKept ==
  ASSUME IInv, [Next]_vars
  PROVE  \/ /\ UNCHANGED <<visits, logged>>
            /\ \A r \in Requests : \/ req'[r].count = 0
                                   \/ req'[r].count = req[r].count /\ req'[r].row = req[r].row
         \/ \E r \in Requests : LoadVisits(r) \/ Commit(r)
<1> DEFINE Kept == \A r \in Requests : \/ req'[r].count = 0
                                       \/ req'[r].count = req[r].count /\ req'[r].row = req[r].row
<1>0. req \in [Requests -> Session]
  BY DEF IInv, TypeOK
<1>1. ASSUME NEW r \in Requests, NEW q, req' = [req EXCEPT ![r] = q],
             q.count = 0 \/ (q.count = req[r].count /\ q.row = req[r].row)
      PROVE  Kept
  BY <1>0, <1>1
<1>2. Idle.count = 0 /\ \A op, phase, o, new : Loaded(op, phase, o, new).count = 0
  BY DEF Idle, Loaded
<1> HIDE DEF Kept
<1>3. ASSUME NEW r \in Requests, NEW q, Enter(r, q), q.count = 0
      PROVE  Kept
  BY <1>0, <1>3 DEF Enter, Kept
<1>4. ASSUME NEW r \in Requests, Begin(r)
      PROVE  Kept
  <2>1. ASSUME NEW o \in Orders, CreateOrder(r, o)
        PROVE  Kept
    <3>1. \/ UNCHANGED req
          \/ req'[r].count = 0 /\ \A s \in Requests : s # r => req'[s] = req[s]
      BY <1>0, <2>1 DEF CreateOrder, Loaded
    <3> QED
      BY <3>1 DEF Kept
  <2>2. ASSUME NEW o \in Orders,
               \/ StartWash(r, o) \/ EndWash(r, o) \/ LegacyStartWash(r, o) \/ CompleteWash(r, o)
               \/ RedeemOrder(r, o) \/ ChargeOrder(r, o) \/ VerifyPayment(r, o)
        PROVE  Kept
    BY <1>2, <1>3, <2>2
    DEF StartWash, EndWash, LegacyStartWash, CompleteWash, RedeemOrder, ChargeOrder, VerifyPayment
  <2>3. ASSUME NEW c \in Charges, Webhook(r, c)
        PROVE  Kept
    <3> DEFINE delivery(phase, new) == [Loaded("webhook", phase, payment[c].order, new) EXCEPT
                                          !.p = c, !.settled = StatusOf(charge[c])]
    <3>1. \A phase, new : delivery(phase, new).count = 0
      BY DEF Loaded
    <3>2. \E phase, new : Enter(r, delivery(phase, new))
      BY <2>3 DEF Webhook
    <3> HIDE DEF delivery
    <3> QED
      BY <1>3, <3>1, <3>2
  <2>4. ASSUME NEW p \in Receipts, VerifyPos(r, p)
        PROVE  Kept
    BY <1>2, <1>3, <2>4 DEF VerifyPos
  <2>5. CASE LogManualVisit(r)
    <3>1. [Idle EXCEPT !.op = "visit", !.phase = "visit"].count = 0
      BY DEF Idle
    <3> QED
      BY <1>3, <2>5, <3>1 DEF LogManualVisit
  <2> QED
    BY <1>4, <2>1, <2>2, <2>3, <2>4, <2>5 DEF Begin
<1>5. ASSUME NEW r \in Requests, TakeStamp(r)
      PROVE  Kept
  <2>1. PICK new : req' = [req EXCEPT ![r] = [req[r] EXCEPT !.phase = "dirty", !.new = new]]
    BY <1>5 DEF TakeStamp
  <2>2. [req[r] EXCEPT !.phase = "dirty", !.new = new].count = req[r].count
        /\ [req[r] EXCEPT !.phase = "dirty", !.new = new].row = req[r].row
    BY <1>0 DEF Session
  <2> QED
    BY <1>1, <2>1, <2>2
<1>6. ASSUME NEW r \in Requests, NEW c \in Charges, PostCharge(r, c)
      PROVE  Kept
  <2>1. PICK result \in {"successful", "pending", "failed"} :
          LET q == [req[r] EXCEPT !.p = c, !.settled = StatusOf(result)] IN
          req' = [req EXCEPT ![r] =
            IF result = "successful"
            THEN [q EXCEPT !.new = [q.new EXCEPT !.status = "paid"], !.phase = VisitPhase(q.snap)]
            ELSE [q EXCEPT !.phase = "dirty"]]
    BY <1>6 DEF PostCharge
  <2>2. /\ req'[r].count = req[r].count /\ req'[r].row = req[r].row
        /\ \A s \in Requests : s # r => req'[s] = req[s]
    BY <1>0, <2>1 DEF Session
  <2> QED
    BY <2>2 DEF Kept
<1>7. ASSUME NEW r \in Requests, req' = [req EXCEPT ![r] = Idle]
      PROVE  Kept
  BY <1>0, <1>2, <1>7 DEF Kept
<1>8. ASSUME NEW r \in Requests, Continue(r) \/ Abort(r)
      PROVE  Kept \/ LoadVisits(r) \/ Commit(r)
  BY <1>5, <1>6, <1>7, <1>8 DEF Continue, Abort, LoseReply
<1>9. ASSUME UNCHANGED req
      PROVE  Kept
  BY <1>9 DEF Kept
<1>10. ASSUME \/ \E o \in Orders : StartManualWash(o) \/ AssignVehicle(o)
              \/ \E c \in Charges : Settle(c)
              \/ \E p \in Receipts, o \in Orders : PosSale(p, o)
              \/ UNCHANGED vars
       PROVE  UNCHANGED req
  BY <1>10 DEF StartManualWash, AssignVehicle, Settle, PosSale, vars
<1>11. Kept \/ \E r \in Requests : LoadVisits(r) \/ Commit(r)
  BY <1>4, <1>8, <1>9, <1>10 DEF Next
<1> QED
  BY <1>11, VisitsChange DEF Kept

\* The row that a session read and its count are those of the counter then.
LEMMA LoadedCount ==
  ASSUME IInv, NEW r \in Requests, LoadVisits(r)
  PROVE  /\ UNCHANGED <<visits, logged>> /\ \A s \in Requests : s # r => req'[s] = req[s]
         /\ \/ /\ req'[r].row \in 1 .. Len(visits)
               /\ req'[r].count = visits[req'[r].row] + 1
            \/ visits = <<>> /\ req'[r].row = 0 /\ req'[r].count = 1
<1>1. /\ req \in [Requests -> Session] /\ DOMAIN visits = 1 .. Len(visits)
  BY DEF IInv, TypeOK
<1>2. \A i, n : /\ [req[r] EXCEPT !.phase = "dirty", !.row = i, !.count = n].row = i
                /\ [req[r] EXCEPT !.phase = "dirty", !.row = i, !.count = n].count = n
  BY <1>1 DEF Session
<1> DEFINE with(i, n) == [req[r] EXCEPT !.phase = "dirty", !.row = i, !.count = n]
<1>3. UNCHANGED <<visits, logged>> /\ \A s \in Requests : s # r => req'[s] = req[s]
  BY <1>1 DEF LoadVisits, tables, history
<1>4. ASSUME NEW i \in DOMAIN visits, req' = [req EXCEPT ![r] = with(i, visits[i] + 1)]
      PROVE  req'[r].row = i /\ req'[r].count = visits[i] + 1
  BY <1>1, <1>2, <1>4
<1>5. ASSUME req' = [req EXCEPT ![r] = with(0, 1)]
      PROVE  req'[r].row = 0 /\ req'[r].count = 1
  BY <1>1, <1>2, <1>5
<1>6. \/ \E i \in DOMAIN visits : req' = [req EXCEPT ![r] = with(i, visits[i] + 1)]
      \/ visits = <<>> /\ req' = [req EXCEPT ![r] = with(0, 1)]
  BY DEF LoadVisits
<1> HIDE DEF with
<1> QED
  BY <1>1, <1>3, <1>4, <1>5, <1>6

\* The shares survive every step: a new row gets a share of one visit, and a
\* row that is written gets one more.
LEMMA VisitsShared == Spec => []VInv
<1>1. Init => VInv
  <2> SUFFICES ASSUME Init PROVE VInv
    OBVIOUS
  <2>1. <<>> \in Seq(Nat) /\ Len(<<>>) = 0
    OBVIOUS
  <2>2. visits = <<>> /\ logged = 0 /\ \A r \in Requests : req[r].count = 0
    BY DEF Init, Idle
  <2>3. Shares(<<>>, visits, logged, req)
    BY <2>1, <2>2, SumNothing DEF Shares, WithinShare
  <2> QED
    BY <2>1, <2>3 DEF VInv
<1>2. IInv /\ VInv /\ [Next]_vars => VInv'
  <2> SUFFICES ASSUME IInv, VInv, [Next]_vars PROVE VInv'
    OBVIOUS
  <2>1. PICK w \in Seq(Nat) : Shares(w, visits, logged, req)
    BY DEF VInv
  <2>2. /\ visits \in Seq(Nat) /\ Len(visits) \in Nat /\ logged \in Nat /\ req \in [Requests -> Session]
        /\ \A i \in 1 .. Len(visits) : visits[i] \in Nat /\ w[i] \in Nat
    BY <2>1 DEF IInv, TypeOK, Shares
  <2>3. /\ Len(w) = Len(visits) /\ SumFunction(w) = logged
        /\ \A i \in 1 .. Len(visits) : visits[i] <= w[i]
        /\ \A r \in Requests : WithinShare(w, req[r])
    BY <2>1 DEF Shares
  <2>4. ASSUME UNCHANGED <<visits, logged>>,
               \A r \in Requests : \/ req'[r].count = 0
                                   \/ req'[r].count = req[r].count /\ req'[r].row = req[r].row
        PROVE  VInv'
    <3>1. \A r \in Requests : WithinShare(w, req'[r])
      BY <2>3, <2>4 DEF WithinShare
    <3>2. Shares(w, visits', logged', req')
      BY <2>3, <2>4, <3>1 DEF Shares
    <3> QED
      BY <3>2 DEF VInv
  <2>5. ASSUME NEW r \in Requests, LoadVisits(r)
        PROVE  VInv'
    <3>1. /\ UNCHANGED <<visits, logged>> /\ \A s \in Requests : s # r => req'[s] = req[s]
          /\ \/ /\ req'[r].row \in 1 .. Len(visits)
                /\ req'[r].count = visits[req'[r].row] + 1
             \/ visits = <<>> /\ req'[r].row = 0 /\ req'[r].count = 1
      BY <2>5, LoadedCount
    <3>2. WithinShare(w, req'[r])
      BY <2>2, <2>3, <3>1 DEF WithinShare
    <3>3. Shares(w, visits', logged', req')
      BY <2>3, <3>1, <3>2 DEF Shares
    <3> QED
      BY <3>3 DEF VInv
  <2>6. ASSUME NEW r \in Requests, Commit(r)
        PROVE  VInv'
    <3> DEFINE q == req[r]
    <3>1. /\ req' = [req EXCEPT ![r] = Idle] /\ Idle.count = 0
          /\ \A s \in Requests : req[s].count \in Nat /\ req[s].row \in Nat
      BY <2>2, <2>6 DEF Commit, Idle, Session
    <3>2. \A s \in Requests : req'[s].count = 0 \/ req'[s] = req[s]
      BY <2>2, <3>1
    <3>3. CASE q.count = 0
      BY <2>4, <2>6, <3>2, <3>3 DEF Commit
    <3>4. CASE q.count # 0 /\ q.row = 0
      <4>1. /\ visits' = Append(visits, 1) /\ logged' = logged + 1
        BY <2>3, <2>6, <3>4 DEF Commit, WithinShare
      <4>2. PICK x : x = Append(w, 1)
        OBVIOUS
      <4>3. /\ x \in Seq(Nat) /\ Len(x) = Len(visits) + 1
            /\ x[Len(visits) + 1] = 1 /\ \A i \in 1 .. Len(visits) : x[i] = w[i]
        BY <2>2, <2>3, <4>2, AppendProperties
      <4>4. SumFunction(x) = logged'
        BY <2>2, <2>3, <4>1, <4>2, SumAppend
      <4>5. /\ Len(visits') = Len(visits) + 1
            /\ visits'[Len(visits) + 1] = 1 /\ \A i \in 1 .. Len(visits) : visits'[i] = visits[i]
        BY <2>2, <4>1, AppendProperties
      <4>6. \A i \in 1 .. Len(visits') : visits'[i] <= x[i]
        <5>1. SUFFICES ASSUME NEW j \in 1 .. Len(visits')
                       PROVE  visits'[j] <= x[j]
          OBVIOUS
        <5>2. CASE j = Len(visits) + 1
          BY <4>3, <4>5, <5>2
        <5>3. CASE j # Len(visits) + 1
          <6>1. j \in 1 .. Len(visits)
            BY <2>2, <4>5, <5>1, <5>3
          <6> QED
            BY <2>3, <4>3, <4>5, <6>1
        <5> QED
          BY <5>2, <5>3
      <4>7. \A s \in Requests : WithinShare(x, req'[s])
        <5>1. SUFFICES ASSUME NEW s \in Requests, req'[s] = req[s], req[s].count # 0, req[s].row # 0
                       PROVE  req[s].row \in 1 .. Len(x) /\ req[s].count <= x[req[s].row] + 1
          BY <2>3, <3>2 DEF WithinShare
        <5>2. PICK j : j = req[s].row
          OBVIOUS
        <5>3. j \in 1 .. Len(visits) /\ req[s].count <= w[j] + 1
          BY <2>3, <5>1, <5>2 DEF WithinShare
        <5>4. x[j] = w[j] /\ j \in 1 .. Len(x)
          BY <2>2, <4>3, <5>3
        <5> QED
          BY <5>2, <5>3, <5>4
      <4>8. Shares(x, visits', logged', req')
        BY <4>3, <4>4, <4>5, <4>6, <4>7 DEF Shares
      <4> QED
        BY <4>3, <4>8 DEF VInv
    <3>5. CASE q.count # 0 /\ q.row # 0
      <4>1. PICK i : i = q.row
        OBVIOUS
      <4>2. /\ visits' = [visits EXCEPT ![i] = q.count] /\ logged' = logged + 1
            /\ i \in 1 .. Len(visits) /\ q.count <= w[i] + 1 /\ q.count \in Nat
            /\ w[i] \in Nat /\ w[i] + 1 \in Nat
        BY <2>2, <2>3, <2>6, <3>1, <3>5, <4>1 DEF Commit, WithinShare
      <4>3. PICK x : x = [w EXCEPT ![i] = w[i] + 1]
        OBVIOUS
      <4>4. /\ x \in Seq(Nat) /\ Len(x) = Len(visits)
            /\ x[i] = w[i] + 1 /\ \A j \in 1 .. Len(visits) : j # i => x[j] = w[j]
        BY <2>3, <4>2, <4>3, ExceptSeq
      <4>5. SumFunction(x) = logged'
        <5>1. SumFunction(x) + w[i] = SumFunction(w) + (w[i] + 1)
          <6>1. w \in Seq(Nat) /\ i \in 1 .. Len(w) /\ w[i] + 1 \in Nat
            BY <2>3, <4>2
          <6> QED
            BY <4>3, <6>1, SumReplace
        <5>2. SumFunction(x) \in Nat
          BY <4>4, SumOfSeq
        <5> QED
          BY <2>2, <2>3, <4>2, <5>1, <5>2
      <4>6. /\ Len(visits') = Len(visits) /\ visits'[i] = q.count
            /\ \A j \in 1 .. Len(visits) : j # i => visits'[j] = visits[j]
        BY <2>2, <4>2, ExceptSeq
      <4>7. \A j \in 1 .. Len(visits') : visits'[j] <= x[j]
        BY <2>2, <2>3, <4>2, <4>4, <4>6
      <4>8. \A s \in Requests : WithinShare(x, req'[s])
        <5>1. SUFFICES ASSUME NEW s \in Requests, req'[s] = req[s], req[s].count # 0, req[s].row # 0
                       PROVE  req[s].row \in 1 .. Len(x) /\ req[s].count <= x[req[s].row] + 1
          BY <2>3, <3>2 DEF WithinShare
        <5>2. PICK j : j = req[s].row
          OBVIOUS
        <5>3. j \in 1 .. Len(visits) /\ req[s].count <= w[j] + 1 /\ req[s].count \in Nat
          BY <2>3, <3>1, <5>1, <5>2 DEF WithinShare
        <5>4. w[j] \in Nat /\ x[j] \in Nat /\ w[j] <= x[j] /\ j \in 1 .. Len(x)
          <6>1. j = i \/ x[j] = w[j]
            BY <4>4, <5>3
          <6>2. w[j] \in Nat
            BY <2>2, <5>3
          <6> QED
            BY <4>2, <4>4, <5>3, <6>1, <6>2
        <5> QED
          BY <5>2, <5>3, <5>4
      <4>9. Shares(x, visits', logged', req')
        BY <4>4, <4>5, <4>6, <4>7, <4>8 DEF Shares
      <4> QED
        BY <4>4, <4>9 DEF VInv
    <3> QED
      BY <3>3, <3>4, <3>5
  <2> QED
    BY <2>4, <2>5, <2>6, CountsKept
<1> QED
  BY <1>1, <1>2, Invariance, PTL DEF Spec

\* Lost updates and duplicated counter rows lose visits, but whatever the
\* number of rows and of overlapping handlers, the rows add up to no more
\* than was logged (services/visits.py, _log_visit_for_paid_order).
THEOREM NoVisitInvented == Spec => []VisitsNeverInvented
<1>1. IInv /\ VInv => VisitsNeverInvented
  <2> SUFFICES ASSUME IInv, VInv PROVE VisitsNeverInvented
    OBVIOUS
  <2>1. PICK w \in Seq(Nat) : Shares(w, visits, logged, req)
    BY DEF VInv
  <2> DEFINE S == 1 .. Len(visits)
  <2>2. /\ IsFiniteSet(S)
        /\ SumFunction(visits) = SumFunctionOnSet(visits, S)
        /\ SumFunction(w) = SumFunctionOnSet(w, S)
        /\ \A i \in S : visits[i] \in Nat /\ w[i] \in Nat /\ visits[i] <= w[i]
    BY <2>1, SumOfSeq DEF IInv, TypeOK, Shares
  <2> HIDE DEF S
  <2>3. SumFunctionOnSet(visits, S) <= SumFunctionOnSet(w, S)
    BY <2>2, SumMonotonic
  <2> QED
    BY <2>1, <2>2, <2>3 DEF VisitsNeverInvented, Shares
<1> QED
  BY <1>1, Invariance, VisitsShared, PTL

-----------------------------------------------------------------------------
(* One handler at a time: the counter *)

\* There is no counter yet, or it reads what was logged; a session that is
\* about to write it has read it since the last commit.
ExactOK ==
  /\ \/ visits = <<>> /\ logged = 0
     \/ Len(visits) = 1 /\ visits[1] = logged
  /\ \A r \in Requests : req[r].count # 0 => req[r].count = logged + 1 /\ req[r].row = Len(visits)

LEMMA ExactInvariance == ASSUME OneByOne PROVE Spec => []ExactOK
<1>1. Init => ExactOK
  BY DEF Init, ExactOK, Idle
<1>2. IInv /\ ExactOK /\ [Next]_vars => ExactOK'
  <2> SUFFICES ASSUME IInv, ExactOK, [Next]_vars PROVE ExactOK'
    OBVIOUS
  <2>1. visits \in Seq(Nat) /\ logged \in Nat /\ Len(<<>>) = 0
    BY DEF IInv, TypeOK
  <2>2. ASSUME UNCHANGED <<visits, logged>>,
               \A r \in Requests : \/ req'[r].count = 0
                                   \/ req'[r].count = req[r].count /\ req'[r].row = req[r].row
        PROVE  ExactOK'
    BY <2>2 DEF ExactOK
  <2>3. ASSUME NEW r \in Requests, LoadVisits(r)
        PROVE  ExactOK'
    <3>1. /\ UNCHANGED <<visits, logged>>
          /\ \/ /\ req'[r].row \in 1 .. Len(visits)
                /\ req'[r].count = visits[req'[r].row] + 1
             \/ visits = <<>> /\ req'[r].row = 0 /\ req'[r].count = 1
      BY <2>3, LoadedCount
    <3>2. req'[r].count = logged + 1 /\ req'[r].row = Len(visits)
      <4>1. CASE visits = <<>> /\ logged = 0
        BY <2>1, <3>1, <4>1
      <4>2. CASE Len(visits) = 1 /\ visits[1] = logged
        <5>1. visits # <<>>
          BY <2>1, <4>2
        <5>2. req'[r].row = 1
          BY <3>1, <4>2, <5>1
        <5> QED
          BY <3>1, <4>2, <5>1, <5>2
      <4> QED
        BY <4>1, <4>2 DEF ExactOK
    <3>3. \A s \in Requests : s = r
      BY DEF OneByOne
    <3> QED
      BY <3>1, <3>2, <3>3 DEF ExactOK
  <2>4. ASSUME NEW r \in Requests, Commit(r)
        PROVE  ExactOK'
    <3>1. \A s \in Requests : req'[s].count = 0
      BY <2>4 DEF Commit, OneByOne, Idle, IInv, TypeOK
    <3>2. CASE req[r].count = 0
      BY <2>2, <2>4, <3>1, <3>2 DEF Commit
    <3>3. CASE req[r].count # 0
      <4>1. req[r].count = logged + 1 /\ req[r].row = Len(visits) /\ logged' = logged + 1
        BY <2>4, <3>3 DEF ExactOK, Commit
      <4>2. CASE visits = <<>>
        <5>1. visits' = Append(visits, logged + 1)
          BY <2>1, <2>4, <3>3, <4>1, <4>2 DEF Commit
        <5>2. Len(visits') = 1 /\ visits'[1] = logged + 1
          BY <2>1, <4>2, <5>1
        <5> QED
          BY <3>1, <4>1, <5>2 DEF ExactOK
      <4>3. CASE Len(visits) = 1
        <5>1. visits' = [visits EXCEPT ![1] = logged + 1]
          BY <2>4, <3>3, <4>1, <4>3 DEF Commit
        <5>2. Len(visits') = 1 /\ visits'[1] = logged + 1
          BY <2>1, <4>3, <5>1, ExceptSeq
        <5> QED
          BY <3>1, <4>1, <5>2 DEF ExactOK
      <4> QED
        BY <4>2, <4>3 DEF ExactOK
    <3> QED
      BY <3>2, <3>3
  <2> QED
    BY <2>2, <2>3, <2>4, CountsKept
<1> QED
  BY <1>1, <1>2, Invariance, PTL DEF Spec

\* As long as requests do not overlap, one counter holds every visit logged.
THEOREM VisitsAreExact == ASSUME OneByOne PROVE Spec => []VisitsExact
<1>1. IInv /\ ExactOK => VisitsExact
  <2> SUFFICES ASSUME IInv, ExactOK PROVE VisitsExact
    OBVIOUS
  <2>1. CASE visits = <<>> /\ logged = 0
    BY <2>1, SumNothing DEF VisitsExact
  <2>2. CASE Len(visits) = 1 /\ visits[1] = logged
    <3>1. visits = Append(<<>>, logged) /\ logged \in Nat /\ <<>> \in Seq(Nat)
      BY <2>2 DEF IInv, TypeOK
    <3>2. SumFunction(visits) = 0 + logged
      BY <3>1, SumAppend, SumNothing
    <3> QED
      BY <2>2, <3>1, <3>2 DEF VisitsExact
  <2> QED
    BY <2>1, <2>2 DEF ExactOK
<1> QED
  BY <1>1, Invariance, ExactInvariance, PTL
=============================================================================
