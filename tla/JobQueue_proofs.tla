--------------------------- MODULE JobQueue_proofs ---------------------------
(***************************************************************************)
(* What TLAPS proves of JobQueue, for any number of jobs and threads and   *)
(* any value of the bounds.                                                *)
(***************************************************************************)
EXTENDS JobQueue, SequenceTheorems, FiniteSetTheorems, WellFoundedInduction, TLAPS

-----------------------------------------------------------------------------
(* Lemmas about sequences *)

Once(s, j) == \A i, k \in DOMAIN s : s[i] = j /\ s[k] = j => i = k

LEMMA InToSet ==
  ASSUME NEW S, NEW s \in Seq(S)
  PROVE  /\ ToSet(s) = {s[i] : i \in 1 .. Len(s)} /\ ToSet(s) \subseteq S
         /\ DOMAIN s = 1 .. Len(s) /\ Len(s) \in Nat
BY LenProperties, ElementOfSeq DEF ToSet

LEMMA AppendSet ==
  ASSUME NEW S, NEW s \in Seq(S), NEW e \in S
  PROVE  /\ Append(s, e) \in Seq(S) /\ ToSet(Append(s, e)) = ToSet(s) \cup {e}
         /\ \A j : Once(s, j) /\ (j = e => e \notin ToSet(s)) => Once(Append(s, e), j)
<1> DEFINE a == Append(s, e)
<1>1. /\ a \in Seq(S) /\ Len(a) = Len(s) + 1 /\ Len(s) \in Nat
      /\ DOMAIN a = 1 .. Len(s) + 1 /\ DOMAIN s = 1 .. Len(s)
      /\ \A i \in 1 .. Len(s) : a[i] = s[i]
      /\ a[Len(s) + 1] = e
  BY AppendProperties, LenProperties
<1> HIDE DEF a
<1>2. 1 .. Len(s) + 1 = 1 .. Len(s) \cup {Len(s) + 1}
  BY <1>1
<1>3. ToSet(a) = ToSet(s) \cup {e}
  BY <1>1, <1>2 DEF ToSet
<1>4. ASSUME NEW j, Once(s, j), j = e => e \notin ToSet(s) PROVE Once(a, j)
  BY <1>1, <1>2, <1>4 DEF Once, ToSet
<1> QED BY <1>1, <1>3, <1>4 DEF a

LEMMA TailSet ==
  ASSUME NEW S, NEW s \in Seq(S), s # <<>>
  PROVE  /\ Head(s) \in S /\ Tail(s) \in Seq(S) /\ Len(Tail(s)) = Len(s) - 1
         /\ ToSet(s) = ToSet(Tail(s)) \cup {Head(s)}
         /\ \A j : Once(s, j) => Once(Tail(s), j)
         /\ Once(s, Head(s)) => Head(s) \notin ToSet(Tail(s))
<1> DEFINE t == Tail(s)
<1>1. /\ Head(s) \in S /\ t \in Seq(S) /\ Len(t) = Len(s) - 1 /\ Len(s) \in Nat \ {0}
      /\ \A i \in 1 .. Len(t) : t[i] = s[i + 1]
      /\ DOMAIN s = 1 .. Len(s) /\ DOMAIN t = 1 .. Len(s) - 1
  BY HeadTailProperties, LenProperties, EmptySeq
<1>2. Head(s) = s[1]
  OBVIOUS
<1> HIDE DEF t
<1>3. /\ \A i \in DOMAIN t : i + 1 \in DOMAIN s /\ i + 1 # 1
      /\ \A i \in DOMAIN s : i # 1 => i - 1 \in DOMAIN t /\ t[i - 1] = s[i]
      /\ 1 \in DOMAIN s
  BY <1>1
<1>4. ToSet(s) = ToSet(t) \cup {Head(s)}
  BY <1>1, <1>2, <1>3 DEF ToSet
<1>5. ASSUME NEW j, Once(s, j) PROVE Once(t, j)
  <2> SUFFICES ASSUME NEW i \in DOMAIN t, NEW k \in DOMAIN t, t[i] = j, t[k] = j
               PROVE  i = k
    BY DEF Once
  <2>1. s[i + 1] = j /\ s[k + 1] = j /\ i + 1 \in DOMAIN s /\ k + 1 \in DOMAIN s
    BY <1>1, <1>3
  <2>2. i + 1 = k + 1
    BY <2>1, <1>5 DEF Once
  <2> QED BY <2>2, <1>1
<1>6. ASSUME Once(s, Head(s)), Head(s) \in ToSet(t) PROVE FALSE
  <2>1. PICK i \in DOMAIN t : t[i] = Head(s)
    BY <1>6 DEF ToSet
  <2>2. s[i + 1] = Head(s) /\ i + 1 \in DOMAIN s /\ i + 1 # 1
    BY <2>1, <1>1, <1>3
  <2> QED BY <2>2, <1>2, <1>3, <1>6 DEF Once
<1> QED BY <1>1, <1>4, <1>5, <1>6 DEF t

LEMMA ConcatSet ==
  ASSUME NEW S, NEW s \in Seq(S), NEW n \in Seq(S)
  PROVE  /\ s \o n \in Seq(S) /\ ToSet(s \o n) = ToSet(s) \cup ToSet(n)
         /\ \A j : Once(s, j) /\ Once(n, j) /\ (j \in ToSet(s) => j \notin ToSet(n))
                   => Once(s \o n, j)
<1> DEFINE c == s \o n
<1>1. /\ c \in Seq(S) /\ Len(s) \in Nat /\ Len(n) \in Nat
      /\ DOMAIN c = 1 .. Len(s) + Len(n)
      /\ DOMAIN s = 1 .. Len(s) /\ DOMAIN n = 1 .. Len(n)
      /\ \A i \in 1 .. Len(s) + Len(n) : c[i] = IF i <= Len(s) THEN s[i] ELSE n[i - Len(s)]
  BY ConcatProperties, LenProperties
<1> HIDE DEF c
<1>2. /\ \A i \in DOMAIN s : i \in DOMAIN c /\ c[i] = s[i]
      /\ \A i \in DOMAIN n : i + Len(s) \in DOMAIN c /\ c[i + Len(s)] = n[i]
      /\ \A i \in DOMAIN c : \/ i \in DOMAIN s /\ c[i] = s[i]
                             \/ i - Len(s) \in DOMAIN n /\ c[i] = n[i - Len(s)]
  <2>1. \A i \in 1 .. Len(n) : /\ i + Len(s) \in 1 .. Len(s) + Len(n) /\ ~(i + Len(s) <= Len(s))
                               /\ (i + Len(s)) - Len(s) = i
    BY <1>1
  <2>2. \A i \in 1 .. Len(s) : i \in 1 .. Len(s) + Len(n) /\ i <= Len(s)
    BY <1>1
  <2>3. \A i \in 1 .. Len(s) + Len(n) :
          \/ i \in 1 .. Len(s) /\ i <= Len(s)
          \/ i - Len(s) \in 1 .. Len(n) /\ ~(i <= Len(s))
    BY <1>1
  <2>4. \A i \in DOMAIN s : i \in DOMAIN c /\ c[i] = s[i]
    BY <1>1, <2>2
  <2>5. ASSUME NEW i \in DOMAIN n PROVE i + Len(s) \in DOMAIN c /\ c[i + Len(s)] = n[i]
    <3> DEFINE k == i + Len(s)
    <3>1. k \in 1 .. Len(s) + Len(n) /\ ~(k <= Len(s)) /\ k - Len(s) = i
      BY <1>1, <2>1
    <3> HIDE DEF k
    <3>2. k \in DOMAIN c /\ c[k] = n[i]
      BY <1>1, <3>1
    <3> QED BY <3>2 DEF k
  <2>6. \A i \in DOMAIN c : \/ i \in DOMAIN s /\ c[i] = s[i]
                            \/ i - Len(s) \in DOMAIN n /\ c[i] = n[i - Len(s)]
    BY <1>1, <2>3
  <2> QED BY <2>4, <2>5, <2>6
<1>3. ToSet(c) = ToSet(s) \cup ToSet(n)
  <2>1. ToSet(c) \subseteq ToSet(s) \cup ToSet(n)
    BY <1>2 DEF ToSet
  <2>2. ToSet(s) \subseteq ToSet(c)
    BY <1>2 DEF ToSet
  <2>3. ToSet(n) \subseteq ToSet(c)
    BY <1>2 DEF ToSet
  <2> QED BY <2>1, <2>2, <2>3
<1>4. ASSUME NEW j, Once(s, j), Once(n, j), j \in ToSet(s) => j \notin ToSet(n)
      PROVE  Once(c, j)
  <2> SUFFICES ASSUME NEW i \in DOMAIN c, NEW k \in DOMAIN c, c[i] = j, c[k] = j
               PROVE  i = k
    BY DEF Once
  <2>1. CASE i \in DOMAIN s /\ c[i] = s[i] /\ k \in DOMAIN s /\ c[k] = s[k]
    BY <2>1, <1>4 DEF Once
  <2>2. CASE i - Len(s) \in DOMAIN n /\ c[i] = n[i - Len(s)]
             /\ k - Len(s) \in DOMAIN n /\ c[k] = n[k - Len(s)]
    <3>1. i - Len(s) = k - Len(s)
      BY <2>2, <1>4 DEF Once
    <3> QED BY <3>1, <1>1
  <2>3. CASE i \in DOMAIN s /\ c[i] = s[i] /\ k - Len(s) \in DOMAIN n /\ c[k] = n[k - Len(s)]
    BY <2>3, <1>4 DEF ToSet
  <2>4. CASE k \in DOMAIN s /\ c[k] = s[k] /\ i - Len(s) \in DOMAIN n /\ c[i] = n[i - Len(s)]
    BY <2>4, <1>4 DEF ToSet
  <2> QED BY <1>2, <2>1, <2>2, <2>3, <2>4
<1> QED BY <1>1, <1>3, <1>4 DEF c

\* An ordering of a finite set holds all of it, and each element once.
LEMMA OrderingSet ==
  ASSUME NEW S, IsFiniteSet(S), NEW s \in SetToSeqs(S)
  PROVE  s \in Seq(S) /\ ToSet(s) = S /\ \A j : Once(s, j)
<1> DEFINE n == Cardinality(S)
<1>1. n \in Nat
  BY FS_CardinalityType
<1>2. s \in [1 .. n -> S] /\ \A i, j \in 1 .. n : i # j => s[i] # s[j]
  BY DEF SetToSeqs
<1> HIDE DEF n
<1>3. s \in Seq(S)
  BY <1>1, <1>2, SeqDef
<1>4. \A j : Once(s, j)
  BY <1>2 DEF Once
<1>5. ToSet(s) \subseteq S
  BY <1>2 DEF ToSet
<1>6. s \in Bijection(1 .. n, ToSet(s))
  BY <1>2 DEF ToSet, Bijection, Injection, Surjection, IsInjective
<1>7. IsFiniteSet(1 .. n) /\ Cardinality(1 .. n) = n
  BY <1>1, FS_Interval
<1>8. Cardinality(ToSet(s)) = n
  BY <1>6, <1>7, FS_Bijection DEF ExistsBijection
<1>9. ToSet(s) = S
  BY <1>5, <1>8, FS_Subset DEF n
<1> QED BY <1>3, <1>4, <1>9

\* Whatever remove takes off the queue is the job it was asked for.
LEMMA RemoveSet ==
  ASSUME NEW S, NEW s \in Seq(S), NEW e
  PROVE  LET t == RemoveFirst(s, e) IN
         /\ t \in Seq(S) /\ ToSet(t) \subseteq ToSet(s) /\ ToSet(s) \ {e} \subseteq ToSet(t)
         /\ \A j : Once(s, j) => Once(t, j)
<1> DEFINE t == RemoveFirst(s, e)
           I == {i \in 1 .. Len(s) : s[i] = e}
<1>1. CASE I = {}
  <2>1. ~ \E i \in 1 .. Len(s) : s[i] = e
    BY <1>1
  <2>2. t = s
    BY <2>1 DEF RemoveFirst
  <2> QED BY <2>2
<1>2. CASE I # {}
  <2>1. SelectInSeq(s, LAMBDA v : v = e) = Min(I)
    BY <1>2 DEF SelectInSeq
  <2>2. \E m \in I : \A i \in I : m <= i
    <3>1. Len(s) \in Nat /\ I \subseteq Nat
      BY LenProperties
    <3>2. PICK m \in I : \A i \in I : ~(<<i, m>> \in OpToRel(<, Nat))
      BY <1>2, <3>1, NatLessThanWellFounded, WFMin
    <3>3. ASSUME NEW i \in I PROVE m <= i
      <4>1. i \in Nat /\ m \in Nat
        BY <3>1
      <4>2. <<i, m>> \in Nat \X Nat /\ <<i, m>>[1] = i /\ <<i, m>>[2] = m
        BY <4>1
      <4>3. ~(i < m)
        BY <3>2, <4>2 DEF OpToRel
      <4> QED BY <4>1, <4>3
    <3> QED BY <3>3
  <2> DEFINE m == Min(I)
             a == SubSeq(s, 1, m - 1)
             b == SubSeq(s, m + 1, Len(s))
  <2>3. m \in I
    BY <2>2 DEF Min
  <2>4. t = a \o b
    BY <1>2, <2>1 DEF RemoveFirst, RemoveAt
  <2>5. m \in 1 .. Len(s) /\ s[m] = e /\ Len(s) \in Nat /\ DOMAIN s = 1 .. Len(s)
    BY <2>3, LenProperties
  <2> HIDE DEF t, m, I
  <2>6. /\ a \in Seq(S) /\ Len(a) = m - 1 /\ \A i \in 1 .. m - 1 : a[i] = s[i]
    <3>1. \A i \in 1 .. m - 1 : s[i] \in S
      BY <2>5, ElementOfSeq
    <3>2. /\ 1 \in Int /\ m - 1 \in Int /\ (m - 1) - 1 + 1 = m - 1
          /\ \A i \in 1 .. m - 1 : 1 + i - 1 = i
      BY <2>5
    <3> QED BY <3>1, <3>2, <2>5, SubSeqProperties
  <2>7. /\ b \in Seq(S) /\ Len(b) = Len(s) - m /\ \A i \in 1 .. Len(s) - m : b[i] = s[i + m]
    <3>1. \A i \in m + 1 .. Len(s) : s[i] \in S
      BY <2>5, ElementOfSeq
    <3>2. m + 1 \in Int /\ Len(s) \in Int
      BY <2>5
    <3>3. /\ b \in Seq(S)
          /\ Len(b) = IF m + 1 <= Len(s) THEN Len(s) - (m + 1) + 1 ELSE 0
          /\ \A i \in 1 .. Len(s) - (m + 1) + 1 : b[i] = s[(m + 1) + i - 1]
      <4> HIDE <2>5
      <4> QED BY <3>1, <3>2, SubSeqProperties
    <3>4. Len(s) - (m + 1) + 1 = Len(s) - m /\ (~(m + 1 <= Len(s)) => Len(s) - m = 0)
      <4>1. ASSUME NEW n \in Nat, NEW k \in 1 .. n
            PROVE  n - (k + 1) + 1 = n - k /\ (~(k + 1 <= n) => n - k = 0)
        OBVIOUS
      <4>2. Len(s) \in Nat /\ m \in 1 .. Len(s)
        BY <2>5
      <4> QED BY <4>1, <4>2
    <3>5. ASSUME NEW i \in 1 .. Len(s) - m PROVE b[i] = s[i + m]
      <4>1. (m + 1) + i - 1 = i + m
        BY <2>5
      <4> QED BY <3>3, <3>4, <4>1
    <3> HIDE DEF b
    <3> QED BY <3>3, <3>4, <3>5
  <2> HIDE DEF a, b
  <2>8. /\ t \in Seq(S) /\ DOMAIN t = 1 .. Len(s) - 1
        /\ \A i \in 1 .. Len(s) - 1 : t[i] = IF i < m THEN s[i] ELSE s[i + 1]
    <3>0. /\ a \o b \in Seq(S) /\ Len(a \o b) = Len(a) + Len(b)
          /\ \A i \in 1 .. Len(a) + Len(b) :
               (a \o b)[i] = IF i <= Len(a) THEN a[i] ELSE b[i - Len(a)]
      BY <2>6, <2>7, ConcatProperties
    <3>1. /\ a \o b \in Seq(S) /\ Len(a \o b) = (m - 1) + (Len(s) - m)
          /\ \A i \in 1 .. (m - 1) + (Len(s) - m) :
               (a \o b)[i] = IF i <= m - 1 THEN a[i] ELSE b[i - (m - 1)]
      BY <2>6, <2>7, <3>0
    <3>2. (m - 1) + (Len(s) - m) = Len(s) - 1
      BY <2>5
    <3>3. \A i \in 1 .. Len(s) - 1 :
            IF i <= m - 1 THEN i < m /\ i \in 1 .. m - 1
            ELSE ~(i < m) /\ i - (m - 1) \in 1 .. Len(s) - m /\ (i - (m - 1)) + m = i + 1
      BY <2>5
    <3>4. t \in Seq(S) /\ DOMAIN t = 1 .. Len(s) - 1
      BY <2>4, <3>1, <3>2, LenProperties
    <3>5. ASSUME NEW i \in 1 .. Len(s) - 1 PROVE t[i] = IF i < m THEN s[i] ELSE s[i + 1]
      <4>1. CASE i <= m - 1
        BY <4>1, <2>4, <2>6, <3>1, <3>2, <3>3
      <4>2. CASE ~(i <= m - 1)
        <5> DEFINE k == i - (m - 1)
        <5>1. ~(i < m) /\ k \in 1 .. Len(s) - m /\ k + m = i + 1
          BY <3>3, <4>2
        <5>2. t[i] = b[k]
          BY <4>2, <2>4, <3>1, <3>2
        <5> HIDE DEF k
        <5> QED BY <5>1, <5>2, <2>7
      <4> QED BY <4>1, <4>2
    <3> QED BY <3>4, <3>5
  <2> DEFINE from(i) == IF i < m THEN i ELSE i + 1
             to(i) == IF i < m THEN i ELSE i - 1
  <2>9. /\ \A i \in DOMAIN t : from(i) \in DOMAIN s /\ t[i] = s[from(i)]
        /\ \A i \in DOMAIN t, k \in DOMAIN t : from(i) = from(k) => i = k
    <3>1. \A i \in DOMAIN t : from(i) \in 1 .. Len(s)
      BY <2>5, <2>8
    <3>2. \A i \in DOMAIN t : t[i] = s[from(i)]
      BY <2>8
    <3>3. \A i \in DOMAIN t, k \in DOMAIN t : from(i) = from(k) => i = k
      BY <2>5, <2>8
    <3> QED BY <2>5, <3>1, <3>2, <3>3
  <2>10. \A i \in DOMAIN s : i # m => to(i) \in DOMAIN t /\ from(to(i)) = i
    BY <2>5, <2>8
  <2> HIDE DEF from, to
  <2>11. ToSet(t) \subseteq ToSet(s)
    BY <2>9 DEF ToSet
  <2>12. ToSet(s) \ {e} \subseteq ToSet(t)
    <3> SUFFICES ASSUME NEW x \in ToSet(s), x # e PROVE x \in ToSet(t)
      OBVIOUS
    <3>1. PICK i \in DOMAIN s : s[i] = x
      BY DEF ToSet
    <3>2. to(i) \in DOMAIN t /\ t[to(i)] = x
      BY <3>1, <2>5, <2>9, <2>10
    <3> QED BY <3>2 DEF ToSet
  <2>13. ASSUME NEW j, Once(s, j) PROVE Once(t, j)
    BY <2>9, <2>13 DEF Once
  <2> QED BY <2>8, <2>11, <2>12, <2>13 DEF t
<1> QED BY <1>1, <1>2

-----------------------------------------------------------------------------
(* The inductive invariant *)

\* A thread has a job in every phase but two; it checks only what was run by id,
\* the record it is about to append is new and its own, and what it has executed
\* and is about to bury has a record.
ThreadsOK ==
  \A t \in Threads :
    /\ thread[t].job = NoJob <=> thread[t].phase \in {"idle", "loop"}
    /\ thread[t].phase = "check" => thread[t].job \in named
    /\ thread[t].phase = "bury" => Known(thread[t].job)
    /\ thread[t].phase = "append" =>
         /\ ~Known(thread[t].job)
         /\ \A u \in Threads : Holds(u, thread[t].job) => u = t

\* An id without a record is nowhere but in the hands of who made it.
UnknownOK ==
  \A j \in Jobs : ~Known(j) =>
    /\ j \notin ToSet(queue) /\ j \notin scheduled /\ j \notin ToSet(dead)
    /\ \A t \in Threads : Holds(t, j) => thread[t].phase = "append"

\* What keeps a job from being forgotten, by its status: who will take it up is
\* about to look at the status, or to write it.
Pending ==
  \A j \in Jobs :
    /\ jobs[j].status = "queued" =>
         j \in ToSet(queue) \/ \E t \in Threads : /\ thread[t].job = j
                                                  /\ thread[t].phase \in {"check", "start"}
    /\ jobs[j].status = "running" =>
         \E t \in Threads : thread[t].job = j /\ thread[t].phase = "run"
    /\ Again(j) =>
         j \in scheduled \/ \E t \in Threads : thread[t].job = j /\ thread[t].phase = "file"

\* A job that is to run has not had all of its attempts.
Tries ==
  \A j \in Jobs \ named : ~jobs[j].every =>
    /\ jobs[j].attempts <= jobs[j].retries + 1
    /\ Waiting(j) => jobs[j].attempts <= jobs[j].retries
    /\ \A t \in Threads : thread[t].job = j /\ thread[t].phase = "start" =>
         jobs[j].attempts <= jobs[j].retries

\* What was never run by id has the status its place stands for: a thread that
\* reads the record late sees where the job is.
StatusOK ==
  \A j \in Jobs \ named :
    /\ j \in ToSet(queue) => jobs[j].status = "queued"
    /\ j \in scheduled => Again(j)
    /\ \A t \in Threads : thread[t].job = j =>
         /\ thread[t].phase = "start" => jobs[j].status = "queued"
         /\ thread[t].phase = "run" => jobs[j].status = "running"

DeadOK ==
  \A j \in ToSet(dead) \ named :
    /\ Exhausted(j) /\ ~Waiting(j)
    /\ \A t \in Threads : Holds(t, j) => thread[t].phase = "file"

IInv == TypeOK /\ ThreadsOK /\ UnknownOK /\ Pending /\ OnePlace /\ Tries /\ StatusOK /\ DeadOK

LEMMA InitIInv == Init => IInv
<1> SUFFICES ASSUME Init PROVE IInv
  OBVIOUS
<1>1. ToSet(<<>>) = {} /\ <<>> \in Seq(Jobs) /\ Len(<<>>) = 0 /\ DOMAIN (<<>>) = {}
  BY DEF ToSet
<1>2. NoRecord \in Record /\ Idle \in Session
  BY DEF NoRecord, Record, Idle, Session
<1>3. TypeOK
  BY <1>1, <1>2, JobQueueAssumption DEF Init, TypeOK
<1>4. /\ \A j \in Jobs : jobs[j].status = "none" /\ j \notin ToSet(queue)
      /\ \A t \in Threads : thread[t].phase = "idle" /\ thread[t].job = NoJob
      /\ queue = <<>> /\ dead = <<>> /\ scheduled = {} /\ ToSet(dead) = {}
      /\ \A j \in Jobs : jobs[j].attempts = 0 /\ jobs[j].retries = 0
  BY <1>1 DEF Init, NoRecord, Idle
<1>5. ThreadsOK /\ UnknownOK
  BY <1>4 DEF ThreadsOK, UnknownOK, Holds
<1>6. Pending
  BY <1>4 DEF Pending, Again, MayRetry
<1>7. OnePlace
  BY <1>1, <1>4 DEF OnePlace, Holds, Held
<1>8. Tries
  BY <1>4 DEF Tries, Waiting
<1>9. DeadOK
  BY <1>4 DEF DeadOK
<1>10. StatusOK
  BY <1>4 DEF StatusOK
<1> QED BY <1>3, <1>5, <1>6, <1>7, <1>8, <1>9, <1>10 DEF IInv

-----------------------------------------------------------------------------
(* One lemma per step *)

LEMMA RetriesNat == Retries \cup {0} \subseteq Nat
<1>1. Retries \subseteq Nat
  BY JobQueueAssumption
<1> QED BY <1>1

LEMMA RecordFacts ==
  ASSUME NEW r \in Record
  PROVE  r.attempts \in Nat /\ r.retries \in Nat /\ r.every \in BOOLEAN
<1>1. r.attempts \in Nat /\ r.retries \in Retries \cup {0} /\ r.every \in BOOLEAN
  BY DEF Record
<1> HIDE DEF Record
<1>2. r.retries \in Nat
  BY ONLY <1>1, RetriesNat
<1> QED BY <1>1, <1>2

\* A thread that goes on keeps the job it holds.
LEMMA GotoPhase ==
  ASSUME TypeOK, NEW t \in Threads, NEW phase \in {"start", "run", "file", "bury"}, Goto(t, phase)
  PROVE  /\ \A u \in Threads : u # t => thread'[u] = thread[u]
         /\ thread' \in [Threads -> Session]
         /\ thread'[t].phase = phase /\ thread'[t].job = thread[t].job
<1> DEFINE new == [thread[t] EXCEPT !.phase = phase]
<1>1. thread \in [Threads -> Session] /\ thread[t] \in Session
  BY DEF TypeOK
<1>2. new \in Session /\ new.phase = phase /\ new.job = thread[t].job
  BY <1>1 DEF Session
<1>3. thread' = [thread EXCEPT ![t] = new]
  BY DEF Goto
<1> HIDE DEF new
<1> QED BY <1>1, <1>2, <1>3

LEMMA EnqueueStep ==
  ASSUME IInv, NEW t \in Threads, NEW retries \in Retries \cup {0}, NEW every \in BOOLEAN,
         Enqueue(t, retries, every)
  PROVE  IInv'
<1> USE DEF IInv
<1>1. PICK j \in Jobs :
        /\ ~Known(j) /\ \A u \in Threads : ~Holds(u, j)
        /\ thread' = [thread EXCEPT ![t] = [phase |-> "append", job |-> j, looping |-> FALSE,
                                            retries |-> retries, every |-> every]]
  BY DEF Enqueue
<1>2. /\ UNCHANGED <<jobs, queue, scheduled, due, dead, named>>
      /\ thread[t].phase = "idle" /\ j # NoJob
  BY JobQueueAssumption DEF Enqueue
<1>3. TypeOK'
  BY <1>1, <1>2 DEF TypeOK, Session
<1>4. /\ \A u \in Threads : u # t => thread'[u] = thread[u]
      /\ thread'[t].phase = "append" /\ thread'[t].job = j
  BY <1>1 DEF TypeOK
<1>5. ThreadsOK'
  BY <1>1, <1>2, <1>4 DEF ThreadsOK, Known, Holds
<1>6. UnknownOK'
  BY <1>1, <1>2, <1>4 DEF UnknownOK, Known, Holds
<1>7. Pending'
  BY <1>1, <1>2, <1>4 DEF Pending, Again, MayRetry
<1>8. OnePlace'
  BY <1>1, <1>2, <1>4 DEF OnePlace, UnknownOK, Known, Holds, Held
<1>9. Tries'
  BY <1>1, <1>2, <1>4 DEF Tries, Waiting
<1>10. DeadOK'
  BY <1>1, <1>2, <1>4 DEF DeadOK, Exhausted, Known, Waiting, Holds
<1>11. StatusOK'
  BY <1>1, <1>2, <1>4 DEF StatusOK, Again, MayRetry
<1> QED BY <1>3, <1>5, <1>6, <1>7, <1>8, <1>9, <1>10, <1>11

LEMMA InsertStep ==
  ASSUME IInv, NEW t \in Threads, Insert(t)
  PROVE  IInv'
<1> USE DEF IInv
<1> DEFINE j == thread[t].job
           new == [status |-> "queued", attempts |-> 0,
                   retries |-> thread[t].retries, every |-> thread[t].every]
<1>1. /\ thread[t].phase = "append" /\ j \in Jobs /\ j # NoJob
      /\ jobs' = [jobs EXCEPT ![j] = new]
      /\ queue' = Append(queue, j) /\ thread' = [thread EXCEPT ![t] = Idle]
      /\ UNCHANGED <<scheduled, due, dead, named>>
  BY DEF Insert, ThreadsOK, TypeOK, Session
<1>2. /\ queue' \in Seq(Jobs) /\ ToSet(queue') = ToSet(queue) \cup {j}
      /\ \A x : Once(queue, x) /\ (x = j => j \notin ToSet(queue)) => Once(queue', x)
  BY <1>1, AppendSet DEF TypeOK
<1>3. /\ jobs[j].status = "none" /\ j \notin ToSet(queue) /\ j \notin scheduled /\ j \notin ToSet(dead)
      /\ \A u \in Threads : thread[u].job = j => u = t
  <2>1. \A u \in Threads : thread[u].job = j => thread[u].phase \notin {"idle", "loop", "bury"}
    BY <1>1 DEF ThreadsOK, Known
  <2> QED BY <1>1, <2>1 DEF ThreadsOK, UnknownOK, Known, Holds
<1>4. new \in Record /\ Idle \in Session /\ Idle.phase = "idle" /\ Idle.job = NoJob
  BY DEF Record, Session, Idle, TypeOK
<1>5. TypeOK'
  BY <1>1, <1>2, <1>4 DEF TypeOK
<1>6. /\ \A u \in Threads : u # t => thread'[u] = thread[u]
      /\ thread'[t].phase = "idle" /\ thread'[t].job = NoJob
      /\ \A x \in Jobs : x # j => jobs'[x] = jobs[x]
      /\ jobs'[j].status = "queued" /\ jobs'[j].attempts = 0 /\ jobs'[j].retries \in Nat
  <2>1. thread[t].retries \in Nat
    <3>1. thread[t] \in Session
      BY DEF TypeOK
    <3>2. thread[t].retries \in Retries \cup {0}
      BY <3>1 DEF Session
    <3> QED BY <3>2, RetriesNat
  <2>2. jobs'[j] = new /\ \A x \in Jobs : x # j => jobs'[x] = jobs[x]
    BY <1>1 DEF TypeOK
  <2>3. \A u \in Threads : thread'[u] = IF u = t THEN Idle ELSE thread[u]
    BY <1>1 DEF TypeOK
  <2> QED BY <1>4, <2>1, <2>2, <2>3
<1> HIDE DEF j
<1>7. ThreadsOK'
  BY <1>1, <1>3, <1>6 DEF ThreadsOK, Known, Holds
<1>8. UnknownOK'
  BY <1>1, <1>2, <1>3, <1>6 DEF UnknownOK, Known, Holds
<1>9. Pending'
  BY <1>1, <1>2, <1>6 DEF Pending, Again, MayRetry, j
<1>10. OnePlace'
  <2>1. \A x \in Jobs \ named : Once(queue', x)
    <3>1. Once(queue, j)
      BY <1>3 DEF Once, ToSet
    <3>2. \A x \in Jobs \ named : Once(queue, x)
      BY DEF OnePlace, Once
    <3> QED BY <1>2, <1>3, <3>1, <3>2
  <2>2. \A x \in Jobs \ named : \A i, k \in DOMAIN queue' : queue'[i] = x /\ queue'[k] = x => i = k
    BY <2>1 DEF Once
  <2>3. \A x \in Jobs \ named : x \in ToSet(queue') => ~Held(x)' /\ x \notin scheduled'
    BY <1>1, <1>2, <1>3, <1>6 DEF OnePlace, Holds, Held
  <2>4. \A x \in Jobs \ named : x \in scheduled' => ~Held(x)'
    BY <1>1, <1>3, <1>6 DEF OnePlace, Holds, Held
  <2>5. \A x \in Jobs \ named : \A u, v \in Threads : Holds(u, x)' /\ Holds(v, x)' => u = v
    BY <1>1, <1>6 DEF OnePlace, Holds
  <2> QED BY <1>1, <2>2, <2>3, <2>4, <2>5 DEF OnePlace
<1>11. Tries'
  BY <1>1, <1>2, <1>3, <1>6 DEF Tries, Waiting
<1>12. DeadOK'
  <2>1. \A x \in ToSet(dead) : x \in Jobs /\ x # j
    BY <1>3, InToSet DEF TypeOK
  <2>2. \A x \in ToSet(dead), u \in Threads : Holds(u, x)' => u # t /\ Holds(u, x)
    BY <1>6, <2>1, JobQueueAssumption DEF Holds
  <2> QED BY <1>1, <1>2, <1>6, <2>1, <2>2 DEF DeadOK, Waiting, Exhausted
<1>13. StatusOK'
  BY <1>1, <1>2, <1>3, <1>6 DEF StatusOK, Again, MayRetry
<1> QED BY <1>5, <1>7, <1>8, <1>9, <1>10, <1>11, <1>12, <1>13

LEMMA PopStep ==
  ASSUME IInv, NEW t \in Threads, thread[t].phase \in {"idle", "loop"}, Pop(t)
  PROVE  IInv'
<1> USE DEF IInv
<1> DEFINE j == Head(queue)
<1>1. /\ queue # <<>> /\ queue' = Tail(queue)
      /\ thread' = [thread EXCEPT ![t] = [thread[t] EXCEPT !.phase = "start", !.job = j]]
      /\ UNCHANGED <<jobs, scheduled, due, dead, named>>
  BY DEF Pop
<1>2. /\ j \in Jobs /\ queue' \in Seq(Jobs) /\ ToSet(queue) = ToSet(queue') \cup {j}
      /\ \A x : Once(queue, x) => Once(queue', x)
      /\ Once(queue, j) => j \notin ToSet(queue')
  BY <1>1, TailSet DEF TypeOK
<1> HIDE DEF j
<1>3. /\ \A u \in Threads : u # t => thread'[u] = thread[u]
      /\ thread'[t].phase = "start" /\ thread'[t].job = j /\ thread' \in [Threads -> Session]
  BY <1>1, <1>2 DEF TypeOK, Session
<1>4. TypeOK'
  BY <1>1, <1>2, <1>3 DEF TypeOK
<1>5. thread[t].job = NoJob /\ j # NoJob /\ Known(j)
  BY <1>2, JobQueueAssumption DEF ThreadsOK, UnknownOK
<1>6. ThreadsOK'
  BY <1>1, <1>2, <1>3, <1>5 DEF ThreadsOK, Known, Holds
<1>7. UnknownOK'
  BY <1>1, <1>2, <1>3, <1>5 DEF UnknownOK, Known, Holds
<1>8. Pending'
  <2>1. \A x \in Jobs, u \in Threads : thread[u].job = x => thread'[u] = thread[u]
    BY <1>3, <1>5, JobQueueAssumption
  <2>2. \A x \in ToSet(queue) : x \in ToSet(queue') \/ x = j
    BY <1>2
  <2> QED BY <1>1, <1>3, <2>1, <2>2 DEF Pending, Again, MayRetry
<1>9. OnePlace'
  BY <1>1, <1>2, <1>3, <1>5 DEF OnePlace, Holds, Held, Once
<1>10. Tries'
  BY <1>1, <1>2, <1>3, <1>5 DEF Tries, Waiting
<1>11. DeadOK'
  BY <1>1, <1>2, <1>3, <1>5 DEF DeadOK, Waiting, Holds, Exhausted
<1>12. StatusOK'
  BY <1>1, <1>2, <1>3, <1>5 DEF StatusOK, Again, MayRetry
<1> QED BY <1>4, <1>6, <1>7, <1>8, <1>9, <1>10, <1>11, <1>12

LEMMA RunJobIdStep ==
  ASSUME IInv, NEW t \in Threads, NEW j \in Jobs, RunJobId(t, j)
  PROVE  IInv'
<1> USE DEF IInv
<1>1. /\ thread[t].phase = "idle" /\ Known(j)
      /\ queue' = IF jobs[j].status = "queued" THEN RemoveFirst(queue, j) ELSE queue
      /\ thread' = [thread EXCEPT ![t] = [Idle EXCEPT !.phase = "check", !.job = j]]
      /\ named' = named \cup {j}
      /\ UNCHANGED <<jobs, scheduled, due, dead>>
  BY DEF RunJobId
<1>2. /\ queue' \in Seq(Jobs) /\ ToSet(queue') \subseteq ToSet(queue)
      /\ ToSet(queue) \ {j} \subseteq ToSet(queue')
      /\ \A x : Once(queue, x) => Once(queue', x)
  BY <1>1, RemoveSet DEF TypeOK
<1>3. /\ \A u \in Threads : u # t => thread'[u] = thread[u]
      /\ thread'[t].phase = "check" /\ thread'[t].job = j /\ thread' \in [Threads -> Session]
  BY <1>1 DEF TypeOK, Session, Idle
<1>4. TypeOK'
  BY <1>1, <1>2, <1>3 DEF TypeOK
<1>5. thread[t].job = NoJob /\ j # NoJob
  BY <1>1, JobQueueAssumption DEF ThreadsOK
<1>6. ThreadsOK'
  BY <1>1, <1>3, <1>5 DEF ThreadsOK, Known, Holds
<1>7. UnknownOK'
  BY <1>1, <1>2, <1>3, <1>5 DEF UnknownOK, Known, Holds
<1>8. Pending'
  <2>1. \A x \in Jobs, u \in Threads : thread[u].job = x => thread'[u] = thread[u]
    BY <1>3, <1>5, JobQueueAssumption
  <2>2. \A x \in ToSet(queue) : x \in ToSet(queue') \/ x = j
    BY <1>2
  <2> QED BY <1>1, <1>3, <2>1, <2>2 DEF Pending, Again, MayRetry
<1>9. OnePlace'
  BY <1>1, <1>2, <1>3, <1>5 DEF OnePlace, Holds, Held, Once
<1>10. Tries'
  BY <1>1, <1>2, <1>3, <1>5 DEF Tries, Waiting
<1>11. DeadOK'
  BY <1>1, <1>2, <1>3, <1>5 DEF DeadOK, Waiting, Holds, Exhausted
<1>12. StatusOK'
  BY <1>1, <1>2, <1>3, <1>5 DEF StatusOK, Again, MayRetry
<1> QED BY <1>4, <1>6, <1>7, <1>8, <1>9, <1>10, <1>11, <1>12

LEMMA CheckStep ==
  ASSUME IInv, NEW t \in Threads, Check(t)
  PROVE  IInv'
<1> USE DEF IInv
<1> DEFINE j == thread[t].job
<1>1. /\ thread[t].phase = "check" /\ j \in Jobs /\ j # NoJob /\ j \in named /\ Known(j)
      /\ UNCHANGED <<jobs, queue, scheduled, due, dead, named>>
  BY DEF Check, TypeOK, Session, ThreadsOK, UnknownOK, Holds
<1>2. /\ \A u \in Threads : u # t => thread'[u] = thread[u]
      /\ thread' \in [Threads -> Session]
      /\ \/ jobs[j].status = "queued" /\ thread'[t].phase = "start" /\ thread'[t].job = j
         \/ jobs[j].status # "queued" /\ thread'[t].phase = "idle" /\ thread'[t].job = NoJob
  <2>1. thread \in [Threads -> Session] /\ thread[t] \in Session
    BY DEF TypeOK
  <2>2. CASE jobs[j].status = "queued" /\ Goto(t, "start")
    BY <2>2, GotoPhase
  <2>3. CASE jobs[j].status # "queued" /\ thread' = [thread EXCEPT ![t] = Idle]
    <3>1. Idle \in Session /\ Idle.phase = "idle" /\ Idle.job = NoJob
      BY DEF Idle, Session
    <3> QED BY <2>1, <2>3, <3>1
  <2> QED BY <2>2, <2>3 DEF Check
<1> HIDE DEF j
<1>3. TypeOK'
  BY <1>1, <1>2 DEF TypeOK
<1>4. ThreadsOK'
  BY <1>1, <1>2 DEF ThreadsOK, Known, Holds, j
<1>5. UnknownOK'
  BY <1>1, <1>2 DEF UnknownOK, Known, Holds
<1>6. Pending'
  BY <1>1, <1>2 DEF Pending, Again, MayRetry, j
<1>7. OnePlace'
  BY <1>1, <1>2 DEF OnePlace, Holds, Held
<1>8. Tries'
  BY <1>1, <1>2 DEF Tries, Waiting
<1>9. DeadOK'
  BY <1>1, <1>2 DEF DeadOK, Waiting, Holds, Exhausted
<1>10. StatusOK'
  BY <1>1, <1>2 DEF StatusOK, Again, MayRetry
<1> QED BY <1>3, <1>4, <1>5, <1>6, <1>7, <1>8, <1>9, <1>10

LEMMA TickStep ==
  ASSUME IInv, NEW t \in Threads, Tick(t)
  PROVE  IInv'
<1> USE DEF IInv
<1>1. PICK now \in SetToSeqs(due) : queue' = queue \o now
  BY DEF Tick
<1>2. /\ thread[t].phase = "idle"
      /\ jobs' = [j \in Jobs |-> IF j \in due THEN [jobs[j] EXCEPT !.status = "queued"] ELSE jobs[j]]
      /\ scheduled' = scheduled \ due /\ due' = {}
      /\ thread' = [thread EXCEPT ![t] = [Idle EXCEPT !.phase = "loop", !.looping = TRUE]]
      /\ UNCHANGED <<dead, named>>
  BY DEF Tick
<1>3. now \in Seq(Jobs) /\ ToSet(now) = due /\ \A x : Once(now, x)
  <2>1. due \in SUBSET Jobs /\ IsFiniteSet(due)
    BY JobQueueAssumption, FS_Subset DEF TypeOK
  <2>2. now \in Seq(due) /\ ToSet(now) = due /\ \A x : Once(now, x)
    BY <2>1, OrderingSet
  <2> QED BY <2>1, <2>2, SeqMonotonic
<1>4. /\ queue' \in Seq(Jobs) /\ ToSet(queue') = ToSet(queue) \cup due
      /\ \A x : Once(queue, x) /\ (x \in ToSet(queue) => x \notin due) => Once(queue', x)
  BY <1>1, <1>3, ConcatSet DEF TypeOK
<1>5. /\ \A u \in Threads : u # t => thread'[u] = thread[u]
      /\ thread' \in [Threads -> Session]
      /\ thread'[t].phase = "loop" /\ thread'[t].job = NoJob /\ thread[t].job = NoJob
  BY <1>2 DEF TypeOK, Session, Idle, ThreadsOK
<1>6. /\ jobs' \in [Jobs -> Record]
      /\ \A x \in Jobs : /\ x \notin due => jobs'[x] = jobs[x]
                         /\ x \in due => jobs'[x].status = "queued"
                         /\ jobs'[x].attempts = jobs[x].attempts
                         /\ jobs'[x].retries = jobs[x].retries /\ jobs'[x].every = jobs[x].every
  BY <1>2 DEF TypeOK, Record
<1>7. due \subseteq scheduled /\ \A x \in due : Known(x)
  BY DEF TypeOK, UnknownOK
<1>8. TypeOK'
  BY <1>2, <1>4, <1>5, <1>6, <1>7 DEF TypeOK
<1>9. ThreadsOK'
  BY <1>2, <1>5, <1>6, <1>7 DEF ThreadsOK, Known, Holds, TypeOK, Session
<1>10. UnknownOK'
  <2>1. \A x \in Jobs : ~Known(x)' => ~Known(x) /\ x \notin due
    BY <1>6 DEF Known
  <2>2. \A x \in Jobs : x \notin due => (x \in ToSet(queue') <=> x \in ToSet(queue))
    BY <1>4
  <2>3. \A x \in Jobs, u \in Threads :
          Holds(u, x)' => thread'[u] = thread[u] /\ Holds(u, x)
    BY <1>5, JobQueueAssumption DEF Holds
  <2> QED BY <1>2, <2>1, <2>2, <2>3 DEF UnknownOK
<1>11. Pending'
  <2>1. \A x \in Jobs, u \in Threads : thread[u].job = x => thread'[u] = thread[u]
    BY <1>5, JobQueueAssumption
  <2>2. \A x \in Jobs : x \in due => x \in ToSet(queue') /\ ~Again(x)'
    BY <1>4, <1>6 DEF Again, MayRetry
  <2>3. \A x \in Jobs : x \notin due => (Again(x)' <=> Again(x))
    BY <1>6 DEF Again, MayRetry
  <2> QED BY <1>2, <1>4, <1>6, <2>1, <2>2, <2>3 DEF Pending
<1>12. OnePlace'
  <2>1. \A x \in Jobs \ named : Once(queue', x)
    <3>1. \A x \in Jobs \ named : Once(queue, x) /\ (x \in ToSet(queue) => x \notin due)
      BY <1>7 DEF OnePlace, Once
    <3> QED BY <1>4, <3>1
  <2>2. \A x \in Jobs \ named : \A i, k \in DOMAIN queue' : queue'[i] = x /\ queue'[k] = x => i = k
    BY <2>1 DEF Once
  <2>6. \A x \in Jobs : Held(x)' => Held(x)
    BY <1>5, JobQueueAssumption DEF Held, Holds
  <2>3. \A x \in Jobs \ named : x \in ToSet(queue') => ~Held(x)' /\ x \notin scheduled'
    BY <1>2, <1>4, <1>7, <2>6 DEF OnePlace
  <2>4. \A x \in Jobs \ named : x \in scheduled' => ~Held(x)'
    BY <1>2, <2>6 DEF OnePlace
  <2>5. \A x \in Jobs \ named : \A u, v \in Threads : Holds(u, x)' /\ Holds(v, x)' => u = v
    BY <1>5, JobQueueAssumption DEF OnePlace, Holds
  <2> QED BY <1>2, <2>2, <2>3, <2>4, <2>5 DEF OnePlace
<1>13. Tries'
  <2>1. \A x \in Jobs : Waiting(x)' => Waiting(x)
    BY <1>2, <1>4, <1>7 DEF Waiting
  <2> QED BY <1>2, <1>5, <1>6, <2>1, JobQueueAssumption DEF Tries
<1>14. DeadOK'
  <2>1. \A x : Waiting(x)' => Waiting(x)
    BY <1>2, <1>4, <1>7 DEF Waiting
  <2>2. \A x \in ToSet(dead) \ named : x \in Jobs /\ x \notin due
    BY <1>7, InToSet DEF DeadOK, Waiting, TypeOK
  <2>3. \A x \in Jobs, u \in Threads : Holds(u, x)' => thread'[u] = thread[u] /\ Holds(u, x)
    BY <1>5, JobQueueAssumption DEF Holds
  <2> QED BY <1>2, <1>6, <2>1, <2>2, <2>3 DEF DeadOK, Exhausted
<1>15. StatusOK'
  <2>1. \A x \in Jobs, u \in Threads : thread'[u].job = x => thread'[u] = thread[u]
    BY <1>5, JobQueueAssumption
  <2>2. \A x \in Jobs \ named, u \in Threads : x \in due /\ thread[u].job = x =>
          thread[u].phase \notin {"start", "run"}
    BY <1>7 DEF OnePlace, Held, Holds
  <2>3. \A x \in Jobs : x \notin due => (Again(x)' <=> Again(x))
    BY <1>6 DEF Again, MayRetry
  <2> QED BY <1>2, <1>4, <1>6, <2>1, <2>2, <2>3 DEF StatusOK
<1> QED BY <1>8, <1>9, <1>10, <1>11, <1>12, <1>13, <1>14, <1>15

LEMMA StartStep ==
  ASSUME IInv, NEW t \in Threads, Start(t)
  PROVE  IInv'
<1> USE DEF IInv
<1> DEFINE j == thread[t].job
<1>1. /\ thread[t].phase = "start" /\ j \in Jobs /\ j # NoJob /\ Known(j)
      /\ UNCHANGED <<queue, scheduled, due, dead, named>>
  BY DEF Start, TypeOK, Session, ThreadsOK, UnknownOK, Holds
<1>2. /\ jobs' \in [Jobs -> Record]
      /\ \A x \in Jobs : x # j => jobs'[x] = jobs[x]
      /\ jobs'[j].status = "running" /\ jobs'[j].attempts = jobs[j].attempts + 1
      /\ jobs'[j].retries = jobs[j].retries /\ jobs'[j].every = jobs[j].every
  <2> DEFINE new == [jobs[j] EXCEPT !.status = "running", !.attempts = jobs[j].attempts + 1]
  <2>1. /\ jobs \in [Jobs -> Record] /\ jobs[j] \in Record
        /\ jobs' = [jobs EXCEPT ![j] = new]
    BY <1>1 DEF Start, TypeOK
  <2>2. jobs[j].attempts \in Nat /\ jobs[j].attempts + 1 \in Nat
    BY <2>1, RecordFacts
  <2>3. new \in Record
    BY <2>1, <2>2 DEF Record
  <2>4. /\ new.status = "running" /\ new.attempts = jobs[j].attempts + 1
        /\ new.retries = jobs[j].retries /\ new.every = jobs[j].every
    BY <2>1 DEF Record
  <2> HIDE DEF new
  <2> QED BY <1>1, <2>1, <2>3, <2>4
<1>3. /\ \A u \in Threads : u # t => thread'[u] = thread[u]
      /\ thread' \in [Threads -> Session]
      /\ thread'[t].phase = "run" /\ thread'[t].job = j
  BY GotoPhase DEF Start
<1>4. jobs[j].attempts \in Nat /\ jobs[j].retries \in Nat
  BY <1>1, RecordFacts DEF TypeOK
<1> HIDE DEF j
<1>5. TypeOK'
  BY <1>1, <1>2, <1>3 DEF TypeOK
<1>6. ThreadsOK'
  <2>1. \A x \in Jobs : Known(x)' <=> Known(x)
    BY <1>1, <1>2 DEF Known
  <2>2. \A u \in Threads, x \in Jobs : Holds(u, x)' <=> Holds(u, x)
    BY <1>1, <1>3 DEF Holds, j
  <2>3. \A u \in Threads : thread[u].phase \in {"append", "bury"} =>
          thread[u].job \in Jobs /\ u # t /\ thread'[u] = thread[u]
    BY <1>1, <1>3 DEF TypeOK, Session, ThreadsOK
  <2> QED BY <1>1, <1>3, <2>1, <2>2, <2>3 DEF ThreadsOK, j
<1>7. UnknownOK'
  BY <1>1, <1>2, <1>3 DEF UnknownOK, Known, Holds, j
<1>8. Pending'
  BY <1>1, <1>2, <1>3 DEF Pending, Again, MayRetry, j
<1>9. OnePlace'
  BY <1>1, <1>3 DEF OnePlace, Holds, Held, j
<1>10. Tries'
  <2>1. j \notin named => /\ ~Waiting(j)
                          /\ \A u \in Threads : Holds(u, j) => u = t
    BY <1>1 DEF OnePlace, Waiting, Held, Holds, j
  <2>2. j \notin named /\ ~jobs[j].every => jobs[j].attempts + 1 <= jobs[j].retries + 1
    BY <1>1, <1>4 DEF Tries, j
  <2> QED BY <1>1, <1>2, <1>3, <2>1, <2>2 DEF Tries, Waiting, Holds
<1>11. DeadOK'
  <2>1. \A x \in ToSet(dead) \ named : x \in Jobs /\ x # j
    BY <1>1, InToSet DEF DeadOK, Holds, TypeOK, j
  <2> QED BY <1>1, <1>2, <1>3, <2>1 DEF DeadOK, Waiting, Exhausted, Holds, j
<1>12. StatusOK'
  <2>1. j \notin named => /\ j \notin ToSet(queue) /\ j \notin scheduled
                          /\ \A u \in Threads : Holds(u, j) => u = t
    BY <1>1 DEF OnePlace, Held, Holds, j
  <2> QED BY <1>1, <1>2, <1>3, <2>1 DEF StatusOK, Again, MayRetry, Holds
<1> QED BY <1>5, <1>6, <1>7, <1>8, <1>9, <1>10, <1>11, <1>12

LEMMA FinishStep ==
  ASSUME IInv, NEW t \in Threads, Finish(t)
  PROVE  IInv'
<1> USE DEF IInv
<1> DEFINE j == thread[t].job
<1>1. /\ thread[t].phase = "run" /\ j \in Jobs /\ j # NoJob /\ Known(j)
      /\ UNCHANGED <<queue, scheduled, due, dead, named>>
  BY DEF Finish, TypeOK, Session, ThreadsOK, UnknownOK, Holds
<1>2. /\ jobs' \in [Jobs -> Record]
      /\ \A x \in Jobs : x # j => jobs'[x] = jobs[x]
      /\ jobs'[j].status \in {"success", "error"} /\ jobs'[j].attempts = jobs[j].attempts
      /\ jobs'[j].retries = jobs[j].retries /\ jobs'[j].every = jobs[j].every
  <2>1. PICK status \in {"success", "error"} :
          jobs' = [jobs EXCEPT ![j] = [jobs[j] EXCEPT !.status = status]]
    BY DEF Finish
  <2> DEFINE new == [jobs[j] EXCEPT !.status = status]
  <2>2. /\ jobs \in [Jobs -> Record] /\ jobs[j] \in Record
        /\ jobs' = [jobs EXCEPT ![j] = new]
    BY <1>1, <2>1 DEF TypeOK
  <2>3. new \in Record
    BY <2>2 DEF Record
  <2>4. /\ new.status = status /\ new.attempts = jobs[j].attempts
        /\ new.retries = jobs[j].retries /\ new.every = jobs[j].every
    BY <2>2 DEF Record
  <2> HIDE DEF new
  <2> QED BY <1>1, <2>2, <2>3, <2>4
<1>3. /\ \A u \in Threads : u # t => thread'[u] = thread[u]
      /\ thread' \in [Threads -> Session]
      /\ thread'[t].phase = "file" /\ thread'[t].job = j
  BY GotoPhase DEF Finish
<1> HIDE DEF j
<1>4. /\ \A x \in Jobs : Known(x)' <=> Known(x)
      /\ \A u \in Threads, x \in Jobs : Holds(u, x)' <=> Holds(u, x)
      /\ \A x \in Jobs : Held(x)' <=> Held(x)
  <2>1. \A x \in Jobs : Known(x)' <=> Known(x)
    BY <1>1, <1>2 DEF Known
  <2>2. \A u \in Threads, x \in Jobs : Holds(u, x)' <=> Holds(u, x)
    BY <1>1, <1>3 DEF Holds, j
  <2> QED BY <2>1, <2>2 DEF Held
<1>5. TypeOK'
  BY <1>1, <1>2, <1>3 DEF TypeOK
<1>6. ThreadsOK'
  <2>1. \A u \in Threads : thread[u].phase \in {"append", "bury"} =>
          thread[u].job \in Jobs /\ u # t /\ thread'[u] = thread[u]
    BY <1>1, <1>3 DEF TypeOK, Session, ThreadsOK
  <2> QED BY <1>1, <1>3, <1>4, <2>1 DEF ThreadsOK, j
<1>7. UnknownOK'
  BY <1>1, <1>3, <1>4 DEF UnknownOK, Holds, j
<1>8. Pending'
  BY <1>1, <1>2, <1>3 DEF Pending, Again, MayRetry, j
<1>9. OnePlace'
  BY <1>1, <1>4 DEF OnePlace
<1>10. Tries'
  BY <1>1, <1>2, <1>3 DEF Tries, Waiting
<1>11. DeadOK'
  <2>1. \A x \in ToSet(dead) \ named : x \in Jobs /\ x # j
    BY <1>1, InToSet DEF DeadOK, Holds, TypeOK, j
  <2> QED BY <1>1, <1>2, <1>3, <2>1 DEF DeadOK, Waiting, Exhausted, Holds
<1>12. StatusOK'
  <2>1. j \notin named => /\ j \notin ToSet(queue) /\ j \notin scheduled
                          /\ \A u \in Threads : Holds(u, j) => u = t
    BY <1>1 DEF OnePlace, Held, Holds, j
  <2> QED BY <1>1, <1>2, <1>3, <2>1 DEF StatusOK, Again, MayRetry, Holds
<1> QED BY <1>5, <1>6, <1>7, <1>8, <1>9, <1>10, <1>11, <1>12

\* The deque holds what it held, or less, and the job that is filed.
LEMMA KeepSet ==
  ASSUME NEW s \in Seq(Jobs), Len(s) <= MaxDead, NEW e \in Jobs
  PROVE  /\ Keep(s, e) \in Seq(Jobs) /\ Len(Keep(s, e)) <= MaxDead
         /\ ToSet(Keep(s, e)) \subseteq ToSet(s) \cup {e}
<1>1. Len(s) \in Nat /\ MaxDead \in Nat \ {0}
  BY LenProperties, JobQueueAssumption
<1>2. CASE Len(s) < MaxDead
  <2>1. Keep(s, e) = Append(s, e) /\ Len(Append(s, e)) = Len(s) + 1
    BY <1>2, AppendProperties DEF Keep
  <2> QED BY <1>1, <1>2, <2>1, AppendSet
<1>3. CASE ~(Len(s) < MaxDead)
  <2>1. s # <<>>
    BY <1>1, <1>3
  <2>2. /\ Tail(s) \in Seq(Jobs) /\ Len(Tail(s)) = Len(s) - 1
        /\ ToSet(Tail(s)) \subseteq ToSet(s)
    BY <2>1, TailSet
  <2>3. /\ Keep(s, e) = Append(Tail(s), e)
        /\ Len(Append(Tail(s), e)) = Len(Tail(s)) + 1
    BY <1>3, <2>2, AppendProperties DEF Keep
  <2> DEFINE r == Tail(s)
  <2> HIDE DEF r
  <2>4. Append(r, e) \in Seq(Jobs) /\ ToSet(Append(r, e)) = ToSet(r) \cup {e}
    <3>1. r \in Seq(Jobs)
      BY <2>2 DEF r
    <3> QED BY <3>1, AppendSet
  <2> USE DEF r
  <2>5. Len(Keep(s, e)) <= MaxDead
    BY <1>1, <2>2, <2>3
  <2> QED BY <2>2, <2>3, <2>4, <2>5
<1> QED BY <1>2, <1>3

LEMMA FileStep ==
  ASSUME IInv, NEW t \in Threads, File(t)
  PROVE  IInv'
<1> USE DEF IInv
<1> DEFINE j == thread[t].job
<1>1. /\ thread[t].phase = "file" /\ j \in Jobs /\ j # NoJob /\ Known(j)
      /\ scheduled' = IF Again(j) THEN scheduled \cup {j} ELSE scheduled
      /\ due' = IF Again(j) THEN due \ {j} ELSE due
      /\ UNCHANGED <<jobs, queue, dead, named>>
  BY DEF File, TypeOK, Session, ThreadsOK, UnknownOK, Holds
<1>2. /\ \A u \in Threads : u # t => thread'[u] = thread[u]
      /\ thread' \in [Threads -> Session]
      /\ thread'[t].phase = "bury" /\ thread'[t].job = j
  BY GotoPhase DEF File
<1> HIDE DEF j
<1>3. /\ \A x \in Jobs : Again(x)' <=> Again(x)
      /\ \A x \in Jobs : Known(x)' <=> Known(x)
  BY <1>1 DEF Again, MayRetry, Known
<1>4. /\ \A u \in Threads, x \in Jobs : Holds(u, x)' => u # t /\ Holds(u, x)
      /\ \A x \in Jobs : Held(x)' => Held(x)
  BY <1>1, <1>2 DEF Holds, Held
<1>5. TypeOK'
  BY <1>1, <1>2 DEF TypeOK
<1>6. ThreadsOK'
  <2>1. \A u \in Threads : thread[u].phase \in {"append", "bury"} =>
          thread[u].job \in Jobs /\ u # t /\ thread'[u] = thread[u]
    BY <1>1, <1>2 DEF TypeOK, Session, ThreadsOK
  <2> QED BY <1>1, <1>2, <1>3, <1>4, <2>1 DEF ThreadsOK, j
<1>7. UnknownOK'
  BY <1>1, <1>2, <1>3, <1>4 DEF UnknownOK
<1>8. Pending'
  <2>1. \A x \in Jobs, u \in Threads :
          thread[u].job = x /\ (x # j \/ thread[u].phase # "file") => thread'[u] = thread[u]
    BY <1>1, <1>2 DEF j
  <2>2. ASSUME NEW x \in Jobs, Again(x)
        PROVE  \/ x \in scheduled'
               \/ \E u \in Threads : thread'[u].job = x /\ thread'[u].phase = "file"
    <3>1. CASE x = j
      BY <3>1, <1>1, <2>2
    <3>2. CASE x # j
      BY <3>2, <1>1, <2>1, <2>2 DEF Pending
    <3> QED BY <3>1, <3>2
  <2>3. ASSUME NEW x \in Jobs, jobs[x].status = "queued"
        PROVE  \/ x \in ToSet(queue')
               \/ \E u \in Threads : thread'[u].job = x /\ thread'[u].phase \in {"check", "start"}
    BY <1>1, <2>1, <2>3 DEF Pending
  <2>4. ASSUME NEW x \in Jobs, jobs[x].status = "running"
        PROVE  \E u \in Threads : thread'[u].job = x /\ thread'[u].phase = "run"
    BY <1>1, <2>1, <2>4 DEF Pending
  <2> QED BY <1>1, <1>3, <2>2, <2>3, <2>4 DEF Pending
<1>9. Holds(t, j) /\ Held(j)
  BY <1>1 DEF Holds, Held, j
<1>10. \A x \in Jobs \ named : x = j =>
         x \notin ToSet(queue) /\ x \notin scheduled /\ ~Held(x)'
  <2> SUFFICES ASSUME NEW x \in Jobs \ named, x = j
               PROVE  x \notin ToSet(queue) /\ x \notin scheduled /\ ~Held(x)'
    OBVIOUS
  <2>1. Holds(t, x) /\ Held(x)
    BY <1>9
  <2>2. \A u \in Threads : ~Holds(u, x)'
    BY <1>4, <2>1 DEF OnePlace
  <2>3. ~Held(x)'
    BY <2>2 DEF Held
  <2> QED BY <2>1, <2>3 DEF OnePlace
<1>11. OnePlace'
  <2>1. \A x \in Jobs \ named : /\ x \in ToSet(queue) => x \notin scheduled'
                                /\ x \in scheduled' => ~Held(x)'
    BY <1>1, <1>4, <1>10 DEF OnePlace
  <2> QED BY <1>1, <1>4, <2>1 DEF OnePlace
<1>12. Tries'
  <2>1. \A x \in Jobs : Waiting(x)' => Waiting(x) \/ (x = j /\ Again(j))
    BY <1>1 DEF Waiting
  <2>2. Again(j) /\ ~jobs[j].every => jobs[j].attempts <= jobs[j].retries
    BY DEF Again, MayRetry
  <2>3. \A u \in Threads : thread'[u].phase = "start" => thread'[u] = thread[u]
    BY <1>2
  <2> QED BY <1>1, <2>1, <2>2, <2>3 DEF Tries
<1>13. StatusOK'
  <2>1. \A u \in Threads : thread'[u].phase \in {"start", "run"} => thread'[u] = thread[u]
    BY <1>2
  <2>2. \A x \in Jobs : x \in scheduled' => x \in scheduled \/ Again(x)
    BY <1>1
  <2> QED BY <1>1, <1>3, <2>1, <2>2 DEF StatusOK
<1>14. DeadOK'
  <2>1. \A x \in ToSet(dead) \ named : x \in Jobs /\ ~Again(x)
    <3> SUFFICES ASSUME NEW x \in ToSet(dead) \ named PROVE x \in Jobs /\ ~Again(x)
      OBVIOUS
    <3>1. x \in Jobs /\ Exhausted(x)
      BY InToSet DEF DeadOK, TypeOK
    <3>2. jobs[x].attempts \in Nat /\ jobs[x].retries \in Nat
      BY <3>1, RecordFacts DEF TypeOK
    <3> QED BY <3>1, <3>2 DEF Again, MayRetry, Exhausted
  <2>2. \A x \in ToSet(dead) \ named : Waiting(x)' => Waiting(x)
    BY <1>1, <2>1 DEF Waiting
  <2> QED BY <1>1, <1>2, <1>4, <2>1, <2>2 DEF DeadOK, Exhausted
<1> QED BY <1>5, <1>6, <1>7, <1>8, <1>11, <1>12, <1>13, <1>14

\* What is buried is exhausted when the record is read again, whatever has been
\* done with the job since it was filed: its place shows in its status.
LEMMA BuryStep ==
  ASSUME IInv, NEW t \in Threads, Bury(t)
  PROVE  IInv'
<1> USE DEF IInv
<1> DEFINE j == thread[t].job
<1>1. /\ thread[t].phase = "bury" /\ j \in Jobs /\ j # NoJob /\ Known(j)
      /\ dead' = IF Exhausted(j) THEN Keep(dead, j) ELSE dead
      /\ UNCHANGED <<jobs, queue, scheduled, due, named>>
  BY DEF Bury, TypeOK, Session, ThreadsOK
<1>2. /\ \A u \in Threads : u # t => thread'[u] = thread[u]
      /\ thread' \in [Threads -> Session]
      /\ thread'[t].phase \in {"idle", "loop"} /\ thread'[t].job = NoJob
  <2> DEFINE new == IF thread[t].looping THEN [Idle EXCEPT !.phase = "loop", !.looping = TRUE]
                                         ELSE Idle
  <2>1. new \in Session /\ new.phase \in {"idle", "loop"} /\ new.job = NoJob
    BY DEF Idle, Session
  <2>2. thread \in [Threads -> Session] /\ thread' = [thread EXCEPT ![t] = new]
    BY DEF Bury, TypeOK
  <2> HIDE DEF new
  <2> QED BY <2>1, <2>2
<1>3. /\ dead' \in Seq(Jobs) /\ Len(dead') <= MaxDead
      /\ \A x \in ToSet(dead') : x \in ToSet(dead) \/ (x = j /\ Exhausted(j))
  BY <1>1, KeepSet DEF TypeOK
<1> HIDE DEF j
<1>4. /\ \A u \in Threads, x \in Jobs : Holds(u, x)' <=> Holds(u, x)
      /\ \A x \in Jobs : Held(x)' <=> Held(x)
      /\ \A u \in Threads, x \in Jobs : Holds(u, x) => thread'[u] = thread[u]
  <2>1. /\ \A u \in Threads, x \in Jobs : Holds(u, x)' <=> Holds(u, x)
        /\ \A u \in Threads, x \in Jobs : Holds(u, x) => thread'[u] = thread[u]
    BY <1>1, <1>2, JobQueueAssumption DEF Holds
  <2> QED BY <2>1 DEF Held
<1>5. TypeOK'
  BY <1>1, <1>2, <1>3 DEF TypeOK
<1>6. ThreadsOK'
  <2>1. \A u \in Threads : thread[u].phase \in {"append", "bury"} =>
          thread[u].job \in Jobs
    BY DEF TypeOK, Session, ThreadsOK
  <2> QED BY <1>1, <1>2, <1>4, <2>1 DEF ThreadsOK, Known
<1>7. UnknownOK'
  <2>1. \A x \in Jobs : Known(x)' <=> Known(x)
    BY <1>1 DEF Known
  <2> QED BY <1>1, <1>3, <1>4, <2>1 DEF UnknownOK
<1>8. Pending'
  <2>1. \A u \in Threads : thread[u].phase # "bury" => thread'[u] = thread[u]
    BY <1>1, <1>2
  <2>2. \A x \in Jobs : Again(x)' <=> Again(x)
    BY <1>1 DEF Again, MayRetry
  <2> QED BY <1>1, <2>1, <2>2 DEF Pending
<1>9. OnePlace'
  BY <1>1, <1>4 DEF OnePlace
<1>10. \A u \in Threads : thread'[u].phase \notin {"idle", "loop"} => thread'[u] = thread[u]
  BY <1>2
<1>11. Tries'
  BY <1>1, <1>10 DEF Tries, Waiting
<1>12. StatusOK'
  BY <1>1, <1>10 DEF StatusOK, Again, MayRetry
<1>13. DeadOK'
  <2>1. ASSUME j \notin named, Exhausted(j)
        PROVE  ~Waiting(j) /\ \A u \in Threads : Holds(u, j) => thread[u].phase = "file"
    <3>1. jobs[j].attempts \in Nat /\ jobs[j].retries \in Nat
      BY <1>1, RecordFacts DEF TypeOK
    <3>2. ~Again(j) /\ jobs[j].status = "error"
      BY <2>1, <3>1 DEF Again, MayRetry, Exhausted
    <3>3. ~Waiting(j)
      BY <1>1, <2>1, <3>2 DEF StatusOK, Waiting
    <3>4. ASSUME NEW u \in Threads, Holds(u, j) PROVE thread[u].phase = "file"
      <4>1. thread[u] \in Session /\ thread[u].job = j
        BY <3>4 DEF TypeOK, Holds
      <4>2. thread[u].phase \notin {"idle", "bury", "loop", "append", "check"}
        BY <1>1, <2>1, <3>4, <4>1 DEF Holds, ThreadsOK
      <4>3. thread[u].phase \notin {"start", "run"}
        BY <1>1, <2>1, <3>2, <4>1 DEF StatusOK
      <4>4. thread[u].phase \in {"idle", "append", "loop", "check", "start", "run", "file", "bury"}
        BY <4>1 DEF Session
      <4> QED BY <4>2, <4>3, <4>4
    <3> QED BY <3>3, <3>4
  <2>2. \A x \in Jobs : Waiting(x)' <=> Waiting(x)
    BY <1>1 DEF Waiting
  <2>3. \A x \in Jobs : Exhausted(x)' <=> Exhausted(x)
    BY <1>1 DEF Exhausted
  <2>4. ToSet(dead') \subseteq Jobs
    BY <1>3, InToSet
  <2> SUFFICES ASSUME NEW x \in ToSet(dead') \ named
               PROVE  /\ Exhausted(x) /\ ~Waiting(x)
                      /\ \A u \in Threads : Holds(u, x) => thread[u].phase = "file"
    BY <1>1, <1>4, <2>2, <2>3, <2>4 DEF DeadOK
  <2> QED BY <1>3, <2>1 DEF DeadOK
<1> QED BY <1>5, <1>6, <1>7, <1>8, <1>9, <1>11, <1>12, <1>13

\* The queue is empty and the tick is over.
LEMMA LoopEndStep ==
  ASSUME IInv, NEW t \in Threads, thread[t].phase = "loop",
         thread' = [thread EXCEPT ![t] = Idle],
         UNCHANGED <<jobs, queue, scheduled, due, dead, named>>
  PROVE  IInv'
<1> USE DEF IInv
<1>1. /\ \A u \in Threads : u # t => thread'[u] = thread[u]
      /\ thread' \in [Threads -> Session]
      /\ thread'[t].phase = "idle" /\ thread'[t].job = NoJob /\ thread[t].job = NoJob
  <2>1. Idle \in Session /\ Idle.phase = "idle" /\ Idle.job = NoJob
    BY DEF Idle, Session
  <2> QED BY <2>1 DEF TypeOK, ThreadsOK
<1>2. /\ \A u \in Threads, x \in Jobs : Holds(u, x)' => u # t /\ Holds(u, x)
      /\ \A x \in Jobs : Held(x)' => Held(x)
      /\ \A x \in Jobs, u \in Threads : thread[u].job = x => thread'[u] = thread[u]
      /\ \A x \in Jobs, u \in Threads : thread'[u].job = x => thread'[u] = thread[u]
  BY <1>1, JobQueueAssumption DEF Holds, Held
<1>3. TypeOK'
  BY <1>1 DEF TypeOK
<1>4. ThreadsOK'
  <2>1. \A u \in Threads : thread[u].phase = "append" =>
          thread[u].job \in Jobs /\ u # t /\ thread'[u] = thread[u]
    BY <1>1 DEF TypeOK, Session, ThreadsOK
  <2> QED BY <1>1, <1>2, <2>1 DEF ThreadsOK, Known
<1>5. UnknownOK'
  BY <1>1, <1>2 DEF UnknownOK, Known
<1>6. Pending'
  BY <1>2 DEF Pending, Again, MayRetry
<1>7. OnePlace'
  BY <1>2 DEF OnePlace
<1>8. Tries'
  BY <1>1 DEF Tries, Waiting
<1>9. DeadOK'
  <2>1. \A x \in ToSet(dead) : x \in Jobs
    BY InToSet DEF TypeOK
  <2> QED BY <1>1, <1>2, <2>1 DEF DeadOK, Waiting, Exhausted
<1>10. StatusOK'
  BY <1>2 DEF StatusOK, Again, MayRetry
<1> QED BY <1>3, <1>4, <1>5, <1>6, <1>7, <1>8, <1>9, <1>10

LEMMA LoopStep ==
  ASSUME IInv, NEW t \in Threads, Loop(t)
  PROVE  IInv'
<1>1. thread[t].phase = "loop"
  BY DEF Loop
<1>2. CASE Pop(t)
  BY <1>1, <1>2, PopStep
<1>3. CASE thread' = [thread EXCEPT ![t] = Idle]
           /\ UNCHANGED <<jobs, queue, scheduled, due, dead, named>>
  BY <1>1, <1>3, LoopEndStep
<1> QED BY <1>2, <1>3 DEF Loop

LEMMA RequeueDeadLetterStep ==
  ASSUME IInv, NEW t \in Threads, NEW j \in Jobs, RequeueDeadLetter(t, j)
  PROVE  IInv'
<1>1. jobs[j].retries \in Retries \cup {0} /\ jobs[j].every \in BOOLEAN
  BY DEF IInv, TypeOK, Record
<1>2. Enqueue(t, jobs[j].retries, jobs[j].every)
  BY DEF RequeueDeadLetter
<1> QED BY <1>1, <1>2, EnqueueStep

\* The steps of time and of the operator move no job.
LEMMA QuietStep ==
  ASSUME IInv, PurgeDeadLetter \/ (\E j \in Jobs : Elapse(j)) \/ UNCHANGED vars
  PROVE  IInv'
<1> USE DEF IInv
<1>1. /\ UNCHANGED <<jobs, queue, scheduled, thread, named>>
      /\ due' \subseteq scheduled
      /\ dead' = dead \/ dead' = <<>>
  BY DEF PurgeDeadLetter, Elapse, vars, TypeOK
<1>2. ToSet(<<>>) = {} /\ <<>> \in Seq(Jobs) /\ Len(<<>>) = 0
  BY DEF ToSet
<1>3. ToSet(dead') \subseteq ToSet(dead) /\ \A x \in ToSet(dead') : dead' = dead
  BY <1>1, <1>2
<1>4. TypeOK'
  <2>1. dead' \in Seq(Jobs) /\ Len(dead') <= MaxDead
    <3>1. dead \in Seq(Jobs) /\ Len(dead) <= MaxDead /\ 0 <= MaxDead
      BY JobQueueAssumption DEF TypeOK
    <3> QED BY <1>1, <1>2, <3>1
  <2> QED BY <1>1, <2>1 DEF TypeOK
<1>5. ThreadsOK'
  BY <1>1 DEF ThreadsOK, Known, Holds
<1>6. UnknownOK'
  BY <1>1, <1>3 DEF UnknownOK, Known, Holds
<1>7. Pending'
  BY <1>1 DEF Pending, Again, MayRetry
<1>8. OnePlace'
  BY <1>1 DEF OnePlace, Held, Holds
<1>9. Tries'
  BY <1>1 DEF Tries, Waiting
<1>10. DeadOK'
  BY <1>1, <1>3 DEF DeadOK, Waiting, Exhausted, Holds
<1>11. StatusOK'
  BY <1>1 DEF StatusOK, Again, MayRetry
<1> QED BY <1>4, <1>5, <1>6, <1>7, <1>8, <1>9, <1>10, <1>11

-----------------------------------------------------------------------------
(* How far the queue passes its bound *)

\* What waits for its first run, and the threads about to add to it.
Unstarted == {j \in ToSet(queue) : jobs[j].attempts = 0}
Appending == {t \in Threads : thread[t].phase = "append"}

\* enqueue tests the length under the lock and appends without it: the new work
\* may pass _MAX_QUEUE, by less than one job for each thread.  What tick adds to
\* the queue comes on top, and has run before.
NewWorkBounded ==
  /\ \A j \in Unstarted : Once(queue, j)
  /\ Unstarted \cup Appending # {} =>
       Cardinality(Unstarted) + Cardinality(Appending) < MaxQueue + Cardinality(Threads)

\* What is scheduled, and what a thread has begun, has been started.
Started ==
  /\ \A j \in scheduled : jobs[j].attempts >= 1
  /\ \A t \in Threads : thread[t].phase \in {"run", "file"} => jobs[thread[t].job].attempts >= 1

LEMMA SetSize ==
  ASSUME NEW S, NEW s \in Seq(S)
  PROVE  IsFiniteSet(ToSet(s)) /\ Cardinality(ToSet(s)) <= Len(s)
<1>1. Len(s) \in Nat /\ s \in [1 .. Len(s) -> S] /\ ToSet(s) = {s[i] : i \in 1 .. Len(s)}
  BY InToSet, LenProperties
<1>2. s \in Surjection(1 .. Len(s), ToSet(s))
  BY <1>1 DEF Surjection
<1>3. IsFiniteSet(1 .. Len(s)) /\ Cardinality(1 .. Len(s)) = Len(s)
  BY <1>1, FS_Interval
<1> QED BY <1>2, <1>3, FS_Surjection

LEMMA Fewer ==
  ASSUME NEW U, NEW A, IsFiniteSet(U), IsFiniteSet(A), NEW n \in Nat,
         NEW V \in SUBSET U, NEW B \in SUBSET A,
         U \cup A # {} => Cardinality(U) + Cardinality(A) < n
  PROVE  V \cup B # {} => Cardinality(V) + Cardinality(B) < n
<1>1. /\ Cardinality(U) \in Nat /\ Cardinality(A) \in Nat
      /\ IsFiniteSet(V) /\ IsFiniteSet(B)
      /\ Cardinality(V) <= Cardinality(U) /\ Cardinality(B) <= Cardinality(A)
  BY FS_Subset, FS_CardinalityType
<1>2. Cardinality(V) \in Nat /\ Cardinality(B) \in Nat
  BY <1>1, FS_CardinalityType
<1> QED BY <1>1, <1>2

LEMMA WorkFinite ==
  ASSUME IsFiniteSet(Threads), TypeOK
  PROVE  /\ IsFiniteSet(Unstarted) /\ IsFiniteSet(Appending)
         /\ Cardinality(Unstarted) \in Nat /\ Cardinality(Appending) \in Nat
         /\ Cardinality(Unstarted) <= Len(queue) /\ Len(queue) \in Nat
         /\ Cardinality(Appending) <= Cardinality(Threads)
         /\ Cardinality(Threads) \in Nat /\ MaxQueue + Cardinality(Threads) \in Nat
<1>1. queue \in Seq(Jobs) /\ MaxQueue \in Nat
  BY JobQueueAssumption DEF TypeOK
<1>2. /\ IsFiniteSet(ToSet(queue)) /\ Cardinality(ToSet(queue)) <= Len(queue)
      /\ Len(queue) \in Nat
  BY <1>1, SetSize, LenProperties
<1>3. Unstarted \in SUBSET ToSet(queue) /\ Appending \in SUBSET Threads
  BY DEF Unstarted, Appending
<1>4. /\ IsFiniteSet(Unstarted) /\ Cardinality(Unstarted) <= Cardinality(ToSet(queue))
      /\ IsFiniteSet(Appending) /\ Cardinality(Appending) <= Cardinality(Threads)
  BY <1>2, <1>3, FS_Subset
<1>5. /\ Cardinality(Unstarted) \in Nat /\ Cardinality(Appending) \in Nat
      /\ Cardinality(ToSet(queue)) \in Nat /\ Cardinality(Threads) \in Nat
  BY <1>2, <1>4, FS_CardinalityType
<1> QED BY <1>1, <1>2, <1>4, <1>5

\* A step that adds no new work, and starts no thread adding any.
LEMMA WorkSpared ==
  ASSUME IsFiniteSet(Threads), TypeOK, NewWorkBounded,
         Unstarted' \subseteq Unstarted, Appending' \subseteq Appending,
         \A j \in Unstarted' : Once(queue, j) => Once(queue', j)
  PROVE  NewWorkBounded'
<1>1. \A j \in Unstarted' : Once(queue', j)
  BY DEF NewWorkBounded
<1>2. Unstarted' \cup Appending' # {} =>
        Cardinality(Unstarted') + Cardinality(Appending') < MaxQueue + Cardinality(Threads)
  <2>1. MaxQueue + Cardinality(Threads) \in Nat /\ IsFiniteSet(Unstarted) /\ IsFiniteSet(Appending)
    BY WorkFinite
  <2>2. Unstarted \cup Appending # {} =>
          Cardinality(Unstarted) + Cardinality(Appending) < MaxQueue + Cardinality(Threads)
    BY DEF NewWorkBounded
  <2> QED BY <2>1, <2>2, Fewer
<1> QED BY <1>1, <1>2 DEF NewWorkBounded

\* What the steps that leave the records and the order of the queue alone have
\* in common: a prefix may go, or one job; no thread comes to append.
LEMMA QueueShrinks ==
  ASSUME IsFiniteSet(Threads), TypeOK, Started, NewWorkBounded,
         UNCHANGED <<jobs, scheduled>>,
         ToSet(queue') \subseteq ToSet(queue), \A j : Once(queue, j) => Once(queue', j),
         \A t \in Threads : \/ thread'[t] = thread[t]
                            \/ thread'[t].phase \notin {"append", "run", "file"}
  PROVE  Started' /\ NewWorkBounded'
<1>1. Unstarted' \subseteq Unstarted /\ Appending' \subseteq Appending
  BY DEF Unstarted, Appending
<1>2. Started'
  BY DEF Started
<1> QED BY <1>1, <1>2, WorkSpared

LEMMA EnqueueWork ==
  ASSUME IsFiniteSet(Threads), IInv, Started, NewWorkBounded, NEW t \in Threads,
         NEW retries, NEW every, Enqueue(t, retries, every), TypeOK'
  PROVE  Started' /\ NewWorkBounded'
<1>1. PICK j \in Jobs :
        thread' = [thread EXCEPT ![t] = [phase |-> "append", job |-> j, looping |-> FALSE,
                                         retries |-> retries, every |-> every]]
  BY DEF Enqueue
<1>2. /\ thread'[t].phase = "append" /\ \A u \in Threads : u # t => thread'[u] = thread[u]
      /\ Len(queue) < MaxQueue /\ UNCHANGED <<jobs, queue, scheduled>>
  BY <1>1 DEF Enqueue, IInv, TypeOK
<1>3. Started'
  BY <1>2 DEF Started
<1>4. Unstarted' = Unstarted
  BY <1>2 DEF Unstarted
<1>5. Cardinality(Unstarted) <= Len(queue) /\ Len(queue) \in Nat /\ Cardinality(Unstarted) \in Nat
  BY WorkFinite DEF IInv
<1>6. Appending' \in SUBSET Threads
  BY DEF Appending
<1>7. /\ Cardinality(Appending') <= Cardinality(Threads)
      /\ Cardinality(Appending') \in Nat /\ Cardinality(Threads) \in Nat /\ MaxQueue \in Nat
  BY <1>6, FS_Subset, FS_CardinalityType, JobQueueAssumption
<1>8. Cardinality(Unstarted') + Cardinality(Appending') < MaxQueue + Cardinality(Threads)
  BY <1>2, <1>4, <1>5, <1>7
<1>9. \A i \in Unstarted' : Once(queue', i)
  BY <1>2, <1>4 DEF NewWorkBounded
<1> QED BY <1>3, <1>8, <1>9 DEF NewWorkBounded

\* What is appended was counted while its thread was about to append it.
LEMMA InsertWork ==
  ASSUME IsFiniteSet(Threads), IInv, Started, NewWorkBounded, NEW t \in Threads, Insert(t)
  PROVE  Started' /\ NewWorkBounded'
<1> DEFINE j == thread[t].job
<1>1. /\ thread[t].phase = "append" /\ j \in Jobs /\ ~Known(j)
      /\ \A u \in Threads : Holds(u, j) => u = t
      /\ queue' = Append(queue, j) /\ scheduled' = scheduled
      /\ queue \in Seq(Jobs)
  BY DEF Insert, IInv, TypeOK, Session, ThreadsOK
<1>2. /\ \A u \in Threads : u # t => thread'[u] = thread[u]
      /\ thread'[t].phase = "idle"
      /\ \A i \in Jobs : i # j => jobs'[i] = jobs[i]
  BY <1>1 DEF Insert, IInv, TypeOK, Idle
<1>3. j \notin ToSet(queue) /\ j \notin scheduled
  BY <1>1 DEF IInv, UnknownOK
<1>4. /\ ToSet(queue') = ToSet(queue) \cup {j} /\ ToSet(queue) \subseteq Jobs
      /\ scheduled \subseteq Jobs
      /\ \A i : Once(queue, i) /\ (i = j => j \notin ToSet(queue)) => Once(queue', i)
  BY <1>1, AppendSet, InToSet DEF IInv, TypeOK
<1>5. Started'
  <2>1. \A u \in Threads : thread[u].phase \in {"run", "file"} =>
          thread[u].job \in Jobs /\ thread[u].job # j
    BY <1>1 DEF IInv, TypeOK, Session, ThreadsOK, Holds
  <2> HIDE DEF j
  <2> QED BY <1>1, <1>2, <1>3, <1>4, <2>1 DEF Started
<1> HIDE DEF j
<1>6. /\ Unstarted' \subseteq Unstarted \cup {j}
      /\ Appending' = Appending \ {t} /\ t \in Appending
  BY <1>1, <1>2, <1>4 DEF Unstarted, Appending
<1>7. \A i \in Unstarted' : Once(queue', i)
  <2>1. Once(queue, j)
    BY <1>3 DEF Once, ToSet
  <2> QED BY <1>3, <1>4, <1>6, <2>1 DEF NewWorkBounded
<1>8. Cardinality(Unstarted') + Cardinality(Appending') < MaxQueue + Cardinality(Threads)
  <2>1. /\ IsFiniteSet(Unstarted) /\ IsFiniteSet(Appending)
        /\ Cardinality(Unstarted) \in Nat /\ Cardinality(Appending) \in Nat
        /\ Cardinality(Threads) \in Nat /\ MaxQueue + Cardinality(Threads) \in Nat
    BY WorkFinite DEF IInv
  <2>2. Cardinality(Unstarted) + Cardinality(Appending) < MaxQueue + Cardinality(Threads)
    BY <1>6 DEF NewWorkBounded
  <2>3. /\ IsFiniteSet(Unstarted \cup {j})
        /\ Cardinality(Unstarted \cup {j}) <= Cardinality(Unstarted) + 1
    <3>1. /\ IsFiniteSet(Unstarted \cup {j})
          /\ Cardinality(Unstarted \cup {j})
               \in {Cardinality(Unstarted), Cardinality(Unstarted) + 1}
      BY <2>1, FS_AddElement, Zenon
    <3> QED BY <2>1, <3>1
  <2>4. Cardinality(Unstarted') <= Cardinality(Unstarted \cup {j}) /\ IsFiniteSet(Unstarted')
    BY <1>6, <2>3, FS_Subset
  <2>5. Cardinality(Appending') = Cardinality(Appending) - 1 /\ IsFiniteSet(Appending')
    BY <1>6, <2>1, FS_RemoveElement
  <2>6. /\ Cardinality(Unstarted') \in Nat /\ Cardinality(Appending') \in Nat
        /\ Cardinality(Unstarted \cup {j}) \in Nat
    BY <2>3, <2>4, <2>5, FS_CardinalityType
  <2> QED BY <2>1, <2>2, <2>3, <2>4, <2>5, <2>6
<1> QED BY <1>5, <1>7, <1>8 DEF NewWorkBounded

LEMMA PopWork ==
  ASSUME IsFiniteSet(Threads), IInv, Started, NewWorkBounded, NEW t \in Threads, Pop(t)
  PROVE  Started' /\ NewWorkBounded'
<1>1. /\ queue # <<>> /\ queue \in Seq(Jobs) /\ queue' = Tail(queue)
      /\ UNCHANGED <<jobs, scheduled>>
      /\ thread' = [thread EXCEPT ![t] = [thread[t] EXCEPT !.phase = "start", !.job = Head(queue)]]
  BY DEF Pop, IInv, TypeOK
<1>2. \A u \in Threads : thread'[u] = thread[u] \/ thread'[u].phase = "start"
  <2> DEFINE new == [thread[t] EXCEPT !.phase = "start", !.job = Head(queue)]
  <2>1. new.phase = "start"
    BY DEF IInv, TypeOK, Session
  <2> HIDE DEF new
  <2> QED BY <1>1, <2>1 DEF IInv, TypeOK, new
<1>3. ToSet(queue') \subseteq ToSet(queue) /\ \A j : Once(queue, j) => Once(queue', j)
  BY <1>1, TailSet
<1> QED BY <1>1, <1>2, <1>3, QueueShrinks DEF IInv

LEMMA RunJobIdWork ==
  ASSUME IsFiniteSet(Threads), IInv, Started, NewWorkBounded, NEW t \in Threads, NEW j \in Jobs,
         RunJobId(t, j)
  PROVE  Started' /\ NewWorkBounded'
<1>1. /\ queue \in Seq(Jobs) /\ queue' \in {queue, RemoveFirst(queue, j)}
      /\ UNCHANGED <<jobs, scheduled>>
      /\ \A u \in Threads : thread'[u] = thread[u] \/ thread'[u].phase = "check"
  BY DEF RunJobId, IInv, TypeOK, Idle
<1>2. ToSet(queue') \subseteq ToSet(queue) /\ \A i : Once(queue, i) => Once(queue', i)
  BY <1>1, RemoveSet
<1> QED BY <1>1, <1>2, QueueShrinks DEF IInv

LEMMA CheckWork ==
  ASSUME IsFiniteSet(Threads), IInv, Started, NewWorkBounded, NEW t \in Threads, Check(t)
  PROVE  Started' /\ NewWorkBounded'
<1>1. UNCHANGED <<jobs, queue, scheduled>>
  BY DEF Check
<1>2. \A u \in Threads : thread'[u] = thread[u] \/ thread'[u].phase \in {"idle", "start"}
  <2>1. CASE Goto(t, "start")
    BY <2>1, GotoPhase DEF IInv
  <2>2. CASE thread' = [thread EXCEPT ![t] = Idle]
    BY <2>2 DEF IInv, TypeOK, Idle
  <2> QED BY <2>1, <2>2 DEF Check
<1> QED BY <1>1, <1>2, QueueShrinks DEF IInv

\* What is due has been started: a tick adds no new work, however much it adds.
LEMMA TickWork ==
  ASSUME IsFiniteSet(Threads), IInv, Started, NewWorkBounded, NEW t \in Threads, Tick(t)
  PROVE  Started' /\ NewWorkBounded'
<1>1. PICK now \in SetToSeqs(due) : queue' = queue \o now
  BY DEF Tick
<1>2. due \subseteq Jobs /\ due \subseteq scheduled /\ queue \in Seq(Jobs) /\ scheduled \subseteq Jobs
  BY DEF IInv, TypeOK
<1>3. IsFiniteSet(due)
  BY <1>2, FS_Subset, JobQueueAssumption
<1>4. now \in Seq(due) /\ ToSet(now) = due /\ \A j : Once(now, j)
  BY <1>3, OrderingSet
<1>5. now \in Seq(Jobs)
  BY <1>2, <1>4, SeqMonotonic
<1>6. /\ ToSet(queue') = ToSet(queue) \cup due /\ ToSet(queue) \subseteq Jobs
      /\ \A j : Once(queue, j) /\ (j \in ToSet(queue) => j \notin due) => Once(queue', j)
  BY <1>1, <1>2, <1>4, <1>5, ConcatSet, InToSet
<1>7. \A j \in Jobs : jobs'[j].attempts = jobs[j].attempts
  <2> SUFFICES ASSUME NEW j \in Jobs PROVE jobs'[j].attempts = jobs[j].attempts
    OBVIOUS
  <2>1. jobs'[j] = IF j \in due THEN [jobs[j] EXCEPT !.status = "queued"] ELSE jobs[j]
    BY DEF Tick
  <2>2. jobs[j] \in Record
    BY DEF IInv, TypeOK
  <2> QED BY <2>1, <2>2 DEF Record
<1>8. \A u \in Threads : thread'[u] = thread[u] \/ thread'[u].phase = "loop"
  BY DEF Tick, IInv, TypeOK, Idle
<1>9. \A j \in due : jobs[j].attempts # 0
  <2>1. \A j \in due : jobs[j] \in Record /\ jobs[j].attempts >= 1
    BY <1>2 DEF Started, IInv, TypeOK
  <2> QED BY <2>1, RecordFacts
<1>10. Unstarted' \subseteq Unstarted /\ Appending' \subseteq Appending
  BY <1>6, <1>7, <1>8, <1>9, <1>2 DEF Unstarted, Appending
<1>11. \A j \in Unstarted' : Once(queue, j) => Once(queue', j)
  BY <1>6, <1>9, <1>10 DEF Unstarted
<1>12. Started'
  <2>1. \A u \in Threads : thread[u].phase \in {"run", "file"} => thread[u].job \in Jobs
    BY DEF IInv, TypeOK, Session, ThreadsOK
  <2>2. scheduled' \subseteq scheduled
    BY DEF Tick
  <2> QED BY <1>2, <1>7, <1>8, <2>1, <2>2 DEF Started
<1> QED BY <1>10, <1>11, <1>12, WorkSpared DEF IInv

\* A job that starts is not new any more; nothing resets its attempts.
LEMMA ExecuteWork ==
  ASSUME IsFiniteSet(Threads), IInv, Started, NewWorkBounded, NEW t \in Threads,
         Start(t) \/ Finish(t)
  PROVE  Started' /\ NewWorkBounded'
<1> DEFINE j == thread[t].job
<1>1. /\ thread[t].phase \in {"start", "run"} /\ j \in Jobs
      /\ UNCHANGED <<queue, scheduled>>
      /\ queue \in Seq(Jobs) /\ scheduled \subseteq Jobs
      /\ jobs \in [Jobs -> Record] /\ jobs[j].attempts \in Nat
  BY RecordFacts DEF Start, Finish, IInv, TypeOK, Session, ThreadsOK
<1>2. /\ \A i \in Jobs : i # j => jobs'[i] = jobs[i]
      /\ jobs'[j].attempts \in Nat /\ jobs'[j].attempts >= jobs[j].attempts
      /\ jobs'[j].attempts >= 1
  <2>1. CASE Start(t)
    <3> DEFINE new == [jobs[j] EXCEPT !.status = "running", !.attempts = @ + 1]
    <3>1. new.attempts = jobs[j].attempts + 1 /\ jobs' = [jobs EXCEPT ![j] = new]
      BY <1>1, <2>1 DEF Start, Record
    <3> HIDE DEF new
    <3> QED BY <1>1, <3>1
  <2>2. CASE Finish(t)
    <3>1. PICK status \in {"success", "error"} :
            jobs' = [jobs EXCEPT ![j] = [jobs[j] EXCEPT !.status = status]]
      BY <2>2 DEF Finish
    <3> DEFINE new == [jobs[j] EXCEPT !.status = status]
    <3>2. new.attempts = jobs[j].attempts /\ jobs' = [jobs EXCEPT ![j] = new]
      BY <1>1, <3>1 DEF Record
    <3>3. thread[t].phase = "run"
      BY <2>2 DEF Finish
    <3>4. jobs[j].attempts >= 1
      BY <3>3 DEF Started
    <3> HIDE DEF new
    <3> QED BY <1>1, <3>2, <3>4
  <2> QED BY <2>1, <2>2
<1>3. /\ \A u \in Threads : u # t => thread'[u] = thread[u]
      /\ thread'[t].phase \in {"run", "file"} /\ thread'[t].job = j
  BY GotoPhase DEF Start, Finish, IInv
<1>4. /\ ToSet(queue) \subseteq Jobs
      /\ \A u \in Threads : thread[u].phase \in {"run", "file"} => thread[u].job \in Jobs
  BY <1>1, InToSet DEF IInv, TypeOK, Session, ThreadsOK
<1> HIDE DEF j
<1>5. Unstarted' \subseteq Unstarted /\ Appending' \subseteq Appending
  BY <1>1, <1>2, <1>3, <1>4 DEF Unstarted, Appending
<1>6. Started'
  <2>1. \A i \in Jobs : jobs[i].attempts >= 1 => jobs'[i].attempts >= 1
    BY <1>1, <1>2
  <2> QED BY <1>1, <1>2, <1>3, <1>4, <2>1 DEF Started
<1> QED BY <1>1, <1>5, <1>6, WorkSpared DEF IInv

LEMMA FileWork ==
  ASSUME IsFiniteSet(Threads), IInv, Started, NewWorkBounded, NEW t \in Threads,
         File(t) \/ Bury(t)
  PROVE  Started' /\ NewWorkBounded'
<1>1. /\ UNCHANGED <<jobs, queue>>
      /\ \A j \in scheduled' : j \in scheduled \/ (thread[t].phase = "file" /\ j = thread[t].job)
  BY DEF File, Bury
<1>2. \A u \in Threads : thread'[u] = thread[u] \/ thread'[u].phase \in {"bury", "idle", "loop"}
  <2>1. CASE File(t)
    BY <2>1, GotoPhase DEF File, IInv
  <2>2. CASE Bury(t)
    BY <2>2 DEF Bury, IInv, TypeOK, Idle
  <2> QED BY <2>1, <2>2
<1>3. Unstarted' \subseteq Unstarted /\ Appending' \subseteq Appending
  BY <1>1, <1>2 DEF Unstarted, Appending
<1>4. Started'
  BY <1>1, <1>2 DEF Started
<1> QED BY <1>1, <1>3, <1>4, WorkSpared DEF IInv

-----------------------------------------------------------------------------
(* The theorems *)

LEMMA NextIInv == IInv /\ [Next]_vars => IInv'
<1> SUFFICES ASSUME IInv, [Next]_vars PROVE IInv'
  OBVIOUS
<1>1. CASE PurgeDeadLetter \/ (\E j \in Jobs : Elapse(j)) \/ UNCHANGED vars
  BY <1>1, QuietStep
<1>2. ASSUME NEW t \in Threads, Begin(t) PROVE IInv'
  <2>1. ASSUME NEW retries \in Retries, NEW every \in BOOLEAN, Enqueue(t, retries, every)
        PROVE  IInv'
    BY <2>1, EnqueueStep
  <2>2. ASSUME NEW j \in Jobs, RequeueDeadLetter(t, j) PROVE IInv'
    BY <2>2, RequeueDeadLetterStep
  <2>3. ASSUME NEW j \in Jobs, RunJobId(t, j) PROVE IInv'
    BY <2>3, RunJobIdStep
  <2>4. CASE RunNext(t)
    BY <2>4, PopStep DEF RunNext
  <2>5. CASE Tick(t)
    BY <2>5, TickStep
  <2> QED BY <1>2, <2>1, <2>2, <2>3, <2>4, <2>5 DEF Begin
<1>3. ASSUME NEW t \in Threads, Continue(t) PROVE IInv'
  BY <1>3, InsertStep, CheckStep, LoopStep, StartStep, FinishStep, FileStep, BuryStep DEF Continue
<1> QED BY <1>1, <1>2, <1>3 DEF Next

\* The threads hold jobs as their phases say, an id without a record is nowhere
\* else, a job that is to run or to be filed is where someone will find it, and
\* what is unnamed is in one place with attempts left: whatever the endpoints do.
THEOREM Invariance == Spec => []IInv
<1>1. Init => IInv
  BY InitIInv
<1>2. IInv /\ [Next]_vars => IInv'
  BY NextIInv
<1> QED BY <1>1, <1>2, PTL DEF Spec

\* The records, the queue, the schedule, the dead letters (never more than the
\* deque holds) and the threads are what the code takes them for.
THEOREM TypeCorrect == Spec => []TypeOK
<1>1. IInv => TypeOK
  BY DEF IInv
<1> QED BY <1>1, Invariance, PTL

\* No job is forgotten: while it is to run, to run again or to finish, it is
\* queued, scheduled or in the hands of a thread, although _execute changes
\* status and schedule with the lock released.
THEOREM NothingForgotten == Spec => []NoJobForgotten
<1>1. ASSUME IInv PROVE NoJobForgotten
  <2>1. ASSUME NEW j \in Jobs, NEW t \in Threads, thread[t].job = j,
               thread[t].phase \in {"check", "start", "run", "file"}
        PROVE  Held(j)
    BY <2>1 DEF Held, Holds
  <2> QED BY <1>1, <2>1 DEF IInv, Pending, NoJobForgotten, Waiting
<1> QED BY <1>1, Invariance, PTL

\* A job that was never run by id is once on the queue, or scheduled, or in the
\* hands of one thread: run_next and tick execute no job twice at once.
THEOREM OneAtATime == Spec => []OnePlace
<1>1. IInv => OnePlace
  BY DEF IInv
<1> QED BY <1>1, Invariance, PTL

\* Such a job is tried at most once more than max_retries; what is on the dead
\* letter list has failed for good, waits nowhere, and nobody executes it,
\* although _execute reads the record a second time after it has let go of the job.
THEOREM RetriesKept == Spec => []RetriesBounded
<1>1. IInv => RetriesBounded
  BY DEF IInv, Tries, DeadOK, RetriesBounded
<1> QED BY <1>1, Invariance, PTL

\* The bound of the queue holds up to the race between its test and the append:
\* with finitely many threads, the jobs that wait for their first run and those
\* about to be appended are fewer than _MAX_QUEUE and the threads together.
THEOREM QueueBounded == IsFiniteSet(Threads) /\ Spec => []NewWorkBounded
<1> SUFFICES ASSUME IsFiniteSet(Threads) PROVE Spec => []NewWorkBounded
  OBVIOUS
<1>1. Init => Started /\ NewWorkBounded
  <2> SUFFICES ASSUME Init PROVE Started /\ NewWorkBounded
    OBVIOUS
  <2>1. ToSet(<<>>) = {}
    BY DEF ToSet
  <2>2. Unstarted = {} /\ Appending = {}
    BY <2>1 DEF Init, Idle, Unstarted, Appending
  <2> QED BY <2>2 DEF Init, Idle, Started, NewWorkBounded
<1>2. IInv /\ Started /\ NewWorkBounded /\ [Next]_vars => Started' /\ NewWorkBounded'
  <2> SUFFICES ASSUME IInv, Started, NewWorkBounded, [Next]_vars
               PROVE  Started' /\ NewWorkBounded'
    OBVIOUS
  <2>1. TypeOK'
    BY NextIInv DEF IInv
  <2>2. CASE PurgeDeadLetter \/ (\E j \in Jobs : Elapse(j)) \/ UNCHANGED vars
    <3>1. UNCHANGED <<jobs, queue, scheduled, thread>>
      BY <2>2 DEF PurgeDeadLetter, Elapse, vars
    <3> QED BY <3>1 DEF Started, NewWorkBounded, Unstarted, Appending
  <2>3. ASSUME NEW t \in Threads, Begin(t) PROVE Started' /\ NewWorkBounded'
    <3>1. CASE \E retries \in Retries, every \in BOOLEAN : Enqueue(t, retries, every)
      BY <2>1, <3>1, EnqueueWork
    <3>2. CASE \E j \in Jobs : RequeueDeadLetter(t, j)
      BY <2>1, <3>2, EnqueueWork DEF RequeueDeadLetter
    <3>3. CASE \E j \in Jobs : RunJobId(t, j)
      BY <3>3, RunJobIdWork
    <3>4. CASE RunNext(t)
      BY <3>4, PopWork DEF RunNext
    <3>5. CASE Tick(t)
      BY <3>5, TickWork
    <3> QED BY <2>3, <3>1, <3>2, <3>3, <3>4, <3>5 DEF Begin
  <2>4. ASSUME NEW t \in Threads, Continue(t) PROVE Started' /\ NewWorkBounded'
    <3>1. CASE Insert(t) \/ Check(t) \/ File(t) \/ Bury(t)
      BY <3>1, InsertWork, CheckWork, FileWork
    <3>2. CASE Start(t) \/ Finish(t)
      BY <3>2, ExecuteWork
    <3>3. CASE Loop(t)
      <4>1. CASE Pop(t)
        BY <4>1, PopWork
      <4>2. CASE thread' = [thread EXCEPT ![t] = Idle]
                 /\ UNCHANGED <<jobs, queue, scheduled, due, dead, named>>
        <5>1. \A u \in Threads : thread'[u] = thread[u] \/ thread'[u].phase = "idle"
          BY <4>2 DEF IInv, TypeOK, Idle
        <5> QED BY <4>2, <5>1, QueueShrinks DEF IInv
      <4> QED BY <3>3, <4>1, <4>2 DEF Loop
    <3> QED BY <2>4, <3>1, <3>2, <3>3 DEF Continue
  <2> QED BY <2>2, <2>3, <2>4 DEF Next
<1> QED BY <1>1, <1>2, Invariance, PTL DEF Spec
=============================================================================
