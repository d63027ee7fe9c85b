------------------------ MODULE EventSchedulerProofs ------------------------
(***************************************************************************)
(* Proofs that bdlmt::EventScheduler keeps its queues, callbacks and       *)
(* thread consistent, that no wakeup of the dispatcher is lost, that what  *)
(* it starts is due and wanted, and that the calls that wait for a         *)
(* callback return when it is over, whatever the number of clients and     *)
(* events and whatever calls the clients and the callbacks make.           *)
(***************************************************************************)
EXTENDS EventScheduler, FiniteSetTheorems, SequenceTheorems, TLAPS

-----------------------------------------------------------------------------
(* The queues: sequences without repetition, in the order of the keys *)

\* The events of s are in the order of their keys K.
Ordered(s, K) == \A i, j \in 1 .. Len(s) : i < j => K[s[i]] <= K[s[j]]

\* A sequence that lacks the i-th element of another.
LEMMA DropOne ==
    ASSUME NEW s \in Seq(Event), IsInjective(s), NEW i \in 1 .. Len(s),
           NEW K \in [Event -> Int], Ordered(s, K)
    PROVE  LET r == RemoveAt(s, i)
           IN  /\ r \in Seq(Event)
               /\ ToSet(r) = ToSet(s) \ {s[i]}
               /\ IsInjective(r)
               /\ Ordered(r, K)
<1> DEFINE m  == Len(s)
           s1 == SubSeq(s, 1, i - 1)
           s2 == SubSeq(s, i + 1, m)
<1>1. /\ m \in Nat /\ i \in 1 .. m
      /\ DOMAIN s = 1 .. m
      /\ \A k \in 1 .. m : s[k] \in Event
  OBVIOUS
<1>2. /\ \A k, l \in 1 .. m : s[k] = s[l] => k = l
      /\ \A k, l \in 1 .. m : k < l => K[s[k]] <= K[s[l]]
  BY <1>1 DEF IsInjective, Ordered
<1>3. RemoveAt(s, i) = s1 \o s2
  BY DEF RemoveAt
<1> HIDE DEF m
<1>4. /\ s1 \in Seq(Event)
      /\ Len(s1) = i - 1
      /\ \A k \in 1 .. i - 1 : s1[k] = s[k]
  <2>1. /\ 1 \in Int /\ i - 1 \in Int
        /\ \A k \in 1 .. i - 1 : s[k] \in Event
    BY <1>1
  <2>2. /\ s1 \in Seq(Event)
        /\ Len(s1) = IF 1 <= i - 1 THEN i - 1 - 1 + 1 ELSE 0
        /\ \A k \in 1 .. i - 1 - 1 + 1 : s1[k] = s[1 + k - 1]
    BY <2>1, SubSeqProperties
  <2> HIDE DEF s1
  <2>3. Len(s1) = i - 1
    BY <1>1, <2>2
  <2>4. ASSUME NEW k \in 1 .. i - 1
        PROVE  s1[k] = s[k]
    <3>1. k \in 1 .. i - 1 - 1 + 1 /\ 1 + k - 1 = k
      BY <1>1
    <3> QED BY <2>2, <3>1
  <2> QED BY <2>2, <2>3, <2>4
<1>5. /\ s2 \in Seq(Event)
      /\ Len(s2) = m - i
      /\ \A k \in 1 .. m - i : s2[k] = s[i + k]
  <2>1. /\ i + 1 \in Int /\ m \in Int
        /\ \A k \in i + 1 .. m : s[k] \in Event
    BY <1>1
  <2>2. /\ s2 \in Seq(Event)
        /\ Len(s2) = IF i + 1 <= m THEN m - (i + 1) + 1 ELSE 0
        /\ \A k \in 1 .. m - (i + 1) + 1 : s2[k] = s[i + 1 + k - 1]
    BY <2>1, SubSeqProperties
  <2> HIDE DEF s2
  <2>3. Len(s2) = m - i
    BY <1>1, <2>2
  <2>4. ASSUME NEW k \in 1 .. m - i
        PROVE  s2[k] = s[i + k]
    <3>1. k \in 1 .. m - (i + 1) + 1 /\ i + 1 + k - 1 = i + k
      BY <1>1
    <3> QED BY <2>2, <3>1
  <2> QED BY <2>2, <2>3, <2>4
<1> HIDE DEF s1, s2
<1> DEFINE r == s1 \o s2
           from(k) == IF k < i THEN k ELSE k + 1
<1>6. /\ r \in Seq(Event)
      /\ Len(r) = m - 1
      /\ \A k \in 1 .. m - 1 : r[k] = s[from(k)]
  <2>1. /\ r \in Seq(Event)
        /\ Len(r) = Len(s1) + Len(s2)
        /\ \A k \in 1 .. Len(s1) + Len(s2) :
              r[k] = IF k <= Len(s1) THEN s1[k] ELSE s2[k - Len(s1)]
    BY <1>4, <1>5, ConcatProperties
  <2> HIDE DEF r
  <2>2. Len(s1) + Len(s2) = m - 1
    BY <1>1, <1>4, <1>5
  <2>3. ASSUME NEW k \in 1 .. m - 1
        PROVE  r[k] = s[from(k)]
    <3>1. r[k] = IF k <= i - 1 THEN s1[k] ELSE s2[k - (i - 1)]
      BY <1>4, <2>1, <2>2
    <3>2. CASE k < i
      <4>1. k <= i - 1 /\ k \in 1 .. i - 1
        BY <1>1, <3>2
      <4> QED BY <1>4, <3>1, <3>2, <4>1
    <3>3. CASE ~(k < i)
      <4>1. /\ k - (i - 1) \in 1 .. m - i
            /\ ~(k <= i - 1)
            /\ i + (k - (i - 1)) = k + 1
        BY <1>1, <3>3
      <4> QED BY <1>5, <3>1, <3>3, <4>1
    <3> QED BY <3>2, <3>3
  <2> QED BY <2>1, <2>2, <2>3
<1> HIDE DEF r
<1>7. DOMAIN r = 1 .. m - 1
  BY <1>1, <1>6
<1>8. /\ \A k \in 1 .. m - 1 : from(k) \in 1 .. m /\ from(k) # i
      /\ \A k, l \in 1 .. m - 1 : k < l => from(k) < from(l)
      /\ \A k, l \in 1 .. m - 1 : from(k) = from(l) => k = l
      /\ \A k \in 1 .. m : k # i => \E l \in 1 .. m - 1 : from(l) = k
  <2>1. /\ \A k \in 1 .. m - 1 : from(k) \in 1 .. m /\ from(k) # i
        /\ \A k, l \in 1 .. m - 1 : k < l => from(k) < from(l)
        /\ \A k, l \in 1 .. m - 1 : from(k) = from(l) => k = l
    BY <1>1
  <2>2. ASSUME NEW k \in 1 .. m, k # i
        PROVE  \E l \in 1 .. m - 1 : from(l) = k
    <3>1. CASE k < i
      <4>1. k \in 1 .. m - 1 /\ from(k) = k
        BY <1>1, <3>1
      <4> QED BY <4>1
    <3>2. CASE k > i
      <4>1. /\ k - 1 \in 1 .. m - 1
            /\ ~(k - 1 < i) /\ k - 1 + 1 = k
        BY <1>1, <3>2
      <4> QED BY <4>1
    <3> QED BY <1>1, <2>2, <3>1, <3>2
  <2> QED BY <2>1, <2>2
<1> HIDE DEF from
<1>9. IsInjective(r)
  <2> SUFFICES ASSUME NEW k \in 1 .. m - 1, NEW l \in 1 .. m - 1, r[k] = r[l]
               PROVE  k = l
    BY <1>7 DEF IsInjective
  <2>1. s[from(k)] = s[from(l)] /\ from(k) \in 1 .. m /\ from(l) \in 1 .. m
    BY <1>6, <1>8
  <2>2. from(k) = from(l)
    BY <1>2, <2>1
  <2> QED BY <1>8, <2>2
<1>10. Ordered(r, K)
  <2> SUFFICES ASSUME NEW k \in 1 .. m - 1, NEW l \in 1 .. m - 1, k < l
               PROVE  K[r[k]] <= K[r[l]]
    BY <1>6 DEF Ordered
  <2>1. from(k) < from(l) /\ from(k) \in 1 .. m /\ from(l) \in 1 .. m
    BY <1>8
  <2>2. K[s[from(k)]] <= K[s[from(l)]]
    BY <1>2, <2>1
  <2> QED BY <1>6, <2>2
<1>11. ToSet(r) = ToSet(s) \ {s[i]}
  <2>1. ToSet(r) = {r[k] : k \in 1 .. m - 1} /\ ToSet(s) = {s[k] : k \in 1 .. m}
    BY <1>1, <1>7 DEF ToSet
  <2>2. ASSUME NEW k \in 1 .. m - 1
        PROVE  r[k] \in {s[l] : l \in 1 .. m} \ {s[i]}
    <3>1. from(k) \in 1 .. m /\ from(k) # i /\ r[k] = s[from(k)]
      BY <1>6, <1>8
    <3>2. s[from(k)] # s[i]
      BY <1>1, <1>2, <3>1
    <3> QED BY <3>1, <3>2
  <2>3. ASSUME NEW k \in 1 .. m, s[k] # s[i]
        PROVE  s[k] \in {r[l] : l \in 1 .. m - 1}
    <3>1. PICK l \in 1 .. m - 1 : from(l) = k
      BY <1>8, <2>3
    <3> QED BY <1>6, <3>1
  <2> QED BY <2>1, <2>2, <2>3
<1> QED BY <1>3, <1>6, <1>9, <1>10, <1>11 DEF r

\* What removing an event leaves of a queue.
LEMMA WithoutSeq ==
    ASSUME NEW s \in Seq(Event), IsInjective(s), NEW e \in Event,
           NEW K \in [Event -> Int], Ordered(s, K)
    PROVE  /\ Without(s, e) \in Seq(Event)
           /\ ToSet(Without(s, e)) = ToSet(s) \ {e}
           /\ IsInjective(Without(s, e))
           /\ Ordered(Without(s, e), K)
<1>1. CASE e \notin ToSet(s)
  BY <1>1 DEF Without
<1>2. CASE e \in ToSet(s)
  <2> DEFINE i == CHOOSE i \in DOMAIN s : s[i] = e
  <2>1. DOMAIN s = 1 .. Len(s)
    OBVIOUS
  <2>2. i \in 1 .. Len(s) /\ s[i] = e
    BY <1>2, <2>1 DEF ToSet
  <2>3. Without(s, e) = RemoveAt(s, i)
    BY <1>2 DEF Without
  <2> HIDE DEF i
  <2> QED BY <2>2, <2>3, DropOne
<1> QED BY <1>1, <1>2

\* The events of a queue whose keys are not after a time are its first ones.
LEMMA PrefixLength ==
    ASSUME NEW s \in Seq(Event), NEW K \in [Event -> Int], Ordered(s, K),
           NEW time \in Int
    PROVE  LET n == Cardinality({i \in DOMAIN s : K[s[i]] <= time})
           IN  /\ n \in 0 .. Len(s)
               /\ \A i \in 1 .. Len(s) : K[s[i]] <= time <=> i <= n
<1> DEFINE P == {i \in DOMAIN s : K[s[i]] <= time}
           n == Cardinality(P)
<1>1. /\ Len(s) \in Nat /\ DOMAIN s = 1 .. Len(s)
      /\ \A i \in 1 .. Len(s) : s[i] \in Event /\ K[s[i]] \in Int
  OBVIOUS
<1>2. /\ IsFiniteSet(1 .. Len(s)) /\ Cardinality(1 .. Len(s)) = Len(s)
  <2>1. IsFiniteSet(1 .. Len(s))
        /\ Cardinality(1 .. Len(s)) = IF 1 > Len(s) THEN 0 ELSE Len(s) - 1 + 1
    BY <1>1, FS_Interval
  <2> QED BY <1>1, <2>1
<1>3. /\ IsFiniteSet(P) /\ n \in Nat /\ n <= Len(s)
  <2>1. P \subseteq 1 .. Len(s)
    BY <1>1
  <2>2. IsFiniteSet(P) /\ n <= Len(s)
    BY <1>2, <2>1, FS_Subset
  <2> QED BY <2>2, FS_CardinalityType
<1>4. ASSUME NEW i \in 1 .. Len(s), i \in P
      PROVE  i <= n
  <2>1. 1 .. i \subseteq P
    <3> SUFFICES ASSUME NEW j \in 1 .. i, j # i PROVE j \in P
      BY <1>4
    <3>1. j \in 1 .. Len(s) /\ j < i
      BY <1>1
    <3>2. K[s[j]] <= K[s[i]] /\ K[s[i]] <= time
      BY <1>4, <3>1 DEF Ordered
    <3> QED BY <1>1, <3>1, <3>2
  <2>2. Cardinality(1 .. i) <= n
    BY <1>3, <2>1, FS_Subset
  <2>3. Cardinality(1 .. i) = IF 1 > i THEN 0 ELSE i - 1 + 1
    BY <1>1, FS_Interval
  <2> QED BY <1>1, <1>3, <2>2, <2>3
<1>5. ASSUME NEW i \in 1 .. Len(s), i \notin P
      PROVE  ~(i <= n)
  <2>1. P \subseteq 1 .. i - 1
    <3> SUFFICES ASSUME NEW j \in P, ~(j < i) PROVE FALSE
      BY <1>1
    <3>1. j \in 1 .. Len(s) /\ i < j
      BY <1>1, <1>5
    <3>2. K[s[i]] <= K[s[j]] /\ K[s[j]] <= time
      BY <3>1 DEF Ordered
    <3> QED BY <1>1, <1>5, <3>1, <3>2
  <2> DEFINE h == i - 1
  <2>a. h \in Int
    BY <1>1
  <2> HIDE DEF h
  <2>b. /\ IsFiniteSet(1 .. h)
        /\ Cardinality(1 .. h) = IF 1 > h THEN 0 ELSE h - 1 + 1
    BY <2>a, FS_Interval
  <2>2. /\ IsFiniteSet(1 .. i - 1)
        /\ Cardinality(1 .. i - 1) = IF 1 > i - 1 THEN 0 ELSE i - 1 - 1 + 1
    BY <2>b DEF h
  <2>3. n <= Cardinality(1 .. i - 1)
    BY <2>1, <2>2, FS_Subset
  <2> QED BY <1>1, <1>3, <2>2, <2>3
<1> HIDE DEF n
<1>6. \A i \in 1 .. Len(s) : i \in P <=> K[s[i]] <= time
  BY <1>1
<1> HIDE DEF P
<1>7. \A i \in 1 .. Len(s) : K[s[i]] <= time <=> i <= n
  BY <1>4, <1>5, <1>6
<1> QED BY <1>1, <1>3, <1>7 DEF n, P

\* The two concatenations InsertAt is made of.
LEMMA InsertAtConcat ==
    ASSUME NEW s, NEW i, NEW e
    PROVE  InsertAt(s, i, e) = (SubSeq(s, 1, i - 1) \o <<e>>) \o SubSeq(s, i, Len(s))
BY DEF InsertAt

\* Appending an event to a queue.
LEMMA ConcatOne ==
    ASSUME NEW s \in Seq(Event), NEW n \in Nat, Len(s) = n, NEW e \in Event
    PROVE  LET h == s \o <<e>>
           IN  /\ h \in Seq(Event)
               /\ Len(h) = n + 1
               /\ \A k \in 1 .. n : h[k] = s[k]
               /\ h[n + 1] = e
OBVIOUS

\* A sequence with an element more, behind its first n.
LEMMA AddOne ==
    ASSUME NEW s \in Seq(Event), IsInjective(s), NEW n \in 0 .. Len(s),
           NEW e \in Event, e \notin ToSet(s),
           NEW K \in [Event -> Int], Ordered(s, K),
           \A i \in 1 .. Len(s) : K[s[i]] <= K[e] <=> i <= n
    PROVE  LET r == InsertAt(s, n + 1, e)
           IN  /\ r \in Seq(Event)
               /\ ToSet(r) = ToSet(s) \cup {e}
               /\ IsInjective(r)
               /\ Ordered(r, K)
<1> DEFINE p == n + 1
<1>0. p \in Int /\ p = n + 1
  OBVIOUS
<1> HIDE DEF p
<1> DEFINE m  == Len(s)
           s1 == SubSeq(s, 1, p - 1)
           s2 == SubSeq(s, p, m)
<1>1. /\ m \in Nat /\ n \in 0 .. m
      /\ DOMAIN s = 1 .. m
      /\ \A k \in 1 .. m : s[k] \in Event /\ K[s[k]] \in Int
      /\ K[e] \in Int
  OBVIOUS
<1>2. /\ \A k, l \in 1 .. m : s[k] = s[l] => k = l
      /\ \A k, l \in 1 .. m : k < l => K[s[k]] <= K[s[l]]
      /\ \A k \in 1 .. m : s[k] # e
      /\ \A k \in 1 .. m : K[s[k]] <= K[e] <=> k <= n
  BY <1>1 DEF IsInjective, Ordered, ToSet
<1>3. InsertAt(s, p, e) = (s1 \o <<e>>) \o s2
  BY InsertAtConcat
<1> HIDE DEF m
<1>4. /\ s1 \in Seq(Event)
      /\ Len(s1) = n
      /\ \A k \in 1 .. n : s1[k] = s[k]
  <2>1. /\ 1 \in Int /\ p - 1 \in Int
        /\ \A k \in 1 .. p - 1 : s[k] \in Event
    BY <1>0, <1>1
  <2>2. /\ s1 \in Seq(Event)
        /\ Len(s1) = IF 1 <= p - 1 THEN p - 1 - 1 + 1 ELSE 0
        /\ \A k \in 1 .. p - 1 - 1 + 1 : s1[k] = s[1 + k - 1]
    BY <2>1, SubSeqProperties
  <2> HIDE DEF s1
  <2>3. Len(s1) = n
    BY <1>0, <1>1, <2>2
  <2>4. ASSUME NEW k \in 1 .. n
        PROVE  s1[k] = s[k]
    <3>1. k \in 1 .. p - 1 - 1 + 1 /\ 1 + k - 1 = k
      BY <1>0, <1>1
    <3> QED BY <2>2, <3>1
  <2> QED BY <2>2, <2>3, <2>4
<1>5. /\ s2 \in Seq(Event)
      /\ Len(s2) = m - n
      /\ \A k \in 1 .. m - n : s2[k] = s[n + k]
  <2>1. /\ p \in Int /\ m \in Int
        /\ \A k \in p .. m : s[k] \in Event
    BY <1>0, <1>1
  <2>2. /\ s2 \in Seq(Event)
        /\ Len(s2) = IF p <= m THEN m - p + 1 ELSE 0
        /\ \A k \in 1 .. m - p + 1 : s2[k] = s[p + k - 1]
    BY <2>1, SubSeqProperties
  <2> HIDE DEF s2
  <2>3. Len(s2) = m - n
    BY <1>0, <1>1, <2>2
  <2>4. ASSUME NEW k \in 1 .. m - n
        PROVE  s2[k] = s[n + k]
    <3>1. k \in 1 .. m - p + 1 /\ p + k - 1 = n + k
      BY <1>0, <1>1
    <3> QED BY <2>2, <3>1
  <2> QED BY <2>2, <2>3, <2>4
<1> HIDE DEF s1, s2
<1> DEFINE h == s1 \o <<e>>
<1>6. /\ h \in Seq(Event)
      /\ Len(h) = n + 1
      /\ \A k \in 1 .. n : h[k] = s[k]
      /\ h[n + 1] = e
  BY <1>1, <1>4, ConcatOne
<1> HIDE DEF h
<1> DEFINE r == h \o s2
           value(k) == IF k <= n THEN s[k] ELSE IF k = n + 1 THEN e ELSE s[k - 1]
<1>7. /\ r \in Seq(Event)
      /\ Len(r) = m + 1
      /\ \A k \in 1 .. m + 1 : r[k] = value(k)
  <2>1. /\ r \in Seq(Event)
        /\ Len(r) = Len(h) + Len(s2)
        /\ \A k \in 1 .. Len(h) + Len(s2) :
              r[k] = IF k <= Len(h) THEN h[k] ELSE s2[k - Len(h)]
    BY <1>5, <1>6, ConcatProperties
  <2> HIDE DEF r
  <2>2. Len(h) + Len(s2) = m + 1
    BY <1>1, <1>5, <1>6
  <2>3. ASSUME NEW k \in 1 .. m + 1
        PROVE  r[k] = value(k)
    <3>1. r[k] = IF k <= n + 1 THEN h[k] ELSE s2[k - (n + 1)]
      BY <1>6, <2>1, <2>2
    <3>2. CASE k <= n
      <4>1. k \in 1 .. n /\ k <= n + 1
        BY <1>1, <3>2
      <4> QED BY <1>6, <3>1, <3>2, <4>1
    <3>3. CASE k = n + 1
      <4>1. ~(k <= n) /\ k <= n + 1
        BY <1>1, <3>3
      <4> QED BY <1>6, <3>1, <3>3, <4>1
    <3>4. CASE k > n + 1
      <4>1. /\ k - (n + 1) \in 1 .. m - n
            /\ ~(k <= n + 1) /\ ~(k <= n) /\ k # n + 1
            /\ n + (k - (n + 1)) = k - 1
        BY <1>1, <3>4
      <4> QED BY <1>5, <3>1, <4>1
    <3>5. k <= n \/ k = n + 1 \/ k > n + 1
      BY <1>1
    <3> QED BY <3>2, <3>3, <3>4, <3>5
  <2> QED BY <2>1, <2>2, <2>3
<1> HIDE DEF r
<1>8. DOMAIN r = 1 .. m + 1
  BY <1>1, <1>7
<1>9. ASSUME NEW k \in 1 .. m + 1
      PROVE  \/ k <= n /\ k \in 1 .. m /\ r[k] = s[k]
             \/ k = n + 1 /\ r[k] = e
             \/ k > n + 1 /\ k - 1 \in 1 .. m /\ r[k] = s[k - 1]
  <2>1. r[k] = value(k)
    BY <1>7
  <2>2. CASE k <= n
    <3>1. k \in 1 .. m
      BY <1>1, <2>2
    <3> QED BY <2>1, <2>2, <3>1
  <2>3. CASE k = n + 1
    <3>1. ~(k <= n)
      BY <1>1, <2>3
    <3> QED BY <2>1, <2>3, <3>1
  <2>4. CASE k > n + 1
    <3>1. ~(k <= n) /\ k # n + 1 /\ k - 1 \in 1 .. m
      BY <1>1, <2>4
    <3> QED BY <2>1, <2>4, <3>1
  <2>5. k <= n \/ k = n + 1 \/ k > n + 1
    BY <1>1
  <2> QED BY <2>2, <2>3, <2>4, <2>5
<1> HIDE DEF value
<1>10. IsInjective(r)
  <2> SUFFICES ASSUME NEW k \in 1 .. m + 1, NEW l \in 1 .. m + 1, r[k] = r[l]
               PROVE  k = l
    BY <1>8 DEF IsInjective
  <2>1. r[k] = e => k = n + 1
    BY <1>2, <1>9
  <2>2. r[l] = e => l = n + 1
    BY <1>2, <1>9
  <2>3. CASE r[k] = e
    BY <2>1, <2>2, <2>3
  <2>4. CASE r[k] # e
    <3>1. \/ k <= n /\ k \in 1 .. m /\ r[k] = s[k]
          \/ k > n + 1 /\ k - 1 \in 1 .. m /\ r[k] = s[k - 1]
      BY <1>9, <2>4
    <3>2. \/ l <= n /\ l \in 1 .. m /\ r[l] = s[l]
          \/ l > n + 1 /\ l - 1 \in 1 .. m /\ r[l] = s[l - 1]
      BY <1>9, <2>4
    <3>3. CASE k <= n /\ k \in 1 .. m /\ r[k] = s[k]
      BY <1>1, <1>2, <3>2, <3>3
    <3>4. CASE k > n + 1 /\ k - 1 \in 1 .. m /\ r[k] = s[k - 1]
      <4>1. CASE l <= n /\ l \in 1 .. m /\ r[l] = s[l]
        <5>1. k - 1 = l
          BY <1>2, <3>4, <4>1
        <5> QED BY <1>1, <3>4, <4>1, <5>1
      <4>2. CASE l > n + 1 /\ l - 1 \in 1 .. m /\ r[l] = s[l - 1]
        <5>1. k - 1 = l - 1
          BY <1>2, <3>4, <4>2
        <5> QED BY <1>1, <5>1
      <4> QED BY <3>2, <4>1, <4>2
    <3> QED BY <3>1, <3>3, <3>4
  <2> QED BY <2>3, <2>4
<1>11. Ordered(r, K)
  <2> SUFFICES ASSUME NEW k \in 1 .. m + 1, NEW l \in 1 .. m + 1, k < l
               PROVE  K[r[k]] <= K[r[l]]
    BY <1>7 DEF Ordered
  <2>1. CASE k <= n /\ k \in 1 .. m /\ r[k] = s[k]
    <3>1. CASE l <= n /\ l \in 1 .. m /\ r[l] = s[l]
      BY <1>2, <2>1, <3>1
    <3>2. CASE l = n + 1 /\ r[l] = e
      BY <1>2, <2>1, <3>2
    <3>3. CASE l > n + 1 /\ l - 1 \in 1 .. m /\ r[l] = s[l - 1]
      <4>1. k < l - 1
        BY <1>1, <2>1, <3>3
      <4> QED BY <1>2, <2>1, <3>3, <4>1
    <3> QED BY <1>9, <3>1, <3>2, <3>3
  <2>2. CASE k = n + 1 /\ r[k] = e
    <3>1. l > n + 1
      BY <2>2
    <3>2. l - 1 \in 1 .. m /\ r[l] = s[l - 1]
      <4>1. ~(l <= n) /\ l # n + 1
        BY <1>1, <3>1
      <4> QED BY <1>9, <4>1
    <3>3. ~(l - 1 <= n)
      BY <1>1, <3>1
    <3>4. ~(K[s[l - 1]] <= K[e])
      BY <1>2, <3>2, <3>3
    <3>5. K[s[l - 1]] \in Int /\ K[e] \in Int
      BY <1>1, <3>2
    <3>6. \A a, b \in Int : ~(a <= b) => b <= a
      OBVIOUS
    <3>7. K[e] <= K[s[l - 1]]
      BY <3>4, <3>5, <3>6
    <3> QED BY <2>2, <3>2, <3>7
  <2>3. CASE k > n + 1 /\ k - 1 \in 1 .. m /\ r[k] = s[k - 1]
    <3>1. ~(l <= n) /\ l # n + 1
      BY <1>1, <2>3
    <3>2. l - 1 \in 1 .. m /\ r[l] = s[l - 1]
      BY <1>9, <3>1
    <3>3. k - 1 < l - 1
      BY <1>1
    <3> QED BY <1>2, <2>3, <3>2, <3>3
  <2> QED BY <1>9, <2>1, <2>2, <2>3
<1>12. ToSet(r) = ToSet(s) \cup {e}
  <2>1. ToSet(r) = {r[k] : k \in 1 .. m + 1} /\ ToSet(s) = {s[k] : k \in 1 .. m}
    BY <1>1, <1>8 DEF ToSet
  <2>2. ASSUME NEW k \in 1 .. m + 1
        PROVE  r[k] \in {s[l] : l \in 1 .. m} \cup {e}
    BY <1>9
  <2>3. ASSUME NEW k \in 1 .. m
        PROVE  s[k] \in {r[l] : l \in 1 .. m + 1}
    <3>1. CASE k <= n
      <4>1. k \in 1 .. m + 1 /\ ~(k = n + 1) /\ ~(k > n + 1)
        BY <1>1, <3>1
      <4>2. r[k] = s[k]
        BY <1>9, <4>1
      <4> QED BY <4>1, <4>2
    <3>2. CASE ~(k <= n)
      <4> DEFINE l == k + 1
      <4>1. l \in 1 .. m + 1 /\ ~(l <= n) /\ l # n + 1 /\ l - 1 = k
        BY <1>1, <3>2
      <4> HIDE DEF l
      <4>2. r[l] = s[k]
        BY <1>9, <4>1
      <4> QED BY <4>1, <4>2
    <3> QED BY <3>1, <3>2
  <2>4. e \in {r[l] : l \in 1 .. m + 1}
    <3> DEFINE l == n + 1
    <3>1. l \in 1 .. m + 1 /\ ~(l <= n) /\ ~(l > n + 1)
      BY <1>1
    <3> HIDE DEF l
    <3>2. r[l] = e
      BY <1>9, <3>1
    <3> QED BY <3>1, <3>2
  <2> QED BY <2>1, <2>2, <2>3, <2>4
<1>13. InsertAt(s, p, e) = r
  BY <1>3 DEF r, h
<1> QED BY <1>7, <1>10, <1>11, <1>12, <1>13 DEF p

\* What inserting an event makes of a queue.
LEMMA InsertedSeq ==
    ASSUME NEW s \in Seq(Event), IsInjective(s),
           NEW e \in Event, e \notin ToSet(s), NEW time \in Int,
           key \in [Event -> Int], Ordered(s, key)
    PROVE  LET r == Inserted(s, e, time)
           IN  /\ r \in Seq(Event)
               /\ ToSet(r) = ToSet(s) \cup {e}
               /\ IsInjective(r)
               /\ Ordered(r, [key EXCEPT ![e] = time])
<1> DEFINE K == [key EXCEPT ![e] = time]
           n == Cardinality({i \in DOMAIN s : key[s[i]] <= time})
<1>1. K \in [Event -> Int] /\ K[e] = time
  OBVIOUS
<1>2. \A i \in 1 .. Len(s) : s[i] # e /\ K[s[i]] = key[s[i]]
  <2> SUFFICES ASSUME NEW i \in 1 .. Len(s)
               PROVE  s[i] # e /\ K[s[i]] = key[s[i]]
    OBVIOUS
  <2>1. s[i] \in ToSet(s) /\ s[i] \in Event
    BY DEF ToSet
  <2> QED BY <2>1
<1>3. /\ n \in 0 .. Len(s)
      /\ \A i \in 1 .. Len(s) : key[s[i]] <= time <=> i <= n
  BY PrefixLength
<1>4. Inserted(s, e, time) = InsertAt(s, n + 1, e)
  BY DEF Inserted
<1> HIDE DEF K, n
<1>5. Ordered(s, K)
  BY <1>2 DEF Ordered
<1>6. \A i \in 1 .. Len(s) : K[s[i]] <= K[e] <=> i <= n
  BY <1>1, <1>2, <1>3
<1> DEFINE r == InsertAt(s, n + 1, e)
<1>7. /\ r \in Seq(Event) /\ ToSet(r) = ToSet(s) \cup {e}
      /\ IsInjective(r) /\ Ordered(r, K)
  BY <1>1, <1>3, <1>5, <1>6, AddOne
<1> HIDE DEF r
<1>8. Inserted(s, e, time) = r
  BY <1>4 DEF r
<1> QED BY <1>7, <1>8 DEF K

\* The first event of a queue has the least key.
LEMMA HeadIsLeast ==
    ASSUME NEW s \in Seq(Event), NEW K \in [Event -> Int], Ordered(s, K),
           NEW e \in ToSet(s)
    PROVE  /\ s # <<>> /\ Head(s) \in ToSet(s)
           /\ K[Head(s)] <= K[e]
<1>1. /\ Len(s) \in Nat /\ DOMAIN s = 1 .. Len(s)
      /\ \A i \in 1 .. Len(s) : s[i] \in Event
  OBVIOUS
<1>2. PICK i \in 1 .. Len(s) : e = s[i]
  BY <1>1 DEF ToSet
<1>3. 1 \in 1 .. Len(s) /\ s # <<>> /\ Head(s) = s[1]
  BY <1>1, <1>2
<1>4. K[s[1]] <= K[s[i]]
  <2>1. CASE i = 1
    <3>1. K[s[1]] \in Int
      BY <1>1, <1>3
    <3> QED BY <2>1, <3>1
  <2>2. CASE i # 1
    <3>1. 1 < i
      BY <1>1, <2>2
    <3> QED BY <1>3, <3>1 DEF Ordered
  <2> QED BY <2>1, <2>2
<1> QED BY <1>1, <1>2, <1>3, <1>4 DEF ToSet

-----------------------------------------------------------------------------
(* The inductive invariant *)

\* The times in the queues are in order.
QueuesOrdered == \A k \in Kind : Ordered(queue[k], key)

\* A client inside a call has a call, a callback calls while it runs, and the
\* place inside a call is one of that call.
InsideCalls ==
    /\ \A c \in Client : /\ step[c] <= Len(program[c])
                         /\ pc[c] # "idle" => step[c] < Len(program[c])
    /\ pc["dispatcher"] # "idle" => at = "run"
    /\ \A t \in Thread :
          /\ pc[t] \in {"add", "signal"} => NextCall(t).op \in Schedules
          /\ pc[t] = "clear" => NextCall(t).op \in Cancels
          /\ pc[t] = "second" => NextCall(t).op \in CancelsAll
          /\ pc[t] \in {"await", "asleep"} =>
                NextCall(t).op \in Waits \cup {"rescheduleEventAndWait"}
          /\ pc[t] = "join" => NextCall(t).op = "stop"

\* The dispatcher is at work on one event, which is due.
CurrentDue ==
    /\ at = "front" => current["once"] = None
    /\ at \in {"act", "run", "return"} =>
          (current["once"] = None <=> current["recurring"] # None)
    /\ \A k \in Kind : current[k] # None =>
          /\ Scheduled(current[k])
          /\ at = "act" => key[current[k]] <= clock
    /\ \A e \in Once : Running(e) => fate[e] = "dispatched"

\* An event is pending when it is queued; one that is being scheduled is new
\* and nobody else schedules it; one whose callback is cleared was cancelled.
FatesRight ==
    /\ \A e \in Event : Queued(e) <=> fate[e] = "pending"
    /\ \A t \in Thread : pc[t] = "add" => fate[EventOf(t)] = "created"
    /\ \A t, u \in Thread :
          pc[t] = "add" /\ pc[u] = "add" /\ EventOf(t) = EventOf(u) => t = u
    /\ \A t \in Thread : pc[t] = "clear" => fate[EventOf(t)] = "cancelled"

\* No thread is about to clear the callback of e.
Cleared(e) == \A t \in Thread : pc[t] = "clear" => EventOf(t) # e

\* Where the callback of an event is.
CallbacksRight ==
    \A e \in Event :
        /\ fate[e] = "created" => d_callback[e] = "user"
        /\ Queued(e) => d_callback[e] = IF Running(e) THEN "marker" ELSE "user"
        /\ fate[e] = "cancelled" /\ Cleared(e) => d_callback[e] = "null"

\* A thread that is not inside stop finds the dispatcher where d_running says.
ThreadRight ==
    /\ at = "none" => ~d_running
    /\ at \in {"front", "act"} => d_running
    /\ StopMeansStopped

\* The front of the recurring queue, once read, stays the least time unless
\* somebody is about to signal.
FrontIsLeast ==
    at = "front" =>
        \/ \A e \in Recurring : Queued(e) =>
              /\ current["recurring"] # None
              /\ key[current["recurring"]] <= key[e]
        \/ \E t \in Thread : pc[t] = "signal"

\* An event that is over is not queued again.
Over(e) == fate[e] \in {"cancelled", "removed", "dispatched"}

\* What a call promises to have waited for is over, and not running any more
\* when the call has returned.
QuietRight ==
    /\ \A e \in quiet : Over(e) /\ ~Running(e)
    /\ \A c \in Client :
          /\ \A e \in covers[c] : Over(e)
          /\ pc[c] \in {"idle", "add", "signal", "join"} => covers[c] = {}
          /\ pc[c] \in {"clear", "await", "asleep"} =>
                \/ covers[c] \subseteq {EventOf(c)}
                \/ NextCall(c).op = "cancelAllEventsAndWait"

SchedulerInv ==
    /\ TypeOK /\ QueuesOrdered /\ InsideCalls /\ CurrentDue /\ FatesRight
    /\ CallbacksRight /\ ThreadRight /\ FrontIsLeast /\ NoLostWakeup /\ QuietRight

-----------------------------------------------------------------------------
(* What the operations do to the queues *)

QueuesOK ==
    /\ queue \in [Kind -> Seq(Event)]
    /\ \A k \in Kind : /\ \A e \in ToSet(queue[k]) : KindOf(e) = k
                       /\ IsInjective(queue[k])
    /\ key \in [Event -> 0 .. Never]
    /\ QueuesOrdered

LEMMA KindOfEvent == \A e \in Event : KindOf(e) \in Kind
BY DEF KindOf, Kind

LEMMA NeverIsLate ==
    /\ MaxTime \in Nat /\ Interval \in Nat /\ Never \in Nat
    /\ MaxTime + Interval < Never
BY EventSchedulerAssumption DEF EventSchedulerAssumption, Never

LEMMA QueuesAreOK ==
    ASSUME TypeOK, QueuesOrdered
    PROVE  QueuesOK
BY DEF TypeOK, QueuesOK

\* A queue whose events are those of another kind has the other key's order.
LEMMA OtherKindOrdered ==
    ASSUME QueuesOK, NEW e \in Event, NEW time \in 0 .. Never,
           NEW k \in Kind, e \notin ToSet(queue[k])
    PROVE  Ordered(queue[k], [key EXCEPT ![e] = time])
<1>1. queue[k] \in Seq(Event) /\ Ordered(queue[k], key) /\ key \in [Event -> 0 .. Never]
  BY DEF QueuesOK, QueuesOrdered
<1>2. ASSUME NEW i \in 1 .. Len(queue[k])
      PROVE  /\ queue[k][i] \in Event /\ queue[k][i] # e
             /\ [key EXCEPT ![e] = time][queue[k][i]] = key[queue[k][i]]
  <2>1. queue[k][i] \in Event /\ queue[k][i] \in ToSet(queue[k])
    BY <1>1 DEF ToSet
  <2> QED BY <1>1, <2>1
<1> QED BY <1>1, <1>2 DEF Ordered

\* The front of a queue has the least key.
LEMMA FrontIsLeastKey ==
    ASSUME NEW q \in [Kind -> Seq(Event)], NEW K \in [Event -> 0 .. Never],
           \A k \in Kind : /\ \A e \in ToSet(q[k]) : KindOf(e) = k
                          /\ Ordered(q[k], K),
           NEW f \in Event, f \in ToSet(q[KindOf(f)])
    PROVE  LET h == Head(q[KindOf(f)])
           IN  /\ h \in Event /\ h \in ToSet(q[KindOf(f)]) /\ KindOf(h) = KindOf(f)
               /\ q[KindOf(f)] # <<>>
               /\ K[h] <= K[f]
<1> DEFINE l == KindOf(f)
           h == Head(q[l])
<1>1. /\ l \in Kind /\ q[l] \in Seq(Event) /\ Ordered(q[l], K) /\ f \in ToSet(q[l])
      /\ K \in [Event -> Int]
  BY KindOfEvent, NeverIsLate
<1>2. q[l] # <<>> /\ h \in ToSet(q[l]) /\ K[h] <= K[f]
  BY <1>1, HeadIsLeast
<1>3. h \in Event
  BY <1>1, <1>2 DEF ToSet
<1>4. KindOf(h) = l
  BY <1>1, <1>2
<1> QED BY <1>2, <1>3, <1>4

\* addR
LEMMA AddRQueues ==
    ASSUME QueuesOK, NEW e \in Event, ~Queued(e), addR(e), key' = key
    PROVE  /\ QueuesOK'
           /\ \A f \in Event : Queued(f)' <=> Queued(f) \/ f = e
<1> DEFINE k == KindOf(e)
           s == queue[k]
           r == Inserted(s, e, key[e])
<1>1. /\ k \in Kind /\ s \in Seq(Event) /\ IsInjective(s) /\ Ordered(s, key)
      /\ key \in [Event -> 0 .. Never] /\ key[e] \in Int /\ e \notin ToSet(s)
  BY KindOfEvent, NeverIsLate DEF QueuesOK, QueuesOrdered, Queued
<1>2. key \in [Event -> Int] /\ [key EXCEPT ![e] = key[e]] = key
  BY <1>1, NeverIsLate
<1>3. /\ r \in Seq(Event) /\ ToSet(r) = ToSet(s) \cup {e}
      /\ IsInjective(r) /\ Ordered(r, key)
  BY <1>1, <1>2, InsertedSeq
<1>4. queue' = [queue EXCEPT ![k] = r]
  BY DEF addR
<1> HIDE DEF r
<1>5. /\ queue' \in [Kind -> Seq(Event)] /\ queue'[k] = r
      /\ \A l \in Kind : l # k => queue'[l] = queue[l]
  BY <1>1, <1>3, <1>4 DEF QueuesOK
<1>6. QueuesOK'
  BY <1>1, <1>3, <1>5 DEF QueuesOK, QueuesOrdered
<1>7. ASSUME NEW f \in Event
      PROVE  Queued(f)' <=> Queued(f) \/ f = e
  BY <1>1, <1>3, <1>5, KindOfEvent DEF Queued
<1> QED BY <1>6, <1>7

\* remove
LEMMA RemoveQueues ==
    ASSUME QueuesOK, NEW e \in Event, remove(e), key' = key
    PROVE  /\ QueuesOK'
           /\ \A f \in Event : Queued(f)' <=> Queued(f) /\ f # e
<1> DEFINE k == KindOf(e)
           s == queue[k]
           r == Without(s, e)
<1>1. /\ k \in Kind /\ s \in Seq(Event) /\ IsInjective(s) /\ Ordered(s, key)
      /\ key \in [Event -> 0 .. Never]
  BY KindOfEvent DEF QueuesOK, QueuesOrdered
<1>2. key \in [Event -> Int]
  BY <1>1, NeverIsLate
<1>3. /\ r \in Seq(Event) /\ ToSet(r) = ToSet(s) \ {e}
      /\ IsInjective(r) /\ Ordered(r, key)
  BY <1>1, <1>2, WithoutSeq
<1>4. queue' = [queue EXCEPT ![k] = r]
  BY DEF remove
<1> HIDE DEF r
<1>5. /\ queue' \in [Kind -> Seq(Event)] /\ queue'[k] = r
      /\ \A l \in Kind : l # k => queue'[l] = queue[l]
  BY <1>1, <1>3, <1>4 DEF QueuesOK
<1>6. QueuesOK'
  BY <1>1, <1>3, <1>5 DEF QueuesOK, QueuesOrdered
<1>7. ASSUME NEW f \in Event
      PROVE  Queued(f)' <=> Queued(f) /\ f # e
  BY <1>1, <1>3, <1>5, KindOfEvent DEF Queued
<1> QED BY <1>6, <1>7

\* updateR
LEMMA UpdateRQueues ==
    ASSUME QueuesOK, NEW e \in Event, Queued(e), NEW time \in 0 .. Never,
           updateR(e, time)
    PROVE  /\ QueuesOK'
           /\ \A f \in Event : Queued(f)' <=> Queued(f)
           /\ key' = [key EXCEPT ![e] = time]
<1> DEFINE k == KindOf(e)
           s == queue[k]
           w == Without(s, e)
           r == Inserted(w, e, time)
           K == [key EXCEPT ![e] = time]
<1>1. /\ k \in Kind /\ s \in Seq(Event) /\ IsInjective(s) /\ Ordered(s, key)
      /\ key \in [Event -> 0 .. Never] /\ time \in Int
  BY KindOfEvent, NeverIsLate DEF QueuesOK, QueuesOrdered
<1>2. key \in [Event -> Int] /\ K \in [Event -> 0 .. Never]
  BY <1>1, NeverIsLate
<1>3. /\ w \in Seq(Event) /\ ToSet(w) = ToSet(s) \ {e}
      /\ IsInjective(w) /\ Ordered(w, key)
  BY <1>1, <1>2, WithoutSeq
<1>4. queue' = [queue EXCEPT ![k] = r] /\ key' = K
  BY DEF updateR
<1> HIDE DEF w
<1>5. e \notin ToSet(w)
  BY <1>3
<1>6. /\ r \in Seq(Event) /\ ToSet(r) = ToSet(w) \cup {e}
      /\ IsInjective(r) /\ Ordered(r, K)
  BY <1>1, <1>2, <1>3, <1>5, InsertedSeq
<1> HIDE DEF r, K
<1>7. /\ queue' \in [Kind -> Seq(Event)] /\ queue'[k] = r
      /\ \A l \in Kind : l # k => queue'[l] = queue[l]
  BY <1>1, <1>4, <1>6 DEF QueuesOK
<1>8. e \in ToSet(s) /\ ToSet(r) = ToSet(s)
  BY <1>3, <1>6 DEF Queued
<1>9. ASSUME NEW l \in Kind
      PROVE  Ordered(queue'[l], key')
  <2>1. CASE l = k
    BY <1>4, <1>6, <1>7, <2>1
  <2>2. CASE l # k
    <3>1. e \notin ToSet(queue[l])
      BY <2>2 DEF QueuesOK
    <3>2. Ordered(queue[l], K)
      BY <3>1, OtherKindOrdered DEF K
    <3> QED BY <1>4, <1>7, <2>2, <3>2
  <2> QED BY <2>1, <2>2
<1>10. QueuesOK'
  <2>1. key' \in [Event -> 0 .. Never] /\ QueuesOrdered'
    BY <1>2, <1>4, <1>9 DEF QueuesOrdered
  <2>2. ASSUME NEW l \in Kind
        PROVE  IsInjective(queue'[l]) /\ ToSet(queue'[l]) = ToSet(queue[l])
    BY <1>6, <1>7, <1>8 DEF QueuesOK
  <2> QED BY <1>7, <2>1, <2>2 DEF QueuesOK
<1>11. ASSUME NEW f \in Event
       PROVE  Queued(f)' <=> Queued(f)
  BY <1>7, <1>8, KindOfEvent DEF Queued
<1> QED BY <1>4, <1>10, <1>11 DEF K

-----------------------------------------------------------------------------
(* Calls *)

\* What a call is given.
LEMMA CallKinds ==
    ASSUME NEW call \in Calls
    PROVE  /\ call.op \in Schedules => call.event \in Event /\ call.time \in 0 .. MaxTime
           /\ call.op \in Reschedules => call.event \in Once /\ call.time \in 0 .. MaxTime
           /\ call.op \in Cancels => call.event \in Event
           /\ call.op \in CancelsAll => call.event = None
<1> USE DEF Schedules, Reschedules, Cancels, CancelsAll, Call, Event
<1>1. CASE call \in {Call(o, None, 0) : o \in {"nothing", "start", "stop"} \cup CancelsAll}
  BY <1>1
<1>2. CASE call \in {Call(o, e, t) : o \in {"scheduleEvent"} \cup Reschedules,
                                     e \in Once, t \in 0 .. MaxTime}
  BY <1>2
<1>3. CASE call \in {Call("scheduleRecurringEvent", e, t) : e \in Recurring,
                                                            t \in 0 .. MaxTime}
  BY <1>3
<1>4. CASE call \in {Call(o, e, 0) : o \in Cancels, e \in Event}
  BY <1>4
<1> QED BY <1>1, <1>2, <1>3, <1>4 DEF Calls

\* Thread t is inside a call, or about to make one.
InCall(t) == IF t \in Client THEN step[t] < Len(program[t]) ELSE at = "run"

LEMMA DispatcherThread ==
    /\ "dispatcher" \in Thread /\ "dispatcher" \notin Client
    /\ \A t \in Thread : t \notin Client => t = "dispatcher"
BY EventSchedulerAssumption DEF EventSchedulerAssumption, Thread

LEMMA InCallWhen ==
    ASSUME InsideCalls, NEW t \in Thread
    PROVE  /\ pc[t] # "idle" => InCall(t)
           /\ \A o : Calling(t, o) => InCall(t) /\ NextCall(t).op \in o /\ pc[t] = "idle"
BY DispatcherThread DEF InsideCalls, InCall, Calling

\* The call a thread makes is one a program may be made of.
LEMMA NextCallType ==
    ASSUME TypeOK, CurrentDue, NEW t \in Thread, InCall(t)
    PROVE  /\ NextCall(t) \in Calls
           /\ t \notin Client => NextCall(t).op \notin {"start", "stop"} /\ at = "run"
<1>1. CASE t \in Client
  <2>1. program[t] \in Seq(Calls) /\ step[t] \in Nat
    BY <1>1, ProgramsAssumption DEF TypeOK, ProgramsAssumption
  <2>2. step[t] + 1 \in 1 .. Len(program[t])
    BY <1>1, <2>1 DEF InCall
  <2>3. program[t][step[t] + 1] \in Calls
    BY <2>1, <2>2
  <2> QED BY <1>1, <2>3 DEF NextCall
<1>2. CASE t \notin Client
  <2> DEFINE e == IF current["once"] # None THEN current["once"] ELSE current["recurring"]
  <2>1. at = "run"
    BY <1>2 DEF InCall
  <2>2. e \in Event
    <3>1. current["once"] \in Event \cup {None} /\ current["recurring"] \in Event \cup {None}
      BY DEF TypeOK, Kind
    <3>2. current["once"] = None => current["recurring"] # None
      BY <2>1 DEF CurrentDue
    <3> QED BY <3>1, <3>2
  <2>3. program[e] \in Calls /\ program[e].op \notin {"start", "stop"}
    BY <2>2, ProgramsAssumption DEF TypeOK, ProgramsAssumption
  <2> QED BY <1>2, <2>1, <2>3 DEF NextCall
<1> QED BY <1>1, <1>2

\* What a thread is scheduling or clearing is an event.
LEMMA EventOfType ==
    ASSUME TypeOK, CurrentDue, InsideCalls, NEW t \in Thread, pc[t] \in {"add", "clear"}
    PROVE  EventOf(t) \in Event
<1>1. InCall(t) /\ NextCall(t).op \in Schedules \cup Cancels
  BY InCallWhen DEF InsideCalls
<1> QED BY <1>1, NextCallType, CallKinds DEF EventOf

\* Thread t goes to the place x of its call, or returns from it.
Move(t, x) ==
    /\ program' = program /\ current' = current
    /\ pc' = [pc EXCEPT ![t] = x]
    /\ \/ /\ x # "idle"
          /\ UNCHANGED <<step, quiet, at>>
       \/ /\ x = "idle" /\ t \in Client
          /\ step' = [step EXCEPT ![t] = @ + 1]
          /\ at' = at \/ (at = "none" /\ at' = "begin")
       \/ /\ x = "idle" /\ t \notin Client
          /\ at = "run" /\ at' = "return"
          /\ UNCHANGED <<step, quiet>>

\* The places a call goes through.
Placed(x, call) ==
    /\ x \in {"add", "signal"} => call.op \in Schedules
    /\ x = "clear" => call.op \in Cancels
    /\ x = "second" => call.op \in CancelsAll
    /\ x \in {"await", "asleep"} => call.op \in Waits \cup {"rescheduleEventAndWait"}
    /\ x = "join" => call.op = "stop"

\* A thread that moves leaves the calls of the others alone, and its own until
\* it returns; no callback begins or ends by it.
LEMMA MoveFrame ==
    ASSUME TypeOK, InsideCalls, NEW t \in Thread, NEW x, Move(t, x), InCall(t)
    PROVE  /\ \A u \in Thread : u # t => pc'[u] = pc[u]
           /\ pc'[t] = x
           /\ \A u \in Thread : u # t => NextCall(u)' = NextCall(u)
           /\ x # "idle" => NextCall(t)' = NextCall(t)
           /\ \A e : Running(e)' <=> Running(e)
           /\ x # "idle" => at' = at
           /\ \A c \in Client : c # t => step'[c] = step[c]
<1>1. /\ pc \in [Thread -> {"idle", "add", "signal", "clear", "second", "await",
                            "asleep", "join"}]
      /\ step \in [Client -> Nat]
  BY DEF TypeOK
<1>2. \A u \in Thread : u # t => pc'[u] = pc[u]
  BY <1>1 DEF Move
<1>3. pc'[t] = x
  BY <1>1 DEF Move
<1>4. \A c \in Client : c # t \/ x # "idle" => step'[c] = step[c]
  BY <1>1 DEF Move
<1>5. /\ \A u \in Thread : u # t => NextCall(u)' = NextCall(u)
      /\ x # "idle" => NextCall(t)' = NextCall(t)
  BY <1>4 DEF NextCall, Move
<1>6. \A e : Running(e)' <=> Running(e)
  BY DEF Move, Running
<1> QED BY <1>2, <1>3, <1>4, <1>5, <1>6 DEF Move

LEMMA MoveInside ==
    ASSUME TypeOK, InsideCalls, NEW t \in Thread, NEW x, Move(t, x), InCall(t),
           Placed(x, NextCall(t))
    PROVE  InsideCalls'
<1>1. ASSUME NEW c \in Client
      PROVE  /\ step'[c] <= Len(program'[c])
             /\ pc'[c] # "idle" => step'[c] < Len(program'[c])
  <2>1. program' = program /\ step \in [Client -> Nat] /\ c \in Thread
    BY DEF Move, TypeOK, Thread
  <2>2. CASE c # t
    BY <2>1, <2>2, MoveFrame DEF InsideCalls
  <2>3. CASE c = t /\ x # "idle"
    BY <2>1, <2>3 DEF InsideCalls, Move, InCall
  <2>4. CASE c = t /\ x = "idle"
    <3>1. pc'[c] = "idle" /\ step'[c] = step[c] + 1
      BY <2>1, <2>4, MoveFrame DEF Move
    <3>2. step[c] < Len(program[c]) /\ Len(program[c]) \in Nat /\ step[c] \in Nat
      <4>1. program[c] \in Seq(Calls)
        BY ProgramsAssumption DEF TypeOK, ProgramsAssumption
      <4> QED BY <2>1, <2>4, <4>1 DEF InCall
    <3> QED BY <2>1, <3>1, <3>2
  <2> QED BY <2>2, <2>3, <2>4
<1>2. pc'["dispatcher"] # "idle" => at' = "run"
  <2>1. CASE t = "dispatcher"
    BY <2>1, DispatcherThread, MoveFrame DEF InCall
  <2>2. CASE t # "dispatcher"
    <3>1. pc'["dispatcher"] = pc["dispatcher"] /\ t \in Client
      BY <2>2, DispatcherThread, MoveFrame
    <3> QED BY <3>1 DEF InsideCalls, Move
  <2> QED BY <2>1, <2>2
<1>3. ASSUME NEW u \in Thread
      PROVE  Placed(pc'[u], NextCall(u)')
  <2>1. CASE u # t
    <3>1. Placed(pc[u], NextCall(u))
      BY DEF InsideCalls, Placed
    <3>2. pc'[u] = pc[u] /\ NextCall(u)' = NextCall(u)
      BY <2>1, MoveFrame
    <3> QED BY <3>1, <3>2
  <2>2. CASE u = t /\ x # "idle"
    BY <2>2, MoveFrame
  <2>3. CASE u = t /\ x = "idle"
    BY <2>3, MoveFrame DEF Placed
  <2> QED BY <2>1, <2>2, <2>3
<1> QED BY <1>1, <1>2, <1>3 DEF InsideCalls, Placed

-----------------------------------------------------------------------------
(* The parts of the invariant under a move *)

LEMMA MoveCurrent ==
    ASSUME TypeOK, InsideCalls, CurrentDue, NEW t \in Thread, NEW x, Move(t, x), InCall(t),
           \A e \in Event : Scheduled(e) => Scheduled(e)',
           \A e \in Event : fate[e] = "dispatched" => fate'[e] = "dispatched",
           \A e \in Event : at = "act" /\ Scheduled(e) => key'[e] = key[e],
           clock' = clock
    PROVE  CurrentDue'
<1>1. current' = current /\ (at' = at \/ at' \in {"begin", "return"})
      /\ (at' = "return" /\ at' # at => at = "run")
  BY DEF Move
<1>2. ASSUME NEW k \in Kind, current[k] # None
      PROVE  Scheduled(current[k])' /\ (at' = "act" => key'[current[k]] <= clock')
  <2>1. current[k] \in Event /\ Scheduled(current[k])
    BY <1>2 DEF TypeOK, CurrentDue
  <2>2. Scheduled(current[k])'
    <3>1. \A e \in Event : current[k] = e => Scheduled(e)'
      BY <2>1
    <3> QED BY <1>1, <2>1, <3>1 DEF Scheduled
  <2>3. at' = "act" => key'[current[k]] <= clock'
    <3>1. at' = "act" => at = "act"
      BY <1>1
    <3> QED BY <1>2, <2>1, <3>1 DEF CurrentDue
  <2> QED BY <2>2, <2>3
<1>3. \A e \in Once : Running(e)' => fate'[e] = "dispatched"
  BY MoveFrame DEF CurrentDue, Event
<1>4. /\ at' = "front" => current'["once"] = None
      /\ at' \in {"act", "run", "return"} =>
            (current'["once"] = None <=> current'["recurring"] # None)
  BY <1>1 DEF CurrentDue
<1>5. \A k \in Kind : current'[k] # None =>
          Scheduled(current[k])' /\ (at' = "act" => key'[current'[k]] <= clock')
  BY <1>1, <1>2
<1> QED BY <1>3, <1>4, <1>5 DEF CurrentDue

LEMMA MoveFates ==
    ASSUME TypeOK, InsideCalls, CurrentDue, FatesRight,
           NEW t \in Thread, NEW x, Move(t, x), InCall(t),
           \A e \in Event : Queued(e)' <=> fate'[e] = "pending",
           \A e \in Event : fate[e] = "cancelled" => fate'[e] = "cancelled",
           \A e \in Event : fate[e] = "created" =>
               fate'[e] = "created" \/ (pc[t] = "add" /\ x # "add" /\ e = EventOf(t)),
           x = "add" => /\ fate'[EventOf(t)] = "created"
                        /\ fate[EventOf(t)] = "unscheduled",
           x = "clear" => fate'[EventOf(t)] = "cancelled"
    PROVE  FatesRight'
<1>1. /\ \A u \in Thread : u # t => pc'[u] = pc[u] /\ EventOf(u)' = EventOf(u)
      /\ pc'[t] = x
      /\ x # "idle" => EventOf(t)' = EventOf(t)
  BY MoveFrame DEF EventOf
<1>2. ASSUME NEW u \in Thread, pc'[u] = "add"
      PROVE  fate'[EventOf(u)'] = "created"
  <2>1. CASE u = t
    BY <1>1, <1>2, <2>1
  <2>2. CASE u # t
    <3>1. /\ pc[u] = "add" /\ fate[EventOf(u)] = "created" /\ EventOf(u)' = EventOf(u)
          /\ EventOf(u) \in Event
      BY <1>1, <1>2, <2>2, EventOfType DEF FatesRight
    <3>2. ~(pc[t] = "add" /\ EventOf(u) = EventOf(t))
      BY <2>2, <3>1 DEF FatesRight
    <3> QED BY <3>1, <3>2
  <2> QED BY <2>1, <2>2
<1>3. ASSUME NEW u \in Thread, pc'[u] = "clear"
      PROVE  fate'[EventOf(u)'] = "cancelled"
  <2>1. CASE u = t
    BY <1>1, <1>3, <2>1
  <2>2. CASE u # t
    <3>1. EventOf(u) \in Event
      BY <1>1, <1>3, <2>2, EventOfType
    <3> QED BY <1>1, <1>3, <2>2, <3>1 DEF FatesRight
  <2> QED BY <2>1, <2>2
<1>4. ASSUME NEW u \in Thread, NEW v \in Thread, pc'[u] = "add", pc'[v] = "add",
             EventOf(u)' = EventOf(v)'
      PROVE  u = v
  <2>1. CASE u # t /\ v # t
    BY <1>1, <1>4, <2>1 DEF FatesRight
  <2>2. CASE u = t /\ v # t
    <3>1. pc[v] = "add" /\ EventOf(v) = EventOf(t)
      BY <1>1, <1>4, <2>2
    <3>2. fate[EventOf(v)] = "created" /\ fate[EventOf(t)] = "unscheduled"
      BY <1>1, <1>4, <2>2, <3>1 DEF FatesRight
    <3> QED BY <3>1, <3>2
  <2>3. CASE u # t /\ v = t
    <3>1. pc[u] = "add" /\ EventOf(u) = EventOf(t)
      BY <1>1, <1>4, <2>3
    <3>2. fate[EventOf(u)] = "created" /\ fate[EventOf(t)] = "unscheduled"
      BY <1>1, <1>4, <2>3, <3>1 DEF FatesRight
    <3> QED BY <3>1, <3>2
  <2> QED BY <2>1, <2>2, <2>3
<1> QED BY <1>2, <1>3, <1>4 DEF FatesRight

\* Clear is as before if the thread neither comes to clear a callback nor has.
LEMMA MoveCleared ==
    ASSUME TypeOK, InsideCalls, NEW t \in Thread, NEW x, Move(t, x), InCall(t),
           x # "clear", NEW e, pc[t] = "clear" => EventOf(t) # e
    PROVE  Cleared(e)' <=> Cleared(e)
BY MoveFrame DEF Cleared, EventOf

LEMMA MoveThread ==
    ASSUME TypeOK, InsideCalls, ThreadRight, NEW t \in Thread, NEW x, Move(t, x), InCall(t),
           d_running' = d_running, pc[t] = "join" => at = "none",
           at' = "begin" => at = "begin"
    PROVE  ThreadRight'
<1>1. at' = at \/ (at = "run" /\ at' = "return")
  BY DEF Move
<1>2. at' = "none" => ~d_running'
  BY <1>1 DEF ThreadRight
<1>3. at' \in {"front", "act"} => d_running'
  BY <1>1 DEF ThreadRight
<1>4. StopMeansStopped'
  <2> SUFFICES ASSUME ~d_running, \A c \in Client : pc'[c] # "join"
               PROVE  at' = "none"
    BY DEF StopMeansStopped, DispatcherMutexFree
  <2>1. CASE \A c \in Client : pc[c] # "join"
    BY <1>1, <2>1 DEF ThreadRight, StopMeansStopped, DispatcherMutexFree
  <2>2. CASE \E c \in Client : pc[c] = "join"
    <3>1. PICK c \in Client : pc[c] = "join"
      BY <2>2
    <3>2. c = t
      BY <3>1, MoveFrame DEF Thread
    <3> QED BY <1>1, <3>1, <3>2
  <2> QED BY <2>1, <2>2
<1> QED BY <1>2, <1>3, <1>4 DEF ThreadRight

\* A thread that goes on inside its call promises what it did.
LEMMA GotoQuiet ==
    ASSUME TypeOK, InsideCalls, QuietRight, NEW t \in Thread, NEW x, Move(t, x), InCall(t),
           x # "idle", covers' = covers, quiet' = quiet,
           \A e \in Event : Over(e) => Over(e)',
           x \in {"add", "signal", "join"} => pc[t] \in {"idle", "add", "signal", "join"},
           x \in {"clear", "await", "asleep"} =>
               pc[t] \in {"idle", "add", "signal", "join", "clear", "await", "asleep"}
    PROVE  QuietRight'
<1>0. quiet \subseteq Event /\ covers \in [Client -> SUBSET Event]
  BY DEF TypeOK
<1>1. \A e \in quiet' : Over(e)' /\ ~Running(e)'
  BY <1>0, MoveFrame DEF QuietRight
<1>2. ASSUME NEW c \in Client
      PROVE  /\ \A e \in covers'[c] : Over(e)'
             /\ pc'[c] \in {"idle", "add", "signal", "join"} => covers'[c] = {}
             /\ pc'[c] \in {"clear", "await", "asleep"} =>
                   \/ covers'[c] \subseteq {EventOf(c)'}
                   \/ NextCall(c)'.op = "cancelAllEventsAndWait"
  <2>1. c \in Thread /\ NextCall(c)' = NextCall(c) /\ EventOf(c)' = EventOf(c)
    BY MoveFrame DEF EventOf, Thread
  <2>2. \A e \in covers'[c] : Over(e)'
    BY <1>0 DEF QuietRight
  <2>3. CASE c # t
    <3>1. pc'[c] = pc[c]
      BY <2>1, <2>3, MoveFrame
    <3> QED BY <2>1, <2>2, <3>1 DEF QuietRight
  <2>4. CASE c = t
    <3>1. pc'[c] = x
      BY <2>4, MoveFrame
    <3> QED BY <2>1, <2>2, <2>4, <3>1 DEF QuietRight
  <2> QED BY <2>3, <2>4
<1> QED BY <1>1, <1>2 DEF QuietRight

\* A call that returns has waited for what it promised.
LEMMA ReturnQuiet ==
    ASSUME TypeOK, InsideCalls, QuietRight, NEW t \in Thread, Return(t), Move(t, "idle"),
           InCall(t), \A e \in Event : Over(e) => Over(e)',
           t \in Client /\ NextCall(t).op \in Waits => \A e \in covers[t] : ~Running(e)
    PROVE  QuietRight'
<1>1. quiet \subseteq Event /\ covers \in [Client -> SUBSET Event]
  BY DEF TypeOK
<1>2. \A e \in quiet' : Over(e)' /\ ~Running(e)'
  <2>1. quiet' = quiet \/ (t \in Client /\ NextCall(t).op \in Waits
                           /\ quiet' = quiet \cup covers[t])
    BY DEF Return
  <2> QED BY <1>1, <2>1, MoveFrame DEF QuietRight
<1>3. ASSUME NEW c \in Client
      PROVE  /\ \A e \in covers'[c] : Over(e)'
             /\ pc'[c] \in {"idle", "add", "signal", "join"} => covers'[c] = {}
             /\ pc'[c] \in {"clear", "await", "asleep"} =>
                   \/ covers'[c] \subseteq {EventOf(c)'}
                   \/ NextCall(c)'.op = "cancelAllEventsAndWait"
  <2>0. c \in Thread
    BY DEF Thread
  <2>1. CASE c = t
    <3>1. covers'[c] = {} /\ pc'[c] = "idle"
      BY <1>1, <2>1, MoveFrame DEF Return
    <3> QED BY <3>1
  <2>2. CASE c # t
    <3>1. covers'[c] = covers[c]
      BY <1>1, <2>2 DEF Return
    <3>2. pc'[c] = pc[c] /\ NextCall(c)' = NextCall(c) /\ EventOf(c)' = EventOf(c)
      BY <2>0, <2>2, MoveFrame DEF EventOf
    <3> QED BY <1>1, <3>1, <3>2 DEF QuietRight
  <2> QED BY <2>1, <2>2
<1> QED BY <1>2, <1>3 DEF QuietRight

-----------------------------------------------------------------------------
(* Calls that leave the events alone *)

\* The rest of the invariant under a move that leaves the events alone.
LEMMA PlainMove ==
    ASSUME SchedulerInv, NEW t \in Thread, NEW x, Move(t, x), InCall(t),
           Placed(x, NextCall(t)), x \notin {"add", "clear"},
           pc[t] \notin {"add", "clear"},
           UNCHANGED <<queue, key, d_callback, fate, clock>>
    PROVE  /\ QueuesOrdered' /\ InsideCalls' /\ CurrentDue' /\ FatesRight'
           /\ CallbacksRight'
           /\ \A e \in Event : Over(e) => Over(e)'
<1> USE DEF SchedulerInv
<1>1. QueuesOrdered'
  BY DEF QueuesOrdered
<1>2. InsideCalls'
  BY MoveInside
<1>3. CurrentDue'
  BY MoveCurrent DEF Scheduled
<1>4. \A e \in Event : Queued(e)' <=> Queued(e)
  BY DEF Queued
<1>5. FatesRight'
  <2>1. \A e \in Event : Queued(e)' <=> fate'[e] = "pending"
    BY <1>4 DEF FatesRight
  <2> QED BY <2>1, MoveFates
<1>6. CallbacksRight'
  <2>1. \A e \in Event : Cleared(e)' <=> Cleared(e)
    BY MoveCleared
  <2>2. \A e \in Event : Running(e)' <=> Running(e)
    BY MoveFrame
  <2> QED BY <1>4, <2>1, <2>2 DEF CallbacksRight
<1> QED BY <1>1, <1>2, <1>3, <1>5, <1>6 DEF Over

LEMMA ReturnMoves ==
    ASSUME NEW t \in Thread, Return(t), program' = program, current' = current,
           t \notin Client => at = "run"
    PROVE  Move(t, "idle")
BY DEF Return, Move

LEMMA GotoMoves ==
    ASSUME NEW t \in Thread, NEW x, x # "idle", Goto(t, x),
           program' = program, current' = current
    PROVE  Move(t, x)
BY DEF Goto, Move

LEMMA ReturnTypes ==
    ASSUME TypeOK, NEW t \in Thread, Return(t)
    PROVE  /\ pc' \in [Thread -> {"idle", "add", "signal", "clear", "second", "await",
                                  "asleep", "join"}]
           /\ step' \in [Client -> Nat]
           /\ covers' \in [Client -> SUBSET Event]
           /\ quiet' \subseteq Event
           /\ at' \in {"none", "begin", "loop", "front", "act", "sleep", "run", "return"}
<1>1. /\ pc \in [Thread -> {"idle", "add", "signal", "clear", "second", "await",
                            "asleep", "join"}]
      /\ step \in [Client -> Nat] /\ covers \in [Client -> SUBSET Event]
      /\ quiet \subseteq Event
      /\ at \in {"none", "begin", "loop", "front", "act", "sleep", "run", "return"}
  BY DEF TypeOK
<1>2. pc' \in [Thread -> {"idle", "add", "signal", "clear", "second", "await",
                          "asleep", "join"}]
  BY <1>1 DEF Return
<1>3. CASE t \in Client
  <2>1. /\ step' = [step EXCEPT ![t] = step[t] + 1]
        /\ covers' = [covers EXCEPT ![t] = {}]
        /\ quiet' = quiet \/ quiet' = quiet \cup covers[t]
        /\ at' = at
    BY <1>3 DEF Return
  <2> QED BY <1>1, <1>2, <1>3, <2>1
<1>4. CASE t \notin Client
  BY <1>1, <1>2, <1>4 DEF Return
<1> QED BY <1>3, <1>4

LEMMA GotoTypes ==
    ASSUME TypeOK, NEW t \in Thread,
           NEW x \in {"idle", "add", "signal", "clear", "second", "await", "asleep", "join"},
           Goto(t, x)
    PROVE  /\ pc' \in [Thread -> {"idle", "add", "signal", "clear", "second", "await",
                                  "asleep", "join"}]
           /\ step' \in [Client -> Nat]
           /\ covers' \in [Client -> SUBSET Event]
           /\ quiet' \subseteq Event
           /\ at' \in {"none", "begin", "loop", "front", "act", "sleep", "run", "return"}
BY DEF TypeOK, Goto

\* A signal that is still to come stays so.
LEMMA SignalStays ==
    ASSUME TypeOK, InsideCalls, NEW t \in Thread, NEW x, Move(t, x), InCall(t),
           pc[t] = "signal" => x = "signal"
    PROVE  (\E u \in Thread : pc[u] = "signal") => \E u \in Thread : pc'[u] = "signal"
BY MoveFrame

LEMMA PlainWake ==
    ASSUME SchedulerInv, NEW t \in Thread, NEW x, Move(t, x), InCall(t),
           pc[t] # "signal", at' = "begin" => at = "begin",
           UNCHANGED <<queue, key, d_running, signaled, deadline>>
    PROVE  FrontIsLeast' /\ NoLostWakeup'
<1> USE DEF SchedulerInv
<1>1. (\E u \in Thread : pc[u] = "signal") => \E u \in Thread : pc'[u] = "signal"
  BY SignalStays
<1>2. current' = current /\ (at' = at \/ at' = "return" \/ at' = "begin")
  BY DEF Move
<1>3. \A e : Queued(e)' <=> Queued(e)
  BY DEF Queued
<1>4. FrontIsLeast'
  <2> SUFFICES ASSUME at' = "front" PROVE FrontIsLeast'
    BY DEF FrontIsLeast
  <2>1. at = "front"
    BY <1>2
  <2> QED BY <1>1, <1>2, <1>3, <2>1 DEF FrontIsLeast
<1>5. NoLostWakeup'
  <2> SUFFICES ASSUME at' = "sleep", ~signaled' PROVE NoLostWakeup'
    BY DEF NoLostWakeup
  <2>1. at = "sleep" /\ ~signaled
    BY <1>2
  <2> QED BY <1>1, <1>3, <2>1 DEF NoLostWakeup
<1> QED BY <1>4, <1>5

LEMMA NothingKeeps ==
    ASSUME SchedulerInv, NEW t \in Thread, nothing(t)
    PROVE  SchedulerInv'
<1> USE DEF SchedulerInv
<1>1. InCall(t) /\ NextCall(t).op = "nothing" /\ pc[t] = "idle"
  BY InCallWhen DEF nothing
<1>2. Move(t, "idle") /\ Placed("idle", NextCall(t))
  <2>1. t \notin Client => at = "run"
    BY <1>1 DEF InCall
  <2> QED BY <2>1, ReturnMoves DEF nothing, loopVars, Placed
<1>3. UNCHANGED <<clock, queue, key, d_callback, d_nowOffset, fate, d_cachedNow, current,
                  deadline, d_dispatcherAwaited, signaled, d_running, program>>
      /\ Return(t)
  BY DEF nothing, eventVars, loopVars
<1>4. TypeOK'
  BY <1>3, ReturnTypes DEF TypeOK
<1>5. /\ QueuesOrdered' /\ InsideCalls' /\ CurrentDue' /\ FatesRight' /\ CallbacksRight'
      /\ \A e \in Event : Over(e) => Over(e)'
  BY <1>1, <1>2, <1>3, PlainMove
<1>6. at' = "begin" => at = "begin"
  BY <1>3 DEF Return
<1>7. ThreadRight'
  BY <1>1, <1>2, <1>3, <1>6, MoveThread
<1>8. FrontIsLeast' /\ NoLostWakeup'
  BY <1>1, <1>2, <1>3, <1>6, PlainWake
<1>9. QuietRight'
  BY <1>1, <1>2, <1>3, <1>5, ReturnQuiet DEF Waits
<1> QED BY <1>4, <1>5, <1>7, <1>8, <1>9

LEMMA SignalKeeps ==
    ASSUME SchedulerInv, NEW t \in Thread, signalDispatcher(t)
    PROVE  SchedulerInv'
<1> USE DEF SchedulerInv
<1>1. pc[t] = "signal" /\ InCall(t) /\ NextCall(t).op \in Schedules
  BY InCallWhen DEF signalDispatcher, InsideCalls
<1>2. Move(t, "idle") /\ Placed("idle", NextCall(t))
  <2>1. t \notin Client => at = "run"
    BY <1>1 DEF InCall
  <2> QED BY <2>1, ReturnMoves DEF signalDispatcher, loopVars, Placed
<1>3. UNCHANGED <<clock, queue, key, d_callback, d_nowOffset, fate, d_cachedNow, current,
                  deadline, d_dispatcherAwaited, d_running, program>>
      /\ Return(t) /\ signaled' = (signaled \/ at = "sleep") /\ at \notin {"front", "act"}
  BY DEF signalDispatcher, eventVars, loopVars, Signal, MutexFree
<1>4. TypeOK'
  <2>1. signaled' \in BOOLEAN
    BY <1>3
  <2> QED BY <1>3, <2>1, ReturnTypes DEF TypeOK
<1>5. /\ QueuesOrdered' /\ InsideCalls' /\ CurrentDue' /\ FatesRight' /\ CallbacksRight'
      /\ \A e \in Event : Over(e) => Over(e)'
  BY <1>1, <1>2, <1>3, PlainMove
<1>6. at' = at \/ at' = "return"
  BY <1>3 DEF Return
<1>7. ThreadRight'
  BY <1>1, <1>2, <1>3, <1>6, MoveThread
<1>8. FrontIsLeast' /\ NoLostWakeup'
  BY <1>3, <1>6 DEF FrontIsLeast, NoLostWakeup
<1>9. QuietRight'
  BY <1>1, <1>2, <1>3, <1>5, ReturnQuiet DEF Waits, Schedules
<1> QED BY <1>4, <1>5, <1>7, <1>8, <1>9

\* What a thread has waited for when it need not wait for the dispatcher.
LEMMA AwaitedIsOver ==
    ASSUME SchedulerInv, NEW t \in Client, pc[t] = "await",
           ~AwaitsDispatcher(NextCall(t)), NextCall(t).op \in Waits
    PROVE  \A e \in covers[t] : ~Running(e)
<1> USE DEF SchedulerInv
<1> SUFFICES ASSUME NEW e \in covers[t], Running(e) PROVE FALSE
  OBVIOUS
<1>0. t \in Thread /\ InCall(t) /\ e \in Event
  BY InCallWhen DEF Thread, TypeOK
<1>1. at \in {"run", "return"} /\ e = current[KindOf(e)] /\ e # None
  BY <1>0, EventSchedulerAssumption DEF Running, EventSchedulerAssumption
<1>2. CASE NextCall(t).op = "cancelAllEventsAndWait"
  <2>1. NextCall(t).event \notin Recurring
    <3>1. NextCall(t).event = None
      BY <1>0, <1>2, NextCallType, CallKinds DEF CancelsAll
    <3> QED BY <3>1, EventSchedulerAssumption DEF EventSchedulerAssumption, Event
  <2>2. current = NoEvent
    BY <1>2, <2>1 DEF AwaitsDispatcher
  <2> QED BY <1>0, <1>1, <2>2, KindOfEvent DEF NoEvent
<1>3. CASE NextCall(t).op # "cancelAllEventsAndWait"
  <2>1. e = NextCall(t).event
    BY <1>3 DEF QuietRight, EventOf
  <2>2. CASE e \in Recurring
    <3>1. KindOf(e) = "recurring"
      BY <2>2, EventSchedulerAssumption DEF KindOf, EventSchedulerAssumption
    <3>2. ~(current["recurring"] # None /\ key[current["recurring"]] = key[e])
      BY <1>3, <2>1, <2>2 DEF AwaitsDispatcher
    <3> QED BY <1>1, <3>1, <3>2
  <2>3. CASE e \notin Recurring
    <3>1. KindOf(e) = "once"
      BY <1>0, <2>3 DEF KindOf, Event
    <3>2. current["once"] # e
      BY <1>3, <2>1, <2>3 DEF AwaitsDispatcher
    <3> QED BY <1>1, <3>1, <3>2
  <2> QED BY <2>2, <2>3
<1> QED BY <1>2, <1>3

LEMMA AwaitKeeps ==
    ASSUME SchedulerInv, NEW t \in Thread, await(t)
    PROVE  SchedulerInv'
<1> USE DEF SchedulerInv
<1>1. /\ pc[t] = "await" /\ InCall(t)
      /\ NextCall(t).op \in Waits \cup {"rescheduleEventAndWait"}
  BY InCallWhen DEF await, InsideCalls
<1>2. UNCHANGED <<clock, queue, key, d_callback, d_nowOffset, fate, d_cachedNow, current,
                  deadline, signaled, d_running, program>>
  BY DEF await, eventVars
<1>3. CASE AwaitsDispatcher(NextCall(t)) /\ d_dispatcherAwaited' = TRUE /\ Goto(t, "asleep")
  <2>1. Move(t, "asleep") /\ Placed("asleep", NextCall(t))
    BY <1>1, <1>2, <1>3, GotoMoves DEF Placed
  <2>2. at' = at /\ covers' = covers /\ quiet' = quiet
    BY <1>3 DEF Goto
  <2>3. TypeOK'
    BY <1>2, <1>3, GotoTypes DEF TypeOK
  <2>4. /\ QueuesOrdered' /\ InsideCalls' /\ CurrentDue' /\ FatesRight' /\ CallbacksRight'
        /\ \A e \in Event : Over(e) => Over(e)'
    BY <1>1, <1>2, <2>1, PlainMove
  <2>5. ThreadRight' /\ FrontIsLeast' /\ NoLostWakeup'
    BY <1>1, <1>2, <2>1, <2>2, MoveThread, PlainWake
  <2>6. QuietRight'
    BY <1>1, <2>1, <2>2, <2>4, GotoQuiet
  <2> QED BY <2>3, <2>4, <2>5, <2>6
<1>4. CASE /\ ~AwaitsDispatcher(NextCall(t)) /\ Return(t)
           /\ UNCHANGED d_dispatcherAwaited
  <2>1. Move(t, "idle") /\ Placed("idle", NextCall(t))
    <3>1. t \notin Client => at = "run"
      BY <1>1 DEF InCall
    <3> QED BY <1>2, <1>4, <3>1, ReturnMoves DEF Placed
  <2>2. at' = at \/ at' = "return"
    BY <1>4 DEF Return
  <2>3. TypeOK'
    BY <1>2, <1>4, ReturnTypes DEF TypeOK
  <2>4. /\ QueuesOrdered' /\ InsideCalls' /\ CurrentDue' /\ FatesRight' /\ CallbacksRight'
        /\ \A e \in Event : Over(e) => Over(e)'
    BY <1>1, <1>2, <2>1, PlainMove
  <2>5. ThreadRight' /\ FrontIsLeast' /\ NoLostWakeup'
    BY <1>1, <1>2, <2>1, <2>2, MoveThread, PlainWake
  <2>6. QuietRight'
    BY <1>1, <1>4, <2>1, <2>4, ReturnQuiet, AwaitedIsOver
  <2> QED BY <2>3, <2>4, <2>5, <2>6
<1> QED BY <1>3, <1>4 DEF await

LEMMA AwaitSpuriouslyKeeps ==
    ASSUME SchedulerInv, NEW t \in Thread, AwaitSpuriously(t)
    PROVE  SchedulerInv'
<1> USE DEF SchedulerInv
<1>1. /\ pc[t] = "asleep" /\ InCall(t)
      /\ NextCall(t).op \in Waits \cup {"rescheduleEventAndWait"}
  BY InCallWhen DEF AwaitSpuriously, InsideCalls
<1>2. UNCHANGED <<clock, queue, key, d_callback, d_nowOffset, fate, d_cachedNow, current,
                  deadline, d_dispatcherAwaited, signaled, d_running, program>>
      /\ Goto(t, "await")
  BY DEF AwaitSpuriously, eventVars, loopVars
<1>3. Move(t, "await") /\ Placed("await", NextCall(t))
  BY <1>1, <1>2, GotoMoves DEF Placed
<1>4. at' = at /\ covers' = covers /\ quiet' = quiet
  BY <1>2 DEF Goto
<1>5. TypeOK'
  BY <1>2, GotoTypes DEF TypeOK
<1>6. /\ QueuesOrdered' /\ InsideCalls' /\ CurrentDue' /\ FatesRight' /\ CallbacksRight'
      /\ \A e \in Event : Over(e) => Over(e)'
  BY <1>1, <1>2, <1>3, PlainMove
<1>7. ThreadRight' /\ FrontIsLeast' /\ NoLostWakeup'
  BY <1>1, <1>2, <1>3, <1>4, MoveThread, PlainWake
<1>8. QuietRight'
  BY <1>1, <1>3, <1>4, <1>6, GotoQuiet
<1> QED BY <1>5, <1>6, <1>7, <1>8

LEMMA JoinKeeps ==
    ASSUME SchedulerInv, NEW t \in Thread, join(t)
    PROVE  SchedulerInv'
<1> USE DEF SchedulerInv
<1>1. pc[t] = "join" /\ InCall(t) /\ NextCall(t).op = "stop" /\ at = "none"
  BY InCallWhen DEF join, InsideCalls
<1>2. Move(t, "idle") /\ Placed("idle", NextCall(t))
  <2>1. t \notin Client => at = "run"
    BY <1>1 DEF InCall
  <2> QED BY <2>1, ReturnMoves DEF join, loopVars, Placed
<1>3. UNCHANGED <<clock, queue, key, d_callback, d_nowOffset, fate, d_cachedNow, current,
                  deadline, d_dispatcherAwaited, signaled, d_running, program>>
      /\ Return(t)
  BY DEF join, eventVars, loopVars
<1>4. TypeOK'
  BY <1>3, ReturnTypes DEF TypeOK
<1>5. /\ QueuesOrdered' /\ InsideCalls' /\ CurrentDue' /\ FatesRight' /\ CallbacksRight'
      /\ \A e \in Event : Over(e) => Over(e)'
  BY <1>1, <1>2, <1>3, PlainMove
<1>6. at' = "begin" => at = "begin"
  BY <1>3 DEF Return
<1>7. ThreadRight' /\ FrontIsLeast' /\ NoLostWakeup'
  BY <1>1, <1>2, <1>3, <1>6, MoveThread, PlainWake
<1>8. QuietRight'
  BY <1>1, <1>2, <1>3, <1>5, ReturnQuiet DEF Waits
<1> QED BY <1>4, <1>5, <1>7, <1>8

LEMMA StopKeeps ==
    ASSUME SchedulerInv, NEW t \in Thread, stop(t)
    PROVE  SchedulerInv'
<1> USE DEF SchedulerInv
<1>1. /\ pc[t] = "idle" /\ InCall(t) /\ NextCall(t).op = "stop"
      /\ at \notin {"front", "act"}
  BY InCallWhen DEF stop, MutexFree
<1>2. t \in Client
  BY <1>1, NextCallType
<1>3. UNCHANGED <<clock, queue, key, d_callback, d_nowOffset, fate, d_cachedNow, current,
                  deadline, d_dispatcherAwaited, program>>
      /\ d_running' = FALSE
  BY DEF stop, eventVars, loopVars
<1>4. CASE d_running /\ Signal /\ Goto(t, "join")
  <2>1. Move(t, "join") /\ Placed("join", NextCall(t))
    BY <1>1, <1>3, <1>4, GotoMoves DEF Placed
  <2>2. at' = at /\ covers' = covers /\ quiet' = quiet
    BY <1>4 DEF Goto
  <2>3. TypeOK'
    <3>1. signaled' \in BOOLEAN /\ d_running' \in BOOLEAN
      BY <1>3, <1>4 DEF Signal
    <3> QED BY <1>3, <1>4, <3>1, GotoTypes DEF TypeOK
  <2>4. /\ QueuesOrdered' /\ InsideCalls' /\ CurrentDue' /\ FatesRight' /\ CallbacksRight'
        /\ \A e \in Event : Over(e) => Over(e)'
    BY <1>1, <1>3, <2>1, PlainMove
  <2>5. pc'[t] = "join"
    BY <1>1, <2>1, MoveFrame
  <2>6. ThreadRight'
    BY <1>1, <1>2, <1>3, <2>2, <2>5
    DEF ThreadRight, StopMeansStopped, DispatcherMutexFree
  <2>7. FrontIsLeast' /\ NoLostWakeup'
    BY <1>1, <1>4, <2>2 DEF FrontIsLeast, NoLostWakeup, Signal
  <2>8. QuietRight'
    BY <1>1, <2>1, <2>2, <2>4, GotoQuiet
  <2> QED BY <2>3, <2>4, <2>6, <2>7, <2>8
<1>5. CASE ~d_running /\ UNCHANGED signaled /\ Return(t)
  <2>1. Move(t, "idle") /\ Placed("idle", NextCall(t))
    BY <1>2, <1>3, <1>5, ReturnMoves DEF Placed
  <2>2. at' = at
    BY <1>2, <1>5 DEF Return
  <2>3. d_running' = d_running
    BY <1>3, <1>5 DEF TypeOK
  <2>4. TypeOK'
    BY <1>3, <1>5, <2>3, ReturnTypes DEF TypeOK
  <2>5. /\ QueuesOrdered' /\ InsideCalls' /\ CurrentDue' /\ FatesRight' /\ CallbacksRight'
        /\ \A e \in Event : Over(e) => Over(e)'
    BY <1>1, <1>3, <2>1, PlainMove
  <2>6. ThreadRight' /\ FrontIsLeast' /\ NoLostWakeup'
    BY <1>1, <1>3, <1>5, <2>1, <2>2, <2>3, MoveThread, PlainWake
  <2>7. QuietRight'
    BY <1>1, <1>5, <2>1, <2>5, ReturnQuiet DEF Waits
  <2> QED BY <2>4, <2>5, <2>6, <2>7
<1> QED BY <1>4, <1>5 DEF stop

LEMMA StartKeeps ==
    ASSUME SchedulerInv, NEW t \in Thread, start(t)
    PROVE  SchedulerInv'
<1> USE DEF SchedulerInv
<1>1. /\ pc[t] = "idle" /\ InCall(t) /\ NextCall(t).op = "start"
      /\ DispatcherMutexFree
  BY InCallWhen DEF start
<1>2. t \in Client
  BY <1>1, NextCallType
<1>3. UNCHANGED <<clock, queue, key, d_callback, d_nowOffset, fate, d_cachedNow, current,
                  deadline, d_dispatcherAwaited, signaled, covers, quiet, program>>
      /\ pc' = [pc EXCEPT ![t] = "idle"] /\ step' = [step EXCEPT ![t] = @ + 1]
  BY DEF start, eventVars, loopVars
<1>4. \/ at = "none" /\ at' = "begin" /\ d_running' = TRUE
      \/ at' = at /\ d_running' = d_running
  BY <1>1 DEF start, ThreadRight, StopMeansStopped
<1>5. Move(t, "idle") /\ Placed("idle", NextCall(t))
  BY <1>2, <1>3, <1>4 DEF Move, Placed
<1>6. TypeOK'
  <2>1. pc' = pc
    BY <1>1, <1>3 DEF TypeOK
  <2>2. step' \in [Client -> Nat]
    BY <1>2, <1>3 DEF TypeOK
  <2>3. at' \in {"none", "begin", "loop", "front", "act", "sleep", "run", "return"}
    BY <1>4 DEF TypeOK
  <2>4. d_running' \in BOOLEAN
    BY <1>4 DEF TypeOK
  <2> QED BY <1>3, <2>1, <2>2, <2>3, <2>4 DEF TypeOK
<1>7. /\ QueuesOrdered' /\ InsideCalls' /\ CurrentDue' /\ FatesRight' /\ CallbacksRight'
      /\ \A e \in Event : Over(e) => Over(e)'
  BY <1>1, <1>3, <1>5, PlainMove
<1>8. pc' = pc
  BY <1>1, <1>3 DEF TypeOK
<1>9. ThreadRight' /\ FrontIsLeast' /\ NoLostWakeup'
  <2>1. CASE at = "none" /\ at' = "begin" /\ d_running' = TRUE
    BY <2>1 DEF ThreadRight, StopMeansStopped, FrontIsLeast, NoLostWakeup
  <2>2. CASE at' = at /\ d_running' = d_running
    BY <1>1, <1>3, <1>5, <2>2, MoveThread, PlainWake
  <2> QED BY <1>4, <2>1, <2>2
<1>10. QuietRight'
  <2>0. quiet \subseteq Event /\ covers \in [Client -> SUBSET Event]
    BY DEF TypeOK
  <2>1. \A e \in quiet' : Over(e)' /\ ~Running(e)'
    BY <1>1, <1>3, <1>5, <1>7, <2>0, MoveFrame DEF QuietRight
  <2>2. ASSUME NEW c \in Client
        PROVE  /\ \A e \in covers'[c] : Over(e)'
               /\ pc'[c] \in {"idle", "add", "signal", "join"} => covers'[c] = {}
               /\ pc'[c] \in {"clear", "await", "asleep"} =>
                     \/ covers'[c] \subseteq {EventOf(c)'}
                     \/ NextCall(c)'.op = "cancelAllEventsAndWait"
    <3>1. c \in Thread /\ covers'[c] = covers[c] /\ pc'[c] = pc[c]
      BY <1>3, <1>8 DEF Thread
    <3>2. c # t => NextCall(c)' = NextCall(c) /\ EventOf(c)' = EventOf(c)
      BY <1>1, <1>5, <3>1, MoveFrame DEF EventOf
    <3> QED BY <1>1, <1>7, <2>0, <3>1, <3>2 DEF QuietRight
  <2> QED BY <2>1, <2>2 DEF QuietRight
<1> QED BY <1>6, <1>7, <1>9, <1>10

-----------------------------------------------------------------------------
(* The dispatcher *)

\* The thread of the dispatcher wakes up waiting calls, or leaves all alone.
Wakes ==
    \A u \in Thread : pc'[u] = pc[u] \/ (pc[u] = "asleep" /\ pc'[u] = "await")

\* A step of the dispatcher outside the callback leaves the calls alone.
LEMMA LoopFrame ==
    ASSUME TypeOK, InsideCalls, CurrentDue, FatesRight, ThreadRight, QuietRight,
           at \notin {"run", "none"}, Wakes,
           UNCHANGED <<step, program, quiet, covers, d_running>>,
           at' = "none" => ~d_running, at' \in {"front", "act"} => d_running,
           \A e \in Event : Queued(e)' <=> fate'[e] = "pending",
           \A e \in Event : fate[e] \in {"created", "cancelled"} => fate'[e] = fate[e],
           \A e \in Event : Over(e) => Over(e)',
           \A e \in Event : Over(e) /\ ~Running(e) => ~Running(e)'
    PROVE  /\ InsideCalls' /\ FatesRight' /\ ThreadRight' /\ QuietRight'
           /\ \A e : Cleared(e)' <=> Cleared(e)
<1>1. /\ \A u \in Thread : pc[u] # "idle" => u \in Client
      /\ \A u \in Thread : pc'[u] # "idle" <=> pc[u] # "idle"
      /\ \A u \in Thread : pc'[u] \in {"add", "signal", "clear", "second", "join"}
                           \/ pc[u] \in {"add", "signal", "clear", "second", "join"}
                           => pc'[u] = pc[u]
      /\ \A u \in Thread : pc'[u] \in {"await", "asleep"} => pc[u] \in {"await", "asleep"}
  BY DispatcherThread DEF InsideCalls, Wakes
<1>2. \A u \in Client : NextCall(u)' = NextCall(u) /\ EventOf(u)' = EventOf(u)
  BY DEF NextCall, EventOf
<1>3. \A u \in Client : u \in Thread
  BY DEF Thread
<1>4. \A e : Cleared(e)' <=> Cleared(e)
  BY <1>1, <1>2 DEF Cleared
<1>5. InsideCalls'
  <2>1. ASSUME NEW c \in Client
        PROVE  /\ step'[c] <= Len(program'[c])
               /\ pc'[c] # "idle" => step'[c] < Len(program'[c])
    BY <1>1, <1>3 DEF InsideCalls
  <2>2. pc'["dispatcher"] = "idle"
    BY <1>1, DispatcherThread
  <2>3. ASSUME NEW u \in Thread
        PROVE  Placed(pc'[u], NextCall(u)')
    <3>1. CASE pc'[u] = "idle"
      BY <3>1 DEF Placed
    <3>2. CASE pc'[u] # "idle"
      <4>1. NextCall(u)' = NextCall(u) /\ Placed(pc[u], NextCall(u))
        BY <1>1, <1>2, <3>2 DEF InsideCalls, Placed
      <4>2. pc'[u] = pc[u] \/ (pc[u] = "asleep" /\ pc'[u] = "await")
        BY DEF Wakes
      <4> QED BY <4>1, <4>2 DEF Placed
    <3> QED BY <3>1, <3>2
  <2> QED BY <2>1, <2>2, <2>3 DEF InsideCalls, Placed
<1>6. FatesRight'
  <2>1. \A u \in Thread : pc'[u] \in {"add", "clear"} =>
           pc[u] = pc'[u] /\ EventOf(u)' = EventOf(u) /\ EventOf(u) \in Event
    BY <1>1, <1>2, EventOfType
  <2> QED BY <2>1 DEF FatesRight
<1>7. ThreadRight'
  <2>1. \A c \in Client : pc'[c] = "join" <=> pc[c] = "join"
    BY <1>1, <1>3
  <2> QED BY <2>1 DEF ThreadRight, StopMeansStopped, DispatcherMutexFree
<1>8. QuietRight'
  <2>0. quiet \subseteq Event /\ covers \in [Client -> SUBSET Event]
    BY DEF TypeOK
  <2>1. \A e \in quiet' : Over(e)' /\ ~Running(e)'
    BY <2>0 DEF QuietRight
  <2>2. ASSUME NEW c \in Client
        PROVE  /\ \A e \in covers'[c] : Over(e)'
               /\ pc'[c] \in {"idle", "add", "signal", "join"} => covers'[c] = {}
               /\ pc'[c] \in {"clear", "await", "asleep"} =>
                     \/ covers'[c] \subseteq {EventOf(c)'}
                     \/ NextCall(c)'.op = "cancelAllEventsAndWait"
    BY <1>1, <1>2, <1>3, <2>0 DEF QuietRight
  <2> QED BY <2>1, <2>2 DEF QuietRight
<1> QED BY <1>4, <1>5, <1>6, <1>7, <1>8

\* Nor does one that leaves the events alone too disturb them.
LEMMA LoopPlain ==
    ASSUME SchedulerInv, {at, at'} \cap {"run", "return"} = {}, at # "none", Wakes,
           UNCHANGED <<step, program, quiet, covers, d_running, queue, key, d_callback,
                       fate>>,
           at' = "none" => ~d_running, at' \in {"front", "act"} => d_running
    PROVE  /\ InsideCalls' /\ FatesRight' /\ ThreadRight' /\ QuietRight'
           /\ QueuesOrdered' /\ CallbacksRight'
<1> USE DEF SchedulerInv
<1>1. \A e : ~Running(e) /\ ~Running(e)'
  BY DEF Running
<1>2. \A e \in Event : Queued(e)' <=> Queued(e)
  BY DEF Queued
<1>3. /\ InsideCalls' /\ FatesRight' /\ ThreadRight' /\ QuietRight'
      /\ \A e : Cleared(e)' <=> Cleared(e)
  <2>1. \A e \in Event : Queued(e)' <=> fate'[e] = "pending"
    BY <1>2 DEF FatesRight
  <2> QED BY <1>1, <2>1, LoopFrame DEF Over
<1>4. CallbacksRight'
  BY <1>1, <1>2, <1>3 DEF CallbacksRight
<1> QED BY <1>3, <1>4 DEF QueuesOrdered

LEMMA BeginKeeps ==
    ASSUME SchedulerInv, Begin
    PROVE  SchedulerInv'
<1> USE DEF SchedulerInv
<1>1. /\ at = "begin" /\ at' = "loop" /\ d_cachedNow' = clock
      /\ UNCHANGED <<clock, queue, key, d_callback, d_nowOffset, fate, current, deadline,
                     d_dispatcherAwaited, signaled, d_running, pc, step, covers, quiet,
                     program>>
  BY DEF Begin, eventVars, callVars
<1>2. TypeOK'
  BY <1>1 DEF TypeOK
<1>3. /\ InsideCalls' /\ FatesRight' /\ ThreadRight' /\ QuietRight'
      /\ QueuesOrdered' /\ CallbacksRight'
  BY <1>1, LoopPlain DEF Wakes
<1>4. CurrentDue'
  BY <1>1 DEF CurrentDue, Running, Scheduled
<1> QED BY <1>1, <1>2, <1>3, <1>4 DEF FrontIsLeast, NoLostWakeup

LEMMA WakeKeeps ==
    ASSUME SchedulerInv, Wake \/ WakeSpuriously
    PROVE  SchedulerInv'
<1> USE DEF SchedulerInv
<1>1. /\ at = "sleep" /\ at' = "loop"
      /\ UNCHANGED <<clock, queue, key, d_callback, d_nowOffset, fate, d_cachedNow, current,
                     deadline, d_dispatcherAwaited, signaled, d_running, pc, step, covers,
                     quiet, program>>
  BY DEF Wake, WakeSpuriously, eventVars, loopVars, callVars
<1>2. TypeOK'
  BY <1>1 DEF TypeOK
<1>3. /\ InsideCalls' /\ FatesRight' /\ ThreadRight' /\ QuietRight'
      /\ QueuesOrdered' /\ CallbacksRight'
  BY <1>1, LoopPlain DEF Wakes
<1>4. CurrentDue'
  BY <1>1 DEF CurrentDue, Running, Scheduled
<1> QED BY <1>1, <1>2, <1>3, <1>4 DEF FrontIsLeast, NoLostWakeup

\* The front of a queue is the first of the queued events.
LEMMA FrontRawIsLeast ==
    ASSUME SchedulerInv, NEW k \in Kind
    PROVE  /\ frontRaw(k) # None =>
                 /\ frontRaw(k) \in Event /\ Queued(frontRaw(k)) /\ KindOf(frontRaw(k)) = k
                 /\ Scheduled(frontRaw(k))
           /\ \A f \in Event : Queued(f) /\ KindOf(f) = k =>
                 frontRaw(k) # None /\ key[frontRaw(k)] <= key[f]
<1> USE DEF SchedulerInv
<1>1. /\ queue \in [Kind -> Seq(Event)] /\ key \in [Event -> 0 .. Never]
      /\ \A l \in Kind : /\ \A e \in ToSet(queue[l]) : KindOf(e) = l
                         /\ Ordered(queue[l], key)
  BY DEF TypeOK, QueuesOrdered
<1>2. ASSUME NEW f \in Event, Queued(f), KindOf(f) = k
      PROVE  frontRaw(k) # None /\ key[frontRaw(k)] <= key[f]
  <2> DEFINE h == Head(queue[KindOf(f)])
  <2>1. h \in Event /\ queue[KindOf(f)] # <<>> /\ key[h] <= key[f]
    BY <1>1, <1>2, FrontIsLeastKey DEF Queued
  <2> QED BY <1>2, <2>1, EventSchedulerAssumption DEF frontRaw, EventSchedulerAssumption
<1>3. ASSUME frontRaw(k) # None
      PROVE  /\ frontRaw(k) \in Event /\ Queued(frontRaw(k)) /\ KindOf(frontRaw(k)) = k
             /\ Scheduled(frontRaw(k))
  <2>1. queue[k] # <<>> /\ frontRaw(k) = Head(queue[k]) /\ queue[k] \in Seq(Event)
    BY <1>1, <1>3 DEF frontRaw
  <2>2. Head(queue[k]) \in ToSet(queue[k]) /\ Head(queue[k]) \in Event
    <3>1. 1 \in 1 .. Len(queue[k]) /\ Head(queue[k]) = queue[k][1]
          /\ DOMAIN queue[k] = 1 .. Len(queue[k])
      BY <2>1
    <3> QED BY <2>1, <3>1 DEF ToSet
  <2>3. KindOf(Head(queue[k])) = k
    BY <1>1, <2>2
  <2>4. Queued(frontRaw(k))
    BY <2>1, <2>2, <2>3 DEF Queued
  <2> QED BY <2>1, <2>2, <2>3, <2>4 DEF FatesRight, Scheduled
<1> QED BY <1>2, <1>3

LEMMA LoopTopKeeps ==
    ASSUME SchedulerInv, LoopTop
    PROVE  SchedulerInv'
<1> USE DEF SchedulerInv
<1>1. /\ at = "loop" /\ d_dispatcherAwaited' = FALSE
      /\ UNCHANGED <<clock, queue, key, d_callback, d_nowOffset, fate, d_cachedNow,
                     deadline, signaled, d_running, step, covers, quiet, program>>
      /\ pc' = [u \in Thread |-> IF pc[u] = "asleep" /\ d_dispatcherAwaited
                                 THEN "await" ELSE pc[u]]
  BY DEF LoopTop, eventVars
<1>2. \/ ~d_running /\ at' = "none" /\ current' = NoEvent
      \/ /\ d_running /\ at' = "front"
         /\ current' = [NoEvent EXCEPT !["recurring"] = frontRaw("recurring")]
  BY DEF LoopTop
<1> DEFINE f == frontRaw("recurring")
<1>3. /\ "recurring" \in Kind /\ "once" \in Kind /\ \A k \in Kind : k \in {"recurring", "once"}
      /\ f # None => f \in Event /\ KindOf(f) = "recurring" /\ Scheduled(f)
      /\ \A e \in Event : Queued(e) /\ KindOf(e) = "recurring" => f # None /\ key[f] <= key[e]
  <2>1. "recurring" \in Kind /\ "once" \in Kind /\ \A k \in Kind : k \in {"recurring", "once"}
    BY DEF Kind
  <2> QED BY <2>1, FrontRawIsLeast
<1> HIDE DEF f
<1>4. Wakes
  BY <1>1 DEF Wakes
<1>5. /\ current'["once"] = None
      /\ current'["recurring"] = None \/ current'["recurring"] = f
      /\ at' = "front" => current'["recurring"] = f
      /\ current' \in [Kind -> Event \cup {None}]
  BY <1>2, <1>3 DEF NoEvent, f
<1>6. TypeOK'
  <2>1. pc' \in [Thread -> {"idle", "add", "signal", "clear", "second", "await",
                            "asleep", "join"}]
    BY <1>1 DEF TypeOK
  <2>2. \A k \in Kind : \A e \in ToSet(queue'[k]) \cup ({current'[k]} \ {None}) :
            KindOf(e) = k
    BY <1>1, <1>3, <1>5 DEF TypeOK
  <2> QED BY <1>1, <1>2, <1>5, <2>1, <2>2 DEF TypeOK
<1>7. /\ InsideCalls' /\ FatesRight' /\ ThreadRight' /\ QuietRight'
      /\ QueuesOrdered' /\ CallbacksRight'
  BY <1>1, <1>2, <1>4, LoopPlain
<1>8. CurrentDue'
  BY <1>1, <1>2, <1>3, <1>5 DEF CurrentDue, Running, Scheduled
<1>9. FrontIsLeast'
  <2> SUFFICES ASSUME at' = "front", NEW e \in Recurring, Queued(e)'
               PROVE  current'["recurring"] # None /\ key'[current'["recurring"]] <= key'[e]
    BY DEF FrontIsLeast
  <2>1. e \in Event /\ KindOf(e) = "recurring" /\ Queued(e)
    BY <1>1, EventSchedulerAssumption DEF EventSchedulerAssumption, Event, KindOf, Queued
  <2> QED BY <1>1, <1>3, <1>5, <2>1
<1>10. NoLostWakeup'
  BY <1>2 DEF NoLostWakeup
<1> QED BY <1>6, <1>7, <1>8, <1>9, <1>10

LEMMA ChooseKeeps ==
    ASSUME SchedulerInv, Choose
    PROVE  SchedulerInv'
<1> USE DEF SchedulerInv
<1> DEFINE r == current["recurring"]
           e == frontRaw("once")
           c == chosen(r, e)
<1>1. /\ at = "front"
      /\ UNCHANGED <<clock, queue, key, d_callback, d_nowOffset, fate,
                     d_dispatcherAwaited, d_running, pc, step, covers, quiet, program>>
      /\ \/ r = None /\ e = None /\ sleep(Never) /\ UNCHANGED d_cachedNow
         \/ /\ c # None
            /\ d_cachedNow' = RefreshedNow(r, e)
            /\ IF key[c] > d_cachedNow'
               THEN sleep(key[c])
               ELSE /\ at' = "act"
                    /\ current' = [NoEvent EXCEPT ![KindOf(c)] = c]
                    /\ UNCHANGED <<deadline, signaled>>
  BY DEF Choose, eventVars, callVars
<1>2. /\ "recurring" \in Kind /\ "once" \in Kind /\ \A k \in Kind : k \in {"recurring", "once"}
      /\ \A f \in Event : KindOf(f) \in Kind
  BY DEF Kind, KindOf
<1>3. /\ e # None => e \in Event /\ KindOf(e) = "once" /\ Scheduled(e)
      /\ \A f \in Event : Queued(f) /\ KindOf(f) = "once" => e # None /\ key[e] <= key[f]
  BY <1>2, FrontRawIsLeast
<1>4. /\ r # None => r \in Event /\ KindOf(r) = "recurring" /\ Scheduled(r)
      /\ \/ \A f \in Event : Queued(f) /\ KindOf(f) = "recurring" =>
                r # None /\ key[r] <= key[f]
         \/ \E t \in Thread : pc[t] = "signal"
  <2>1. r # None => r \in Event /\ KindOf(r) = "recurring" /\ Scheduled(r)
    BY <1>2 DEF TypeOK, CurrentDue
  <2>2. \A f \in Event : KindOf(f) = "recurring" => f \in Recurring
    BY DEF KindOf, Event
  <2> QED BY <1>1, <2>1, <2>2 DEF FrontIsLeast
<1>5. /\ key \in [Event -> 0 .. Never] /\ clock \in 1 .. MaxTime
      /\ d_cachedNow \in 0 .. clock /\ MaxTime \in Nat /\ Never \in Nat
      /\ None \notin Event
  BY NeverIsLate, EventSchedulerAssumption DEF TypeOK, EventSchedulerAssumption
<1> HIDE DEF r, e
<1>6. /\ c # None => c \in Event /\ Scheduled(c)
      /\ c = None => r = None /\ e = None
      /\ c = r \/ c = e
  BY <1>3, <1>4 DEF chosen
<1>7. c # None /\ key[c] > d_cachedNow' /\ d_cachedNow' = RefreshedNow(r, e) =>
         \/ \A f \in Event : Queued(f) => key[c] <= key[f]
         \/ \E t \in Thread : pc[t] = "signal"
  <2> SUFFICES ASSUME c # None, key[c] > d_cachedNow', d_cachedNow' = RefreshedNow(r, e),
                      ~\E t \in Thread : pc[t] = "signal",
                      NEW f \in Event, Queued(f)
               PROVE  key[c] <= key[f]
    OBVIOUS
  <2>1. KindOf(f) = "recurring" => r # None /\ key[r] <= key[f]
    BY <1>4
  <2>2. KindOf(f) = "once" => e # None /\ key[e] <= key[f]
    BY <1>3
  <2>3. CASE r = None
    BY <1>2, <2>1, <2>2, <2>3 DEF chosen
  <2>4. CASE r # None /\ e = None
    BY <1>2, <2>1, <2>2, <2>4 DEF chosen
  <2>5. CASE r # None /\ e # None
    <3>1. d_cachedNow' = clock
      BY <2>5 DEF RefreshedNow
    <3>2. key[e] \in 0 .. Never /\ key[r] \in 0 .. Never /\ key[f] \in 0 .. Never
      BY <1>3, <1>4, <1>5, <2>5
    <3>3. CASE key[e] < key[r] \/ key[e] < clock
      <4>1. c = e
        BY <2>5, <3>3 DEF chosen
      <4>2. ~(key[e] < clock)
        BY <1>5, <3>1, <3>2, <4>1
      <4> QED BY <1>2, <1>5, <2>1, <2>2, <3>2, <3>3, <4>1, <4>2
    <3>4. CASE ~(key[e] < key[r] \/ key[e] < clock)
      <4>1. c = r
        BY <2>5, <3>4 DEF chosen
      <4> QED BY <1>2, <1>5, <2>1, <2>2, <3>2, <3>4, <4>1
    <3> QED BY <3>3, <3>4
  <2> QED BY <2>3, <2>4, <2>5
<1>8. (r = None /\ e = None) =>
         \/ \A f \in Event : ~Queued(f)
         \/ \E t \in Thread : pc[t] = "signal"
  BY <1>2, <1>3, <1>4
<1>9. d_cachedNow' \in 0 .. clock
  BY <1>1, <1>5 DEF RefreshedNow
<1> HIDE DEF c
<1>10. \/ /\ at' = "sleep" /\ signaled' = FALSE /\ current' = NoEvent
          /\ deadline' \in 0 .. Never
          /\ \/ \A f \in Event : Queued(f) => deadline' <= key[f]
             \/ \E t \in Thread : pc[t] = "signal"
       \/ /\ at' = "act" /\ c # None /\ current' = [NoEvent EXCEPT ![KindOf(c)] = c]
          /\ key[c] <= clock
          /\ UNCHANGED <<deadline, signaled>>
  <2>1. CASE r = None /\ e = None /\ sleep(Never)
    <3>1. Never \in 0 .. Never
      BY <1>5
    <3> QED BY <1>8, <2>1, <3>1 DEF sleep
  <2>2. CASE c # None /\ key[c] > d_cachedNow' /\ d_cachedNow' = RefreshedNow(r, e)
             /\ sleep(key[c])
    <3>1. key[c] \in 0 .. Never
      BY <1>5, <1>6, <2>2
    <3> QED BY <1>7, <2>2, <3>1 DEF sleep
  <2>3. CASE /\ c # None /\ ~(key[c] > d_cachedNow') /\ at' = "act"
             /\ current' = [NoEvent EXCEPT ![KindOf(c)] = c]
             /\ UNCHANGED <<deadline, signaled>>
    <3>1. key[c] \in 0 .. Never
      BY <1>5, <1>6, <2>3
    <3>2. key[c] <= clock
      BY <1>5, <1>9, <2>3, <3>1
    <3> QED BY <2>3, <3>2
  <2> QED BY <1>1, <2>1, <2>2, <2>3
<1>11. /\ current' \in [Kind -> Event \cup {None}]
       /\ \A k \in Kind : current'[k] # None =>
             /\ current'[k] = c /\ k = KindOf(c)
             /\ at' = "act"
       /\ at' = "act" => /\ current'[KindOf(c)] = c
                         /\ \A k \in Kind : k # KindOf(c) => current'[k] = None
  BY <1>2, <1>6, <1>10 DEF NoEvent
<1>12. TypeOK'
  <2>1. \A k \in Kind : \A f \in ToSet(queue'[k]) \cup ({current'[k]} \ {None}) :
            KindOf(f) = k
    BY <1>1, <1>11 DEF TypeOK
  <2>2. deadline' \in 0 .. Never /\ signaled' \in BOOLEAN /\ at' \in {"act", "sleep"}
    BY <1>10 DEF TypeOK
  <2> QED BY <1>1, <1>9, <1>11, <2>1, <2>2 DEF TypeOK
<1>13. /\ InsideCalls' /\ FatesRight' /\ ThreadRight' /\ QuietRight'
       /\ QueuesOrdered' /\ CallbacksRight'
  <2>1. d_running /\ Wakes
    BY <1>1 DEF ThreadRight, Wakes
  <2>2. at' \in {"act", "sleep"}
    BY <1>10
  <2> QED BY <1>1, <2>1, <2>2, LoopPlain
<1>14. CurrentDue'
  <2>1. at' \notin {"front", "run", "return"} /\ at' # "front"
    BY <1>10
  <2>2. at' = "act" => (current'["once"] = None <=> current'["recurring"] # None)
    BY <1>2, <1>6, <1>10, <1>11
  <2>3. \A k \in Kind : current'[k] # None =>
           /\ fate'[current'[k]] \notin {"unscheduled", "created"}
           /\ at' = "act" => key'[current'[k]] <= clock'
    BY <1>1, <1>6, <1>10, <1>11 DEF Scheduled
  <2> QED BY <2>1, <2>2, <2>3 DEF CurrentDue, Running, Scheduled
<1>15. FrontIsLeast'
  BY <1>10 DEF FrontIsLeast
<1>16. NoLostWakeup'
  <2>1. d_running'
    BY <1>1 DEF ThreadRight
  <2> QED BY <1>1, <1>10, <2>1 DEF NoLostWakeup, Queued
<1> QED BY <1>12, <1>13, <1>14, <1>15, <1>16

LEMMA TickKeeps ==
    ASSUME SchedulerInv, Tick
    PROVE  SchedulerInv'
<1> USE DEF SchedulerInv
<1>1. /\ clock < MaxTime /\ clock' = clock + 1
      /\ UNCHANGED <<queue, key, d_callback, d_nowOffset, fate, d_cachedNow, current,
                     deadline, d_dispatcherAwaited, at, signaled, d_running, pc, step,
                     covers, quiet, program>>
  BY DEF Tick, eventVars, loopVars, callVars
<1>2. clock \in 1 .. MaxTime /\ MaxTime \in Nat /\ d_cachedNow \in 0 .. clock
      /\ key \in [Event -> 0 .. Never] /\ Never \in Nat
  BY NeverIsLate DEF TypeOK
<1>3. clock' \in 1 .. MaxTime /\ d_cachedNow' \in 0 .. clock'
  BY <1>1, <1>2
<1>4. TypeOK'
  BY <1>1, <1>3 DEF TypeOK
<1>5. CurrentDue'
  <2>1. ASSUME NEW k \in Kind, current[k] # None, at = "act"
        PROVE  key[current[k]] <= clock'
    <3>1. current[k] \in Event /\ key[current[k]] <= clock
      BY <2>1 DEF TypeOK, CurrentDue
    <3>2. key[current[k]] \in 0 .. Never
      BY <1>2, <3>1
    <3> QED BY <1>1, <1>2, <3>1, <3>2
  <2> QED BY <1>1, <2>1 DEF CurrentDue, Running, Scheduled
<1>6. \A t : NextCall(t)' = NextCall(t) /\ EventOf(t)' = EventOf(t)
  BY <1>1 DEF NextCall, EventOf
<1>7. \A e : (Queued(e)' <=> Queued(e)) /\ (Running(e)' <=> Running(e))
             /\ (Over(e)' <=> Over(e))
  BY <1>1 DEF Queued, Running, Over
<1>8. \A e : Cleared(e)' <=> Cleared(e)
  BY <1>1, <1>6 DEF Cleared
<1>9. QueuesOrdered' /\ InsideCalls'
  BY <1>1, <1>6 DEF QueuesOrdered, InsideCalls
<1>10. FatesRight' /\ CallbacksRight'
  BY <1>1, <1>6, <1>7, <1>8 DEF FatesRight, CallbacksRight
<1>11. ThreadRight'
  BY <1>1 DEF ThreadRight, StopMeansStopped, DispatcherMutexFree
<1>12. FrontIsLeast' /\ NoLostWakeup'
  BY <1>1, <1>7 DEF FrontIsLeast, NoLostWakeup
<1>13. QuietRight'
  BY <1>1, <1>6, <1>7 DEF QuietRight
<1> QED BY <1>4, <1>5, <1>9, <1>10, <1>11, <1>12, <1>13

LEMMA StutterKeeps ==
    ASSUME SchedulerInv, UNCHANGED vars
    PROVE  SchedulerInv'
<1> USE DEF SchedulerInv
<1>1. UNCHANGED <<clock, queue, key, d_callback, d_nowOffset, fate, d_cachedNow, current,
                  deadline, d_dispatcherAwaited, at, signaled, d_running, pc, step,
                  covers, quiet, program>>
  BY DEF vars, eventVars, loopVars, callVars
<1>2. TypeOK'
  BY <1>1 DEF TypeOK
<1>3. CurrentDue'
  BY <1>1 DEF CurrentDue, Running, Scheduled
<1>4. \A t : NextCall(t)' = NextCall(t) /\ EventOf(t)' = EventOf(t)
  BY <1>1 DEF NextCall, EventOf
<1>5. \A e : (Queued(e)' <=> Queued(e)) /\ (Running(e)' <=> Running(e))
             /\ (Over(e)' <=> Over(e))
  BY <1>1 DEF Queued, Running, Over
<1>6. \A e : Cleared(e)' <=> Cleared(e)
  BY <1>1, <1>4 DEF Cleared
<1>7. QueuesOrdered' /\ InsideCalls'
  BY <1>1, <1>4 DEF QueuesOrdered, InsideCalls
<1>8. FatesRight' /\ CallbacksRight'
  BY <1>1, <1>4, <1>5, <1>6 DEF FatesRight, CallbacksRight
<1>9. ThreadRight'
  BY <1>1 DEF ThreadRight, StopMeansStopped, DispatcherMutexFree
<1>10. FrontIsLeast' /\ NoLostWakeup'
  BY <1>1, <1>5 DEF FrontIsLeast, NoLostWakeup
<1>11. QuietRight'
  BY <1>1, <1>4, <1>5 DEF QuietRight
<1> QED BY <1>2, <1>3, <1>7, <1>8, <1>9, <1>10, <1>11

\* While the dispatcher is at work, its event is the one it is at work on.
LEMMA AtWork ==
    ASSUME SchedulerInv, at \in {"act", "run", "return"},
           NEW e \in Event, e = current[KindOf(e)]
    PROVE  /\ \A f \in Event : f = current[KindOf(f)] => f = e
           /\ Scheduled(e)
           /\ current[KindOf(e)] # None
<1>1. /\ KindOf(e) \in Kind /\ \A f \in Event : KindOf(f) \in Kind
      /\ Kind = {"once", "recurring"} /\ None \notin Event
  BY KindOfEvent, EventSchedulerAssumption DEF Kind, EventSchedulerAssumption
<1>2. \A k \in Kind : k # KindOf(e) => current[k] = None
  BY <1>1 DEF SchedulerInv, CurrentDue
<1> QED BY <1>1, <1>2 DEF SchedulerInv, CurrentDue

LEMMA CallbackReturnedKeeps ==
    ASSUME SchedulerInv, CallbackReturned
    PROVE  SchedulerInv'
<1> USE DEF SchedulerInv
<1>1. /\ at = "return" /\ at' = "loop"
      /\ UNCHANGED <<clock, queue, key, d_nowOffset, fate, d_cachedNow, current, deadline,
                     d_dispatcherAwaited, signaled, d_running, pc, step, covers, quiet,
                     program>>
  BY DEF CallbackReturned, loopVars, callVars
<1>2. PICK e \in Event : /\ e = current[KindOf(e)]
                         /\ d_callback' = [d_callback EXCEPT ![e] = Restored(e)]
  BY DEF CallbackReturned
<1>3. /\ Running(e) /\ \A f \in Event : Running(f) => f = e
      /\ Scheduled(e)
  BY <1>1, <1>2, AtWork DEF Running
<1>4. TypeOK'
  <2>1. Restored(e) \in {"null", "user"}
    BY DEF Restored
  <2>2. d_callback' \in [Event -> {"null", "user", "marker"}]
    BY <1>2, <2>1 DEF TypeOK
  <2> QED BY <1>1, <2>2 DEF TypeOK
<1>5. \A f \in Event : (Queued(f)' <=> Queued(f)) /\ (Over(f)' <=> Over(f)) /\ ~Running(f)'
  BY <1>1 DEF Queued, Over, Running
<1>6. /\ InsideCalls' /\ FatesRight' /\ ThreadRight' /\ QuietRight'
      /\ \A f : Cleared(f)' <=> Cleared(f)
  <2>1. \A f \in Event : Queued(f)' <=> fate'[f] = "pending"
    BY <1>1, <1>5 DEF FatesRight
  <2>2. Wakes
    BY <1>1 DEF Wakes
  <2> QED BY <1>1, <1>5, <2>1, <2>2, LoopFrame
<1>7. CurrentDue'
  BY <1>1 DEF CurrentDue, Running, Scheduled
<1>8. CallbacksRight'
  <2> SUFFICES ASSUME NEW f \in Event
               PROVE  /\ fate[f] = "created" => d_callback'[f] = "user"
                      /\ Queued(f) => d_callback'[f] = "user"
                      /\ fate[f] = "cancelled" /\ Cleared(f) => d_callback'[f] = "null"
    BY <1>1, <1>5, <1>6 DEF CallbacksRight
  <2>0. d_callback \in [Event -> {"null", "user", "marker"}]
    BY DEF TypeOK
  <2>1. CASE f # e
    <3>1. d_callback'[f] = d_callback[f] /\ ~Running(f)
      BY <1>2, <1>3, <2>0, <2>1
    <3> QED BY <3>1 DEF CallbacksRight
  <2>2. CASE f = e
    <3>1. d_callback'[f] = Restored(e) /\ fate[e] # "created"
      BY <1>2, <1>3, <2>0, <2>2 DEF Scheduled
    <3>2. CASE e \in Once
      <4>1. fate[e] = "dispatched"
        BY <1>3, <3>2 DEF CurrentDue
      <4> QED BY <2>2, <4>1 DEF FatesRight
    <3>3. CASE e \notin Once
      <4>1. e \in Recurring
        BY <3>3 DEF Event
      <4>2. Queued(e) => d_callback[e] = "marker"
        BY <1>3 DEF CallbacksRight
      <4>3. fate[e] = "cancelled" /\ Cleared(e) => d_callback[e] = "null"
        BY DEF CallbacksRight
      <4> QED BY <2>2, <3>1, <4>1, <4>2, <4>3 DEF Restored
    <3> QED BY <3>2, <3>3
  <2> QED BY <2>1, <2>2
<1> QED BY <1>1, <1>4, <1>6, <1>7, <1>8 DEF QueuesOrdered, FrontIsLeast, NoLostWakeup

\* What no step of the dispatcher at work changes.
ActFrame ==
    /\ at = "act"
    /\ UNCHANGED <<clock, d_nowOffset, d_cachedNow, deadline, d_dispatcherAwaited,
                   signaled, d_running, pc, step, covers, quiet, program>>

\* The parts of the invariant that those steps have in common.
LEMMA ActCommon ==
    ASSUME SchedulerInv, ActFrame, at' \in {"run", "loop"},
           NEW e \in Event, e = current[KindOf(e)],
           QueuesOK', d_callback' \in [Event -> {"null", "user", "marker"}],
           fate' \in [Event -> {"unscheduled", "created", "pending", "cancelled",
                                "removed", "dispatched"}],
           \/ current' = current
           \/ at' = "loop" /\ current' = NoEvent,
           \A f \in Event : Queued(f)' <=> fate'[f] = "pending",
           \A f \in Event : f # e => fate'[f] = fate[f],
           \/ fate'[e] = fate[e]
           \/ fate[e] = "pending" /\ fate'[e] = "dispatched",
           at' = "run" => fate[e] = "pending" /\ (e \in Once => fate'[e] = "dispatched")
    PROVE  /\ TypeOK' /\ QueuesOrdered' /\ InsideCalls' /\ CurrentDue' /\ FatesRight'
           /\ ThreadRight' /\ FrontIsLeast' /\ NoLostWakeup' /\ QuietRight'
           /\ \A f \in Event : Cleared(f)' <=> Cleared(f)
           /\ \A f \in Event : Running(f)' <=> f = e /\ at' = "run"
<1> USE DEF SchedulerInv, ActFrame
<1>1. /\ \A f \in Event : f = current[KindOf(f)] => f = e
      /\ Scheduled(e)
  BY AtWork
<1>2. current' \in [Kind -> Event \cup {None}]
      /\ \A k \in Kind : current'[k] = None \/ current'[k] = current[k]
  BY DEF TypeOK, NoEvent
<1>3. TypeOK'
  <2>1. \A k \in Kind : \A f \in ToSet(queue'[k]) \cup ({current'[k]} \ {None}) :
            KindOf(f) = k
    BY <1>2 DEF TypeOK, QueuesOK
  <2> QED BY <1>2, <2>1 DEF TypeOK, QueuesOK
<1>4. \A f \in Event : ~Running(f) /\ (Running(f)' <=> f = e /\ at' = "run")
  <2>1. at' = "run" => current' = current
    OBVIOUS
  <2>2. \A f \in Event : ~Running(f)
    BY DEF Running
  <2>3. ASSUME NEW f \in Event
        PROVE  Running(f)' <=> f = e /\ at' = "run"
    BY <1>1, <2>1 DEF Running
  <2> QED BY <2>2, <2>3
<1>5. \A f \in Event : Over(f) => Over(f)' /\ (f # e \/ at' # "run")
  BY DEF Over
<1>6. /\ InsideCalls' /\ FatesRight' /\ ThreadRight' /\ QuietRight'
      /\ \A f : Cleared(f)' <=> Cleared(f)
  <2>1. Wakes
    BY DEF Wakes
  <2>2. \A f \in Event : fate[f] \in {"created", "cancelled"} => fate'[f] = fate[f]
    OBVIOUS
  <2> QED BY <1>4, <1>5, <2>1, <2>2, LoopFrame
<1>7. CurrentDue'
  <2>1. \A f \in Event : fate[f] \notin {"unscheduled", "created"} =>
               fate'[f] \notin {"unscheduled", "created"}
    OBVIOUS
  <2>2. \A k \in Kind : current'[k] # None =>
           fate'[current'[k]] \notin {"unscheduled", "created"}
    BY <1>2, <2>1 DEF CurrentDue, Scheduled
  <2>3. \A f \in Once : Running(f)' => fate'[f] = "dispatched"
    BY <1>4 DEF Event
  <2>4. at' = "run" => (current'["once"] = None <=> current'["recurring"] # None)
    BY DEF CurrentDue
  <2> QED BY <2>2, <2>3, <2>4 DEF CurrentDue, Scheduled
<1> QED BY <1>3, <1>4, <1>6, <1>7 DEF QueuesOK, FrontIsLeast, NoLostWakeup

LEMMA DispatchOnceKeeps ==
    ASSUME SchedulerInv, ActFrame, NEW e \in Event, e = current[KindOf(e)],
           e \in Once, DispatchOnce(e)
    PROVE  SchedulerInv'
<1> USE DEF SchedulerInv
<1>1. QueuesOK /\ key' = key /\ d_callback' = d_callback /\ at = "act"
  BY QueuesAreOK DEF DispatchOnce, ActFrame
<1>2. CASE Queued(e) /\ remove(e) /\ fate' = [fate EXCEPT ![e] = "dispatched"]
           /\ at' = "run" /\ UNCHANGED current
  <2>1. QueuesOK' /\ \A f \in Event : Queued(f)' <=> Queued(f) /\ f # e
    BY <1>1, <1>2, RemoveQueues
  <2>2. fate[e] = "pending" /\ fate \in [Event -> {"unscheduled", "created", "pending",
                                                  "cancelled", "removed", "dispatched"}]
    BY <1>2 DEF FatesRight, TypeOK
  <2>3. /\ fate'[e] = "dispatched" /\ \A f \in Event : f # e => fate'[f] = fate[f]
        /\ fate' \in [Event -> {"unscheduled", "created", "pending", "cancelled",
                                "removed", "dispatched"}]
    BY <1>2, <2>2
  <2>4. \A f \in Event : Queued(f)' <=> fate'[f] = "pending"
    BY <2>1, <2>3 DEF FatesRight
  <2>5. /\ TypeOK' /\ QueuesOrdered' /\ InsideCalls' /\ CurrentDue' /\ FatesRight'
        /\ ThreadRight' /\ FrontIsLeast' /\ NoLostWakeup' /\ QuietRight'
        /\ \A f \in Event : Cleared(f)' <=> Cleared(f)
        /\ \A f \in Event : Running(f)' <=> f = e /\ at' = "run"
    <3>1. d_callback' \in [Event -> {"null", "user", "marker"}]
      BY <1>1 DEF TypeOK
    <3> QED BY <1>2, <2>1, <2>2, <2>3, <2>4, <3>1, ActCommon
  <2>6. \A f \in Event : ~Running(f)
    BY <1>1 DEF Running
  <2>7. CallbacksRight'
    BY <1>1, <2>1, <2>3, <2>5, <2>6 DEF CallbacksRight
  <2> QED BY <2>5, <2>7
<1>3. CASE ~Queued(e) /\ NextIteration /\ UNCHANGED <<queue, fate>>
  <2>1. QueuesOK' /\ \A f \in Event : Queued(f)' <=> Queued(f)
    BY <1>1, <1>3 DEF QueuesOK, QueuesOrdered, Queued
  <2>2. at' = "loop" /\ current' = current /\ fate' = fate
    BY <1>3 DEF NextIteration
  <2>3. \A f \in Event : Queued(f)' <=> fate'[f] = "pending"
    BY <2>1, <2>2 DEF FatesRight
  <2>5. /\ TypeOK' /\ QueuesOrdered' /\ InsideCalls' /\ CurrentDue' /\ FatesRight'
        /\ ThreadRight' /\ FrontIsLeast' /\ NoLostWakeup' /\ QuietRight'
        /\ \A f \in Event : Cleared(f)' <=> Cleared(f)
        /\ \A f \in Event : Running(f)' <=> f = e /\ at' = "run"
    <3>1. d_callback' \in [Event -> {"null", "user", "marker"}]
      BY <1>1 DEF TypeOK
    <3>2. fate' \in [Event -> {"unscheduled", "created", "pending", "cancelled",
                               "removed", "dispatched"}]
      BY <2>2 DEF TypeOK
    <3>3. /\ at' \in {"run", "loop"} /\ (\A f \in Event : f # e => fate'[f] = fate[f])
          /\ fate'[e] = fate[e] /\ at' # "run"
      BY <2>2
    <3> QED BY <2>1, <2>2, <2>3, <3>1, <3>2, <3>3, ActCommon
  <2>6. \A f \in Event : ~Running(f)
    BY <1>1 DEF Running
  <2>7. CallbacksRight'
    BY <1>1, <2>1, <2>2, <2>5, <2>6 DEF CallbacksRight
  <2> QED BY <2>5, <2>7
<1> QED BY <1>2, <1>3 DEF DispatchOnce

LEMMA DispatchRecurringKeeps ==
    ASSUME SchedulerInv, ActFrame, NEW e \in Event, e = current[KindOf(e)],
           e \in Recurring, DispatchRecurring(e)
    PROVE  SchedulerInv'
<1> USE DEF SchedulerInv
<1>1. QueuesOK /\ fate' = fate /\ at = "act" /\ e \notin Once
      /\ d_callback \in [Event -> {"null", "user", "marker"}]
  BY QueuesAreOK, EventSchedulerAssumption
  DEF DispatchRecurring, ActFrame, EventSchedulerAssumption, TypeOK
<1>2. fate' \in [Event -> {"unscheduled", "created", "pending", "cancelled",
                           "removed", "dispatched"}]
  BY <1>1 DEF TypeOK
<1>3. \A f \in Event : ~Running(f)
  BY <1>1 DEF Running
<1>4. CASE /\ Queued(e) /\ updateR(e, key[e] + Interval)
           /\ d_callback' = [d_callback EXCEPT ![e] = "marker"]
           /\ at' = "run" /\ UNCHANGED current
  <2>1. key[e] + Interval \in 0 .. Never
    <3>1. key[e] <= clock /\ KindOf(e) \in Kind
      BY <1>1, AtWork, KindOfEvent DEF CurrentDue
    <3>2. key[e] \in 0 .. Never /\ clock \in 1 .. MaxTime /\ MaxTime \in Nat
          /\ Interval \in Nat
      BY NeverIsLate DEF TypeOK
    <3> QED BY <3>1, <3>2 DEF Never
  <2>2. QueuesOK' /\ \A f \in Event : Queued(f)' <=> Queued(f)
    BY <1>1, <1>4, <2>1, UpdateRQueues
  <2>3. \A f \in Event : Queued(f)' <=> fate'[f] = "pending"
    BY <1>1, <2>2 DEF FatesRight
  <2>4. fate[e] = "pending"
    BY <1>4 DEF FatesRight
  <2>5. d_callback' \in [Event -> {"null", "user", "marker"}]
    BY <1>1, <1>4
  <2>6. /\ TypeOK' /\ QueuesOrdered' /\ InsideCalls' /\ CurrentDue' /\ FatesRight'
        /\ ThreadRight' /\ FrontIsLeast' /\ NoLostWakeup' /\ QuietRight'
        /\ \A f \in Event : Cleared(f)' <=> Cleared(f)
        /\ \A f \in Event : Running(f)' <=> f = e /\ at' = "run"
    BY <1>1, <1>2, <1>4, <2>2, <2>3, <2>4, <2>5, ActCommon
  <2>7. CallbacksRight'
    <3>1. d_callback'[e] = "marker"
          /\ \A f \in Event : f # e => d_callback'[f] = d_callback[f]
      BY <1>1, <1>4
    <3> QED BY <1>1, <1>3, <1>4, <2>2, <2>4, <2>6, <3>1 DEF CallbacksRight
  <2> QED BY <2>6, <2>7
<1>5. CASE /\ ~Queued(e) /\ d_callback' = [d_callback EXCEPT ![e] = "null"]
           /\ NextIteration /\ UNCHANGED <<queue, key>>
  <2>1. QueuesOK' /\ \A f \in Event : Queued(f)' <=> Queued(f)
    BY <1>1, <1>5 DEF QueuesOK, QueuesOrdered, Queued
  <2>2. at' = "loop" /\ current' = current
    BY <1>5 DEF NextIteration
  <2>3. \A f \in Event : Queued(f)' <=> fate'[f] = "pending"
    BY <1>1, <2>1 DEF FatesRight
  <2>5. d_callback' \in [Event -> {"null", "user", "marker"}]
    BY <1>1, <1>5
  <2>6. /\ TypeOK' /\ QueuesOrdered' /\ InsideCalls' /\ CurrentDue' /\ FatesRight'
        /\ ThreadRight' /\ FrontIsLeast' /\ NoLostWakeup' /\ QuietRight'
        /\ \A f \in Event : Cleared(f)' <=> Cleared(f)
        /\ \A f \in Event : Running(f)' <=> f = e /\ at' = "run"
    BY <1>1, <1>2, <2>1, <2>2, <2>3, <2>5, ActCommon
  <2>7. CallbacksRight'
    <3>1. d_callback'[e] = "null"
          /\ \A f \in Event : f # e => d_callback'[f] = d_callback[f]
      BY <1>1, <1>5
    <3>2. fate[e] # "created"
      BY <1>1, AtWork DEF Scheduled
    <3> QED BY <1>1, <1>3, <1>5, <2>1, <2>2, <2>6, <3>1, <3>2 DEF CallbacksRight
  <2> QED BY <2>6, <2>7
<1> QED BY <1>4, <1>5 DEF DispatchRecurring

LEMMA PutOffKeeps ==
    ASSUME SchedulerInv, ActFrame, NEW e \in Event, e = current[KindOf(e)], PutOff(e)
    PROVE  SchedulerInv'
<1> USE DEF SchedulerInv
<1>1. QueuesOK /\ fate' = fate /\ d_callback' = d_callback /\ at = "act"
      /\ at' = "loop" /\ current' = NoEvent
  BY QueuesAreOK DEF PutOff, ActFrame
<1>2. QueuesOK' /\ \A f \in Event : Queued(f)' <=> Queued(f)
  <2>1. CASE Queued(e) /\ updateR(e, d_cachedNow + 1)
    <3>1. d_cachedNow + 1 \in 0 .. Never
      <4>1. d_cachedNow \in 0 .. clock /\ clock \in 1 .. MaxTime /\ MaxTime \in Nat
            /\ Interval \in Nat
        BY NeverIsLate DEF TypeOK
      <4> QED BY <4>1 DEF Never
    <3> QED BY <1>1, <2>1, <3>1, UpdateRQueues
  <2>2. CASE ~Queued(e) /\ UNCHANGED <<queue, key>>
    BY <1>1, <2>2 DEF QueuesOK, QueuesOrdered, Queued
  <2> QED BY <2>1, <2>2 DEF PutOff
<1>3. \A f \in Event : Queued(f)' <=> fate'[f] = "pending"
  BY <1>1, <1>2 DEF FatesRight
<1>4. /\ d_callback' \in [Event -> {"null", "user", "marker"}]
      /\ fate' \in [Event -> {"unscheduled", "created", "pending", "cancelled",
                              "removed", "dispatched"}]
  BY <1>1 DEF TypeOK
<1>5. /\ TypeOK' /\ QueuesOrdered' /\ InsideCalls' /\ CurrentDue' /\ FatesRight'
      /\ ThreadRight' /\ FrontIsLeast' /\ NoLostWakeup' /\ QuietRight'
      /\ \A f \in Event : Cleared(f)' <=> Cleared(f)
      /\ \A f \in Event : Running(f)' <=> f = e /\ at' = "run"
  BY <1>1, <1>2, <1>3, <1>4, ActCommon
<1>6. CallbacksRight'
  <2>1. \A f \in Event : ~Running(f)
    BY <1>1 DEF Running
  <2> QED BY <1>1, <1>2, <1>5, <2>1 DEF CallbacksRight
<1> QED BY <1>5, <1>6

LEMMA ActKeeps ==
    ASSUME SchedulerInv, Act
    PROVE  SchedulerInv'
<1>1. ActFrame
  BY DEF Act, ActFrame, callVars
<1>2. PICK e \in Event : /\ e = current[KindOf(e)]
                         /\ \/ e \in Once /\ DispatchOnce(e)
                            \/ e \in Recurring /\ DispatchRecurring(e)
                            \/ d_nowOffset[e] /\ PutOff(e)
  BY DEF Act
<1> QED BY <1>1, <1>2, DispatchOnceKeeps, DispatchRecurringKeeps, PutOffKeeps

-----------------------------------------------------------------------------
(* Calls that change the events *)

\* The time an event is given is one the scheduler can wait for.
LEMMA StartTimeType ==
    ASSUME TypeOK, NEW call \in Calls, call.op \in Schedules \cup Reschedules
    PROVE  startTime(call) \in 0 .. Never
<1>1. call.time \in 0 .. MaxTime
  BY CallKinds
<1>2. /\ clock \in 1 .. MaxTime /\ d_cachedNow \in 0 .. clock
      /\ MaxTime \in Nat /\ Interval \in Nat
  BY NeverIsLate DEF TypeOK
<1>3. clock + Interval \in 0 .. Never /\ d_cachedNow \in 0 .. Never
      /\ call.time \in 0 .. Never
  BY <1>1, <1>2 DEF Never
<1> QED BY <1>3 DEF startTime

\* No event that is not scheduled yet is at work.
LEMMA NotAtWork ==
    ASSUME SchedulerInv, NEW e \in Event, ~Scheduled(e)
    PROVE  ~Running(e) /\ \A k \in Kind : current[k] # e
<1>1. None \notin Event
  BY EventSchedulerAssumption DEF EventSchedulerAssumption
<1>2. \A k \in Kind : current[k] # e
  BY <1>1 DEF SchedulerInv, CurrentDue
<1> QED BY <1>2, KindOfEvent DEF Running

LEMMA ScheduleEventKeeps ==
    ASSUME SchedulerInv, NEW t \in Thread, scheduleEvent(t)
    PROVE  SchedulerInv'
<1> USE DEF SchedulerInv
<1> DEFINE e == EventOf(t)
           time == startTime(NextCall(t))
<1>1. /\ pc[t] = "idle" /\ InCall(t) /\ NextCall(t).op \in Schedules
      /\ fate[e] = "unscheduled"
  BY InCallWhen DEF scheduleEvent
<1>2. /\ UNCHANGED <<clock, queue, d_nowOffset, d_cachedNow, current, deadline,
                     d_dispatcherAwaited, signaled, d_running, program>>
      /\ fate' = [fate EXCEPT ![e] = "created"]
      /\ key' = [key EXCEPT ![e] = time]
      /\ d_callback' = [d_callback EXCEPT ![e] = "user"]
      /\ Goto(t, "add")
  BY DEF scheduleEvent, loopVars
<1>3. e \in Event /\ time \in 0 .. Never
  BY <1>1, NextCallType, CallKinds, StartTimeType DEF EventOf
<1> HIDE DEF e, time
<1>4. /\ fate \in [Event -> {"unscheduled", "created", "pending", "cancelled", "removed",
                             "dispatched"}]
      /\ key \in [Event -> 0 .. Never]
      /\ d_callback \in [Event -> {"null", "user", "marker"}]
  BY DEF TypeOK
<1>5. /\ \A f \in Event : f # e => fate'[f] = fate[f]
      /\ \A f \in Event : f # e => key'[f] = key[f] /\ d_callback'[f] = d_callback[f]
      /\ fate'[e] = "created" /\ d_callback'[e] = "user"
  BY <1>2, <1>3, <1>4
<1>6. ~Queued(e) /\ ~Running(e) /\ \A k \in Kind : current[k] # e
  BY <1>1, <1>3, NotAtWork DEF FatesRight, Scheduled
<1>7. Move(t, "add") /\ Placed("add", NextCall(t)) /\ at' = at
      /\ covers' = covers /\ quiet' = quiet
  BY <1>1, <1>2, GotoMoves DEF Placed, Goto
<1>8. TypeOK'
  <2>1. /\ fate' \in [Event -> {"unscheduled", "created", "pending", "cancelled",
                                "removed", "dispatched"}]
        /\ key' \in [Event -> 0 .. Never]
        /\ d_callback' \in [Event -> {"null", "user", "marker"}]
    BY <1>2, <1>3, <1>4
  <2> QED BY <1>2, <2>1, GotoTypes DEF TypeOK
<1>9. QueuesOrdered'
  <2>1. QueuesOK
    BY QueuesAreOK
  <2>2. ASSUME NEW k \in Kind
        PROVE  Ordered(queue[k], key')
    <3>1. e \notin ToSet(queue[k])
      BY <1>6 DEF TypeOK, Queued
    <3> QED BY <1>2, <1>3, <2>1, <3>1, OtherKindOrdered
  <2> QED BY <1>2, <2>2 DEF QueuesOrdered
<1>10. InsideCalls'
  BY <1>1, <1>7, MoveInside
<1>11. \A f \in Event : (Queued(f)' <=> Queued(f)) /\ (Over(f) => Over(f)')
  BY <1>1, <1>2, <1>5 DEF Queued, Over
<1>12. CurrentDue'
  <2>1. \A f \in Event : Scheduled(f) => Scheduled(f)' /\ f # e
    BY <1>1, <1>5 DEF Scheduled
  <2>2. \A f \in Event : fate[f] = "dispatched" => fate'[f] = "dispatched"
    BY <1>1, <1>5
  <2>3. \A f \in Event : at = "act" /\ Scheduled(f) => key'[f] = key[f]
    BY <1>5, <2>1
  <2> QED BY <1>1, <1>2, <1>7, <2>1, <2>2, <2>3, MoveCurrent
<1>13. FatesRight'
  <2>1. \A f \in Event : Queued(f)' <=> fate'[f] = "pending"
    BY <1>1, <1>5, <1>6, <1>11 DEF FatesRight
  <2> QED BY <1>1, <1>5, <1>7, <2>1, MoveFates DEF e
<1>14. CallbacksRight'
  <2> SUFFICES ASSUME NEW f \in Event
               PROVE  /\ fate'[f] = "created" => d_callback'[f] = "user"
                      /\ Queued(f)' => d_callback'[f] = IF Running(f)' THEN "marker"
                                                                     ELSE "user"
                      /\ fate'[f] = "cancelled" /\ Cleared(f)' => d_callback'[f] = "null"
    BY DEF CallbacksRight
  <2>1. (Running(f)' <=> Running(f)) /\ (Cleared(f)' <=> Cleared(f))
    BY <1>1, <1>7, MoveFrame, MoveCleared
  <2> QED BY <1>5, <1>6, <1>11, <2>1 DEF CallbacksRight
<1>15. ThreadRight'
  BY <1>1, <1>2, <1>7, MoveThread
<1>16. FrontIsLeast' /\ NoLostWakeup'
  <2>1. (\E u \in Thread : pc[u] = "signal") => \E u \in Thread : pc'[u] = "signal"
    BY <1>1, <1>7, SignalStays
  <2>2. \A f \in Event : Queued(f)' => Queued(f) /\ key'[f] = key[f]
    BY <1>5, <1>6, <1>11
  <2>3. current'["recurring"] # None =>
            key'[current'["recurring"]] = key[current["recurring"]]
    <3>1. current["recurring"] \in Event \cup {None} /\ current["recurring"] # e
      BY <1>6 DEF TypeOK, Kind
    <3> QED BY <1>2, <1>5, <3>1
  <2>4. FrontIsLeast'
    BY <1>2, <1>7, <2>1, <2>2, <2>3 DEF FrontIsLeast, Event
  <2>5. NoLostWakeup'
    BY <1>2, <1>7, <2>1, <2>2 DEF NoLostWakeup
  <2> QED BY <2>4, <2>5
<1>17. QuietRight'
  BY <1>1, <1>7, <1>11, GotoQuiet
<1> QED BY <1>8, <1>9, <1>10, <1>12, <1>13, <1>14, <1>15, <1>16, <1>17

LEMMA AddEventKeeps ==
    ASSUME SchedulerInv, NEW t \in Thread, addEvent(t)
    PROVE  SchedulerInv'
<1> USE DEF SchedulerInv
<1> DEFINE e == EventOf(t)
<1>1. /\ pc[t] = "add" /\ InCall(t) /\ NextCall(t).op \in Schedules
      /\ fate[e] = "created"
  BY InCallWhen DEF addEvent, InsideCalls, FatesRight
<1>2. /\ UNCHANGED <<clock, key, d_callback, d_nowOffset, d_cachedNow, current, deadline,
                     d_dispatcherAwaited, signaled, d_running, program>>
      /\ fate' = [fate EXCEPT ![e] = "pending"]
      /\ addR(e)
      /\ \/ e = Head(queue'[KindOf(e)]) /\ Goto(t, "signal")
         \/ e # Head(queue'[KindOf(e)]) /\ Return(t)
  BY DEF addEvent, loopVars, newFront
<1>3. e \in Event
  BY <1>1, NextCallType, CallKinds DEF EventOf
<1> HIDE DEF e
<1>4. /\ \A f \in Event : f # e => fate'[f] = fate[f]
      /\ fate'[e] = "pending"
      /\ fate' \in [Event -> {"unscheduled", "created", "pending", "cancelled",
                              "removed", "dispatched"}]
  BY <1>2, <1>3 DEF TypeOK
<1>5. ~Queued(e) /\ ~Running(e)
  BY <1>1, <1>3, NotAtWork DEF FatesRight, Scheduled
<1>6. /\ QueuesOK' /\ \A f \in Event : Queued(f)' <=> Queued(f) \/ f = e
  BY <1>2, <1>3, <1>5, QueuesAreOK, AddRQueues
<1>7. PICK h \in Event : /\ h = Head(queue'[KindOf(e)])
                         /\ KindOf(h) = KindOf(e) /\ Queued(h)' /\ key[h] <= key[e]
  <2>1. /\ queue' \in [Kind -> Seq(Event)] /\ key' \in [Event -> 0 .. Never]
        /\ \A k \in Kind : /\ \A f \in ToSet(queue'[k]) : KindOf(f) = k
                           /\ Ordered(queue'[k], key')
        /\ e \in ToSet(queue'[KindOf(e)])
    BY <1>3, <1>6 DEF QueuesOK, QueuesOrdered, Queued
  <2>2. LET h == Head(queue'[KindOf(e)])
        IN  /\ h \in Event /\ h \in ToSet(queue'[KindOf(e)]) /\ KindOf(h) = KindOf(e)
            /\ key'[h] <= key'[e]
    BY <1>3, <2>1, FrontIsLeastKey
  <2>3. PICK h \in Event : h = Head(queue'[KindOf(e)])
    BY <2>2
  <2> QED BY <1>2, <2>2, <2>3 DEF Queued
<1>8. PICK x \in {"signal", "idle"} :
         /\ Move(t, x) /\ Placed(x, NextCall(t))
         /\ x = "signal" => e = h /\ Goto(t, "signal")
         /\ x = "idle" => e # h /\ Return(t)
  <2>1. CASE e = h /\ Goto(t, "signal")
    BY <1>1, <1>2, <2>1, GotoMoves DEF Placed
  <2>2. CASE e # h /\ Return(t)
    <3>1. t \notin Client => at = "run"
      BY <1>1 DEF InCall
    <3> QED BY <1>2, <2>2, <3>1, ReturnMoves DEF Placed
  <2> QED BY <1>2, <1>7, <2>1, <2>2
<1>9. at' = at \/ at' = "return"
  BY <1>8 DEF Goto, Return
<1>10. TypeOK'
  <2>1. /\ pc' \in [Thread -> {"idle", "add", "signal", "clear", "second", "await",
                               "asleep", "join"}]
        /\ step' \in [Client -> Nat]
        /\ covers' \in [Client -> SUBSET Event]
        /\ quiet' \subseteq Event
        /\ at' \in {"none", "begin", "loop", "front", "act", "sleep", "run", "return"}
    BY <1>8, GotoTypes, ReturnTypes
  <2> QED BY <1>2, <1>4, <1>6, <2>1 DEF TypeOK, QueuesOK
<1>11. InsideCalls'
  BY <1>1, <1>8, MoveInside
<1>12. \A f \in Event : Over(f) => Over(f)'
  BY <1>1, <1>4 DEF Over
<1>13. CurrentDue'
  <2>1. \A f \in Event : Scheduled(f) => Scheduled(f)'
    BY <1>4 DEF Scheduled
  <2>2. \A f \in Event : fate[f] = "dispatched" => fate'[f] = "dispatched"
    BY <1>1, <1>4
  <2> QED BY <1>1, <1>2, <1>8, <2>1, <2>2, MoveCurrent
<1>14. FatesRight'
  <2>1. \A f \in Event : Queued(f)' <=> fate'[f] = "pending"
    BY <1>4, <1>6 DEF FatesRight
  <2>2. \A f \in Event : fate[f] = "cancelled" => fate'[f] = "cancelled"
    BY <1>1, <1>4
  <2>3. \A f \in Event : fate[f] = "created" =>
            fate'[f] = "created" \/ (pc[t] = "add" /\ x # "add" /\ f = EventOf(t))
    BY <1>1, <1>4 DEF e
  <2> QED BY <1>1, <1>8, <2>1, <2>2, <2>3, MoveFates
<1>15. CallbacksRight'
  <2> SUFFICES ASSUME NEW f \in Event
               PROVE  /\ fate'[f] = "created" => d_callback'[f] = "user"
                      /\ Queued(f)' => d_callback'[f] = IF Running(f)' THEN "marker"
                                                                     ELSE "user"
                      /\ fate'[f] = "cancelled" /\ Cleared(f)' => d_callback'[f] = "null"
    BY DEF CallbacksRight
  <2>1. (Running(f)' <=> Running(f)) /\ (Cleared(f)' <=> Cleared(f))
    BY <1>1, <1>8, MoveFrame, MoveCleared
  <2> QED BY <1>1, <1>2, <1>4, <1>5, <1>6, <2>1 DEF CallbacksRight
<1>16. ThreadRight'
  BY <1>1, <1>2, <1>8, <1>9, MoveThread
<1>17. (\E u \in Thread : pc[u] = "signal") => \E u \in Thread : pc'[u] = "signal"
  BY <1>1, <1>8, SignalStays
<1>18. x = "signal" => \E u \in Thread : pc'[u] = "signal"
  BY <1>1, <1>8, MoveFrame
<1>19. x = "idle" => Queued(h) /\ h # e
  BY <1>6, <1>7, <1>8
<1>20. key \in [Event -> 0 .. Never] /\ Never \in Nat /\ deadline \in 0 .. Never
  BY NeverIsLate DEF TypeOK
<1>21. FrontIsLeast'
  <2> SUFFICES ASSUME at' = "front", ~\E u \in Thread : pc'[u] = "signal",
                      NEW f \in Recurring, Queued(f)'
               PROVE  current'["recurring"] # None /\ key'[current'["recurring"]] <= key'[f]
    BY DEF FrontIsLeast
  <2> DEFINE r == current["recurring"]
  <2>0. at = "front" /\ x = "idle" /\ f \in Event /\ Queued(h) /\ h # e
    BY <1>8, <1>9, <1>18, <1>19 DEF Event
  <2>1. \A g \in Recurring : Queued(g) => r # None /\ key[r] <= key[g]
    BY <1>17, <2>0 DEF FrontIsLeast
  <2>2. r \in Event \cup {None}
    BY DEF TypeOK, Kind
  <2>3. CASE f # e
    BY <1>2, <1>6, <2>0, <2>1, <2>3
  <2>4. CASE f = e
    <3>1. h \in Recurring
      BY <1>7, <2>4, EventSchedulerAssumption
      DEF KindOf, Event, EventSchedulerAssumption
    <3>2. r # None /\ key[r] <= key[h]
      BY <2>0, <2>1, <3>1
    <3>3. key[r] \in 0 .. Never /\ key[h] \in 0 .. Never /\ key[e] \in 0 .. Never
      BY <1>3, <1>7, <1>20, <2>2, <3>2
    <3>4. key[r] <= key[e]
      BY <1>7, <1>20, <3>2, <3>3
    <3> QED BY <1>2, <2>4, <3>2, <3>4
  <2> QED BY <2>3, <2>4
<1>22. NoLostWakeup'
  <2> SUFFICES ASSUME at' = "sleep", ~signaled', ~\E u \in Thread : pc'[u] = "signal"
               PROVE  d_running' /\ \A f \in Event : Queued(f)' => deadline' <= key'[f]
    BY <1>2, <1>9, <1>17 DEF NoLostWakeup
  <2>0. at = "sleep" /\ x = "idle" /\ Queued(h)
    BY <1>8, <1>9, <1>18, <1>19
  <2>1. d_running /\ \A f \in Event : Queued(f) => deadline <= key[f]
    BY <1>2, <1>17, <2>0 DEF NoLostWakeup
  <2>2. deadline <= key[e]
    <3>1. key[h] \in 0 .. Never /\ key[e] \in 0 .. Never /\ deadline <= key[h]
      BY <1>3, <1>7, <1>20, <2>0, <2>1
    <3> QED BY <1>7, <1>20, <3>1
  <2> QED BY <1>2, <1>6, <2>1, <2>2
<1>23. QuietRight'
  <2>1. CASE x = "signal"
    <3>1. covers' = covers /\ quiet' = quiet
      BY <1>8, <2>1 DEF Goto
    <3> QED BY <1>1, <1>8, <1>12, <2>1, <3>1, GotoQuiet
  <2>2. CASE x = "idle"
    BY <1>1, <1>8, <1>12, <2>2, ReturnQuiet DEF Waits, Schedules
  <2> QED BY <2>1, <2>2
<1> QED
  <2>1. QueuesOrdered'
    BY <1>6 DEF QueuesOK
  <2> QED BY <1>10, <1>11, <1>13, <1>14, <1>15, <1>16, <1>21, <1>22, <1>23, <2>1

LEMMA RescheduleEventKeeps ==
    ASSUME SchedulerInv, NEW t \in Thread, rescheduleEvent(t)
    PROVE  SchedulerInv'
<1> USE DEF SchedulerInv
<1> DEFINE e == EventOf(t)
           time == startTime(NextCall(t))
<1>1. /\ pc[t] = "idle" /\ InCall(t) /\ NextCall(t).op \in Reschedules
      /\ at \notin {"front", "act"}
  BY InCallWhen DEF rescheduleEvent, MutexFree
<1>2. /\ UNCHANGED <<clock, d_callback, fate, d_cachedNow, current, deadline,
                     d_dispatcherAwaited, d_running, program>>
      /\ d_nowOffset' = [d_nowOffset EXCEPT ![e] = FALSE]
      /\ \/ /\ Queued(e) /\ updateR(e, time)
            /\ \/ e = Head(queue'[KindOf(e)]) /\ Signal
               \/ e # Head(queue'[KindOf(e)]) /\ UNCHANGED signaled
         \/ ~Queued(e) /\ UNCHANGED <<queue, key, signaled>>
      /\ \/ NextCall(t).op = "rescheduleEventAndWait" /\ Goto(t, "await")
         \/ Return(t)
  BY DEF rescheduleEvent, loopVars, newFront
<1>3. e \in Event /\ time \in 0 .. Never
  BY <1>1, NextCallType, CallKinds, StartTimeType DEF EventOf, Event
<1> HIDE DEF e, time
<1>4. PICK x \in {"await", "idle"} :
         /\ Move(t, x) /\ Placed(x, NextCall(t))
         /\ x = "await" => Goto(t, "await")
         /\ x = "idle" => Return(t)
  <2>1. CASE NextCall(t).op = "rescheduleEventAndWait" /\ Goto(t, "await")
    BY <1>1, <1>2, <2>1, GotoMoves DEF Placed
  <2>2. CASE Return(t)
    <3>1. t \notin Client => at = "run"
      BY <1>1 DEF InCall
    <3> QED BY <1>2, <2>2, <3>1, ReturnMoves DEF Placed
  <2> QED BY <1>2, <2>1, <2>2
<1>5. at' = at \/ at' = "return"
  BY <1>4 DEF Goto, Return
<1>6. /\ QueuesOK' /\ \A f \in Event : Queued(f)' <=> Queued(f)
      /\ \A f \in Event : f # e => key'[f] = key[f]
      /\ signaled' \in BOOLEAN /\ (~signaled' => ~signaled)
  <2>1. QueuesOK
    BY QueuesAreOK
  <2>2. CASE Queued(e) /\ updateR(e, time) /\ (Signal \/ UNCHANGED signaled)
    <3>1. /\ QueuesOK' /\ \A f \in Event : Queued(f)' <=> Queued(f)
          /\ key' = [key EXCEPT ![e] = time]
      BY <1>3, <2>1, <2>2, UpdateRQueues
    <3>2. signaled' \in BOOLEAN /\ (~signaled' => ~signaled)
      <4>1. signaled \in BOOLEAN
        BY DEF TypeOK
      <4>2. CASE Signal
        <5>1. signaled' \in BOOLEAN
          BY <4>2 DEF Signal
        <5>2. signaled => signaled'
          BY <4>2 DEF Signal
        <5> QED BY <5>1, <5>2
      <4>3. CASE UNCHANGED signaled
        BY <4>1, <4>3
      <4> QED BY <2>2, <4>2, <4>3
    <3> QED BY <2>1, <3>1, <3>2 DEF QueuesOK
  <2>3. CASE ~Queued(e) /\ UNCHANGED <<queue, key, signaled>>
    <3>1. signaled' \in BOOLEAN /\ (~signaled' => ~signaled)
      BY <2>3 DEF TypeOK
    <3> QED BY <2>1, <2>3, <3>1 DEF QueuesOK, QueuesOrdered, Queued
  <2> QED BY <1>2, <2>2, <2>3
<1>7. TypeOK'
  <2>1. /\ pc' \in [Thread -> {"idle", "add", "signal", "clear", "second", "await",
                               "asleep", "join"}]
        /\ step' \in [Client -> Nat]
        /\ covers' \in [Client -> SUBSET Event]
        /\ quiet' \subseteq Event
        /\ at' \in {"none", "begin", "loop", "front", "act", "sleep", "run", "return"}
    BY <1>4, GotoTypes, ReturnTypes
  <2>2. d_nowOffset' \in [Event -> BOOLEAN]
    BY <1>2, <1>3 DEF TypeOK
  <2> QED BY <1>2, <1>6, <2>1, <2>2 DEF TypeOK, QueuesOK
<1>8. QueuesOrdered'
  BY <1>6 DEF QueuesOK
<1>9. InsideCalls'
  BY <1>1, <1>4, MoveInside
<1>10. \A f \in Event : Over(f) => Over(f)'
  BY <1>2 DEF Over
<1>11. CurrentDue'
  <2>1. \A f \in Event : Scheduled(f) => Scheduled(f)'
    BY <1>2 DEF Scheduled
  <2> QED BY <1>1, <1>2, <1>4, <2>1, MoveCurrent
<1>12. FatesRight'
  <2>1. \A f \in Event : Queued(f)' <=> fate'[f] = "pending"
    BY <1>2, <1>6 DEF FatesRight
  <2> QED BY <1>1, <1>2, <1>4, <2>1, MoveFates
<1>13. CallbacksRight'
  <2>1. \A f \in Event : (Running(f)' <=> Running(f)) /\ (Cleared(f)' <=> Cleared(f))
    BY <1>1, <1>4, MoveFrame, MoveCleared
  <2> QED BY <1>2, <1>6, <2>1 DEF CallbacksRight
<1>14. ThreadRight'
  BY <1>1, <1>2, <1>4, <1>5, MoveThread
<1>15. FrontIsLeast'
  BY <1>1, <1>5 DEF FrontIsLeast
<1>16. NoLostWakeup'
  <2> SUFFICES ASSUME at' = "sleep", ~signaled'
               PROVE  \/ \E u \in Thread : pc'[u] = "signal"
                      \/ \A f \in Event : Queued(f)' => deadline' <= key'[f]
    <3>1. at' = "sleep" /\ ~signaled' => at = "sleep" /\ ~signaled
      BY <1>5, <1>6
    <3> QED BY <1>2, <3>1 DEF NoLostWakeup
  <2>0. (\E u \in Thread : pc[u] = "signal") => \E u \in Thread : pc'[u] = "signal"
    BY <1>1, <1>4, SignalStays
  <2>1. at = "sleep" /\ ~signaled /\ ~Signal
    <3>1. at = "sleep" /\ ~signaled
      BY <1>5, <1>6
    <3> QED BY <3>1 DEF Signal
  <2> SUFFICES ASSUME ~\E u \in Thread : pc'[u] = "signal"
               PROVE  \A f \in Event : Queued(f)' => deadline' <= key'[f]
    OBVIOUS
  <2>2. \A f \in Event : Queued(f) => deadline <= key[f]
    BY <2>0, <2>1 DEF NoLostWakeup
  <2>3. CASE ~Queued(e)
    BY <1>2, <1>6, <2>2, <2>3
  <2>4. CASE Queued(e)
    <3>1. e # Head(queue'[KindOf(e)])
      BY <1>2, <2>1, <2>4
    <3>2. PICK h \in Event : h # e /\ Queued(h)' /\ key'[h] <= key'[e]
      <4>1. /\ queue' \in [Kind -> Seq(Event)] /\ key' \in [Event -> 0 .. Never]
            /\ \A k \in Kind : /\ \A f \in ToSet(queue'[k]) : KindOf(f) = k
                               /\ Ordered(queue'[k], key')
            /\ e \in ToSet(queue'[KindOf(e)])
        BY <1>3, <1>6, <2>4 DEF QueuesOK, QueuesOrdered, Queued
      <4>2. LET h == Head(queue'[KindOf(e)])
            IN  /\ h \in Event /\ h \in ToSet(queue'[KindOf(e)]) /\ KindOf(h) = KindOf(e)
                /\ key'[h] <= key'[e]
        BY <1>3, <4>1, FrontIsLeastKey
      <4>3. PICK h \in Event : h = Head(queue'[KindOf(e)])
        BY <4>2
      <4> QED BY <3>1, <4>2, <4>3 DEF Queued
    <3>3. deadline <= key'[h]
      BY <1>6, <2>2, <3>2
    <3>4. deadline <= key'[e]
      <4>1. /\ key'[h] \in 0 .. Never /\ key'[e] \in 0 .. Never
            /\ Never \in Nat /\ deadline \in 0 .. Never
        BY <1>3, <1>6, NeverIsLate DEF QueuesOK, TypeOK
      <4> QED BY <3>2, <3>3, <4>1
    <3> QED BY <1>2, <1>6, <2>2, <3>4
  <2> QED BY <2>3, <2>4
<1>17. QuietRight'
  <2>1. CASE x = "await"
    <3>1. covers' = covers /\ quiet' = quiet
      BY <1>4, <2>1 DEF Goto
    <3> QED BY <1>1, <1>4, <1>10, <2>1, <3>1, GotoQuiet
  <2>2. CASE x = "idle"
    BY <1>1, <1>4, <1>10, <2>2, ReturnQuiet DEF Waits, Reschedules
  <2> QED BY <2>1, <2>2
<1> QED BY <1>7, <1>8, <1>9, <1>11, <1>12, <1>13, <1>14, <1>15, <1>16, <1>17

\* When events only leave the queues, the dispatcher sleeps long enough still.
LEMMA LeavingWakes ==
    ASSUME SchedulerInv, NEW t \in Thread, NEW x, Move(t, x), InCall(t),
           pc[t] # "signal", at' = at \/ at' = "return",
           UNCHANGED <<key, d_running, signaled, deadline>>,
           \A e \in Event : Queued(e)' => Queued(e)
    PROVE  FrontIsLeast' /\ NoLostWakeup'
<1> USE DEF SchedulerInv
<1>1. (\E u \in Thread : pc[u] = "signal") => \E u \in Thread : pc'[u] = "signal"
  BY SignalStays
<1>2. current' = current
  BY DEF Move
<1>3. FrontIsLeast'
  <2>1. \A e \in Recurring : e \in Event
    BY DEF Event
  <2> QED BY <1>1, <1>2, <2>1 DEF FrontIsLeast
<1>4. NoLostWakeup'
  BY <1>1 DEF NoLostWakeup
<1> QED BY <1>3, <1>4

\* A call goes on, promising to wait for events that are over.
LEMMA CoverQuiet ==
    ASSUME TypeOK, InsideCalls, QuietRight, NEW t \in Thread, NEW x, Move(t, x), InCall(t),
           x \in {"clear", "await", "second"}, NEW E \in SUBSET Event,
           covers' = Cover(t, E), quiet' = quiet,
           \A e \in Event : Over(e) => Over(e)',
           \A e \in E : Over(e)',
           x # "second" =>
               \/ pc[t] = "idle" /\ E \subseteq {EventOf(t)}
               \/ NextCall(t).op = "cancelAllEventsAndWait"
    PROVE  QuietRight'
<1>0. quiet \subseteq Event /\ covers \in [Client -> SUBSET Event]
  BY DEF TypeOK
<1>1. \A e \in quiet' : Over(e)' /\ ~Running(e)'
  BY <1>0, MoveFrame DEF QuietRight
<1>2. ASSUME NEW c \in Client
      PROVE  /\ \A e \in covers'[c] : Over(e)'
             /\ pc'[c] \in {"idle", "add", "signal", "join"} => covers'[c] = {}
             /\ pc'[c] \in {"clear", "await", "asleep"} =>
                   \/ covers'[c] \subseteq {EventOf(c)'}
                   \/ NextCall(c)'.op = "cancelAllEventsAndWait"
  <2>1. c \in Thread /\ NextCall(c)' = NextCall(c) /\ EventOf(c)' = EventOf(c)
    BY MoveFrame DEF EventOf, Thread
  <2>2. CASE c # t
    <3>1. pc'[c] = pc[c] /\ covers'[c] = covers[c]
      BY <1>0, <2>1, <2>2, MoveFrame DEF Cover
    <3> QED BY <1>0, <2>1, <3>1 DEF QuietRight
  <2>3. CASE c = t
    <3>1. pc'[c] = x /\ covers'[c] = covers[c] \cup E
      BY <1>0, <2>3, MoveFrame DEF Cover
    <3> QED BY <1>0, <2>1, <2>3, <3>1 DEF QuietRight
  <2> QED BY <2>2, <2>3
<1> QED BY <1>1, <1>2 DEF QuietRight

LEMMA CancelEventKeeps ==
    ASSUME SchedulerInv, NEW t \in Thread, cancelEvent(t)
    PROVE  SchedulerInv'
<1> USE DEF SchedulerInv
<1>1. /\ pc[t] = "idle" /\ InCall(t) /\ NextCall(t).op \in Cancels
      /\ Scheduled(EventOf(t)) /\ remove(EventOf(t))
  BY InCallWhen DEF cancelEvent, HasHandle
<1>2. UNCHANGED <<clock, key, d_callback, d_nowOffset, d_cachedNow, current, deadline,
                  d_dispatcherAwaited, signaled, d_running, program>>
  BY DEF cancelEvent, loopVars
<1>3. PICK e \in Event : e = EventOf(t)
  BY <1>1, NextCallType, CallKinds DEF EventOf
<1>4. PICK x \in {"clear", "await", "idle"} :
         /\ Move(t, x) /\ Placed(x, NextCall(t))
         /\ x = "clear" => /\ Queued(e) /\ fate' = [fate EXCEPT ![e] = "cancelled"]
         /\ x # "clear" => ~Queued(e) /\ fate' = fate
         /\ x # "idle" => covers' = Cover(t, {e}) /\ UNCHANGED <<at, step, quiet>>
                          /\ pc' = [pc EXCEPT ![t] = x]
         /\ x = "idle" => Return(t) /\ NextCall(t).op \notin Waits
  <2>1. CASE /\ Queued(e) /\ fate' = [fate EXCEPT ![e] = "cancelled"]
             /\ pc' = [pc EXCEPT ![t] = "clear"] /\ covers' = Cover(t, {e})
             /\ UNCHANGED <<at, step, quiet>>
    BY <1>1, <1>2, <1>3, <2>1 DEF Move, Placed
  <2>2. CASE /\ ~Queued(e) /\ UNCHANGED fate /\ MustAwait(NextCall(t), FALSE)
             /\ pc' = [pc EXCEPT ![t] = "await"] /\ covers' = Cover(t, {e})
             /\ UNCHANGED <<at, step, quiet>>
    BY <1>1, <1>2, <2>2 DEF Move, Placed, MustAwait, Waits
  <2>3. CASE /\ ~Queued(e) /\ UNCHANGED fate /\ ~MustAwait(NextCall(t), FALSE) /\ Return(t)
    <3>1. t \notin Client => at = "run"
      BY <1>1 DEF InCall
    <3>2. NextCall(t).op \notin Waits
      BY <1>1, <2>3 DEF MustAwait, Waits, Cancels
    <3> QED BY <1>2, <2>3, <3>1, <3>2, ReturnMoves DEF Placed
  <2> QED BY <1>3, <2>1, <2>2, <2>3 DEF cancelEvent
<1>5. at' = at \/ at' = "return"
  BY <1>4 DEF Return
<1>6. /\ QueuesOK' /\ \A f \in Event : Queued(f)' <=> Queued(f) /\ f # e
  BY <1>1, <1>2, <1>3, QueuesAreOK, RemoveQueues
<1>7. /\ \A f \in Event : f # e => fate'[f] = fate[f]
      /\ fate'[e] = IF Queued(e) THEN "cancelled" ELSE fate[e]
      /\ fate' \in [Event -> {"unscheduled", "created", "pending", "cancelled",
                              "removed", "dispatched"}]
      /\ Queued(e) => fate[e] = "pending"
      /\ ~Queued(e) => fate[e] # "pending"
  <2>1. fate \in [Event -> {"unscheduled", "created", "pending", "cancelled", "removed",
                            "dispatched"}]
    BY DEF TypeOK
  <2>2. (Queued(e) => fate[e] = "pending") /\ (~Queued(e) => fate[e] # "pending")
    BY <1>3 DEF FatesRight
  <2>3. \/ Queued(e) /\ fate' = [fate EXCEPT ![e] = "cancelled"]
        \/ ~Queued(e) /\ fate' = fate
    BY <1>4
  <2> QED BY <2>1, <2>2, <2>3
<1>8. TypeOK'
  <2>1. /\ pc' \in [Thread -> {"idle", "add", "signal", "clear", "second", "await",
                               "asleep", "join"}]
        /\ step' \in [Client -> Nat]
        /\ covers' \in [Client -> SUBSET Event]
        /\ quiet' \subseteq Event
        /\ at' \in {"none", "begin", "loop", "front", "act", "sleep", "run", "return"}
    <3>1. CASE x = "idle"
      BY <1>4, <3>1, ReturnTypes
    <3>2. CASE x # "idle"
      <4>1. covers' \in [Client -> SUBSET Event]
        <5>1. covers \in [Client -> SUBSET Event]
          BY DEF TypeOK
        <5>2. covers' = covers \/ covers' = [covers EXCEPT ![t] = covers[t] \cup {e}]
          BY <1>4, <3>2 DEF Cover
        <5> QED BY <1>3, <5>1, <5>2
      <4>2. pc' \in [Thread -> {"idle", "add", "signal", "clear", "second", "await",
                                "asleep", "join"}]
        BY <1>4, <3>2 DEF TypeOK
      <4> QED BY <1>4, <3>2, <4>1, <4>2 DEF TypeOK
    <3> QED BY <3>1, <3>2
  <2> QED BY <1>2, <1>6, <1>7, <2>1 DEF TypeOK, QueuesOK
<1>9. QueuesOrdered'
  BY <1>6 DEF QueuesOK
<1>10. InsideCalls'
  BY <1>1, <1>4, MoveInside
<1>11. \A f \in Event : Over(f) => Over(f)'
  BY <1>7 DEF Over
<1>12. CurrentDue'
  <2>1. \A f \in Event : Scheduled(f) => Scheduled(f)'
    BY <1>7 DEF Scheduled
  <2>2. \A f \in Event : fate[f] = "dispatched" => fate'[f] = "dispatched"
    BY <1>7
  <2> QED BY <1>1, <1>2, <1>4, <2>1, <2>2, MoveCurrent
<1>13. FatesRight'
  <2>1. \A f \in Event : Queued(f)' <=> fate'[f] = "pending"
    BY <1>6, <1>7 DEF FatesRight
  <2>2. \A f \in Event : fate[f] = "cancelled" => fate'[f] = "cancelled"
    BY <1>7
  <2>3. \A f \in Event : fate[f] = "created" => fate'[f] = "created"
    BY <1>7
  <2>4. x = "clear" => fate'[EventOf(t)] = "cancelled"
    BY <1>3, <1>4, <1>7
  <2> QED BY <1>1, <1>4, <2>1, <2>2, <2>3, <2>4, MoveFates
<1>14. CallbacksRight'
  <2>0. ASSUME NEW f \in Event PROVE Running(f)' <=> Running(f)
    BY <1>1, <1>4, MoveFrame
  <2>1. CASE x = "clear"
    <3>1. ~Cleared(e)'
      <4>1. pc'[t] = "clear" /\ EventOf(t)' = EventOf(t)
        BY <1>1, <1>4, <2>1, MoveFrame DEF EventOf
      <4> QED BY <1>3, <4>1 DEF Cleared
    <3>2. ASSUME NEW f \in Event, f # e PROVE Cleared(f)' => Cleared(f)
      BY <1>1, <1>4, <2>1, MoveFrame DEF Cleared, EventOf
    <3> QED BY <1>2, <1>4, <1>6, <1>7, <2>0, <2>1, <3>1, <3>2 DEF CallbacksRight
  <2>2. CASE x # "clear"
    <3>1. \A f \in Event : Cleared(f)' <=> Cleared(f)
      BY <1>1, <1>4, <2>2, MoveCleared
    <3> QED BY <1>2, <1>4, <1>6, <2>0, <2>2, <3>1 DEF CallbacksRight
  <2> QED BY <2>1, <2>2
<1>15. ThreadRight'
  BY <1>1, <1>2, <1>4, <1>5, MoveThread
<1>16. FrontIsLeast' /\ NoLostWakeup'
  BY <1>1, <1>2, <1>4, <1>5, <1>6, LeavingWakes
<1>17. QuietRight'
  <2>1. CASE x = "idle"
    BY <1>1, <1>4, <1>11, <2>1, ReturnQuiet
  <2>2. CASE x # "idle"
    <3>1. Over(e)'
      <4>1. fate[e] \in {"unscheduled", "created", "pending", "cancelled", "removed",
                         "dispatched"}
        BY <1>3 DEF TypeOK
      <4> QED BY <1>1, <1>3, <1>7, <4>1 DEF Over, Scheduled
    <3>2. {e} \in SUBSET Event /\ {e} \subseteq {EventOf(t)}
      BY <1>3
    <3> QED BY <1>1, <1>4, <1>11, <2>2, <3>1, <3>2, CoverQuiet
  <2> QED BY <2>1, <2>2
<1> QED BY <1>8, <1>9, <1>10, <1>12, <1>13, <1>14, <1>15, <1>16, <1>17

LEMMA ClearCallbackKeeps ==
    ASSUME SchedulerInv, NEW t \in Thread, clearCallback(t)
    PROVE  SchedulerInv'
<1> USE DEF SchedulerInv
<1>1. /\ pc[t] = "clear" /\ InCall(t) /\ NextCall(t).op \in Cancels
      /\ fate[EventOf(t)] = "cancelled"
  BY InCallWhen DEF clearCallback, InsideCalls, FatesRight
<1>2. /\ UNCHANGED <<clock, queue, key, d_nowOffset, fate, d_cachedNow, current, deadline,
                     d_dispatcherAwaited, signaled, d_running, program>>
      /\ d_callback' = [d_callback EXCEPT ![EventOf(t)] = "null"]
  BY DEF clearCallback, loopVars
<1>3. PICK e \in Event : e = EventOf(t)
  BY <1>1, NextCallType, CallKinds DEF EventOf
<1>4. PICK x \in {"await", "idle"} :
         /\ Move(t, x) /\ Placed(x, NextCall(t))
         /\ x = "await" => Goto(t, "await")
         /\ x = "idle" => Return(t) /\ (e \notin Recurring \/ NextCall(t).op \notin Waits)
  <2>1. CASE MustAwait(NextCall(t), TRUE) /\ Goto(t, "await")
    BY <1>1, <1>2, <2>1, GotoMoves DEF Placed, MustAwait, Waits
  <2>2. CASE ~MustAwait(NextCall(t), TRUE) /\ Return(t)
    <3>1. t \notin Client => at = "run"
      BY <1>1 DEF InCall
    <3>2. e \notin Recurring \/ NextCall(t).op \notin Waits
      BY <1>1, <1>3, <2>2 DEF MustAwait, Waits, Cancels, EventOf
    <3> QED BY <1>2, <2>2, <3>1, <3>2, ReturnMoves DEF Placed
  <2> QED BY <2>1, <2>2 DEF clearCallback
<1>5. at' = at \/ at' = "return"
  BY <1>4 DEF Goto, Return
<1>6. \A f \in Event : (Queued(f)' <=> Queued(f)) /\ (Over(f) <=> Over(f)')
  BY <1>2 DEF Queued, Over
<1>7. TypeOK'
  <2>1. /\ pc' \in [Thread -> {"idle", "add", "signal", "clear", "second", "await",
                               "asleep", "join"}]
        /\ step' \in [Client -> Nat]
        /\ covers' \in [Client -> SUBSET Event]
        /\ quiet' \subseteq Event
        /\ at' \in {"none", "begin", "loop", "front", "act", "sleep", "run", "return"}
    BY <1>4, GotoTypes, ReturnTypes
  <2>2. d_callback' \in [Event -> {"null", "user", "marker"}]
    BY <1>2, <1>3 DEF TypeOK
  <2> QED BY <1>2, <2>1, <2>2 DEF TypeOK
<1>8. QueuesOrdered' /\ InsideCalls'
  BY <1>1, <1>2, <1>4, MoveInside DEF QueuesOrdered
<1>9. CurrentDue'
  <2>1. \A f \in Event : Scheduled(f) => Scheduled(f)'
    BY <1>2 DEF Scheduled
  <2> QED BY <1>1, <1>2, <1>4, <2>1, MoveCurrent
<1>10. FatesRight'
  <2>1. \A f \in Event : Queued(f)' <=> fate'[f] = "pending"
    BY <1>2, <1>6 DEF FatesRight
  <2> QED BY <1>1, <1>2, <1>4, <2>1, MoveFates
<1>11. CallbacksRight'
  <2>1. ASSUME NEW f \in Event, f # e
        PROVE  (Cleared(f)' <=> Cleared(f)) /\ d_callback'[f] = d_callback[f]
    BY <1>1, <1>2, <1>3, <1>4, <2>1, MoveCleared DEF TypeOK
  <2>2. \A f \in Event : Running(f)' <=> Running(f)
    BY <1>1, <1>4, MoveFrame
  <2>3. d_callback'[e] = "null" /\ ~Queued(e)
    BY <1>1, <1>2, <1>3 DEF TypeOK, FatesRight
  <2> QED BY <1>1, <1>2, <1>3, <1>6, <2>1, <2>2, <2>3 DEF CallbacksRight
<1>12. ThreadRight'
  BY <1>1, <1>2, <1>4, <1>5, MoveThread
<1>13. FrontIsLeast' /\ NoLostWakeup'
  BY <1>1, <1>2, <1>4, <1>5, <1>6, LeavingWakes
<1>14. QuietRight'
  <2>1. CASE x = "await"
    <3>1. covers' = covers /\ quiet' = quiet
      BY <1>4, <2>1 DEF Goto
    <3> QED BY <1>1, <1>4, <1>6, <2>1, <3>1, GotoQuiet
  <2>2. CASE x = "idle"
    <3>1. t \in Client /\ NextCall(t).op \in Waits => \A f \in covers[t] : ~Running(f)
      <4> SUFFICES ASSUME t \in Client, NextCall(t).op \in Waits, NEW f \in covers[t]
                   PROVE  ~Running(f)
        OBVIOUS
      <4>1. f = e
        BY <1>1, <1>3 DEF QuietRight, Cancels
      <4>2. e \in Once
        BY <1>3, <1>4, <2>2 DEF Event
      <4> QED BY <1>1, <1>3, <4>1, <4>2 DEF CurrentDue
    <3> QED BY <1>1, <1>4, <1>6, <2>2, <3>1, ReturnQuiet
  <2> QED BY <2>1, <2>2
<1> QED BY <1>7, <1>8, <1>9, <1>10, <1>11, <1>12, <1>13, <1>14

LEMMA CancelAllEventsKeeps ==
    ASSUME SchedulerInv, NEW t \in Thread, cancelAllEvents(t)
    PROVE  SchedulerInv'
<1> USE DEF SchedulerInv
<1>0. PICK k \in Kind : k = IF pc[t] = "second" THEN "recurring" ELSE "once"
  BY DEF Kind
<1> DEFINE E == {e \in Event : KindOf(e) = k /\ Scheduled(e)}
<1>1. /\ pc[t] \in {"idle", "second"} /\ InCall(t) /\ NextCall(t).op \in CancelsAll
  BY InCallWhen DEF cancelAllEvents, InsideCalls
<1>2. /\ UNCHANGED <<clock, key, d_callback, d_nowOffset, d_cachedNow, current, deadline,
                     d_dispatcherAwaited, signaled, d_running, program>>
      /\ queue' = [queue EXCEPT ![k] = <<>>]
      /\ fate' = [e \in Event |-> IF e \in ToSet(queue[k]) THEN "removed" ELSE fate[e]]
  BY <1>0 DEF cancelAllEvents, loopVars
<1>3. PICK x \in {"second", "await", "idle"} :
         /\ Move(t, x) /\ Placed(x, NextCall(t))
         /\ x = "idle" => Return(t) /\ NextCall(t).op \notin Waits
         /\ x # "idle" => covers' = Cover(t, E) /\ UNCHANGED <<at, step, quiet>>
                          /\ pc' = [pc EXCEPT ![t] = x]
         /\ x = "await" => NextCall(t).op = "cancelAllEventsAndWait"
  <2>1. CASE pc[t] = "second" /\ NextCall(t).op = "cancelAllEvents" /\ Return(t)
    <3>1. t \notin Client => at = "run"
      BY <1>1 DEF InCall
    <3> QED BY <1>2, <2>1, <3>1, ReturnMoves DEF Placed, Waits
  <2>2. CASE /\ ~(pc[t] = "second" /\ NextCall(t).op = "cancelAllEvents")
             /\ pc' = [pc EXCEPT ![t] = IF pc[t] = "second" THEN "await" ELSE "second"]
             /\ covers' = Cover(t, E) /\ UNCHANGED <<at, step, quiet>>
    <3> HIDE DEF E
    <3>1. CASE pc[t] = "second"
      <4>1. NextCall(t).op = "cancelAllEventsAndWait"
        BY <1>1, <2>2, <3>1 DEF CancelsAll
      <4> QED BY <1>2, <2>2, <3>1, <4>1 DEF Move, Placed, Waits
    <3>2. CASE pc[t] # "second"
      BY <1>1, <1>2, <2>2, <3>2 DEF Move, Placed
    <3> QED BY <3>1, <3>2
  <2>3. \/ pc[t] = "second" /\ NextCall(t).op = "cancelAllEvents" /\ Return(t)
        \/ /\ ~(pc[t] = "second" /\ NextCall(t).op = "cancelAllEvents")
           /\ pc' = [pc EXCEPT ![t] = IF pc[t] = "second" THEN "await" ELSE "second"]
           /\ covers' = Cover(t, E) /\ UNCHANGED <<at, step, quiet>>
    BY <1>0, <1>1 DEF cancelAllEvents
  <2> QED BY <2>1, <2>2, <2>3
<1>4. at' = at \/ at' = "return"
  BY <1>3 DEF Return
<1>5. /\ queue \in [Kind -> Seq(Event)] /\ key \in [Event -> 0 .. Never]
      /\ \A l \in Kind : /\ \A e \in ToSet(queue[l]) : KindOf(e) = l
                         /\ IsInjective(queue[l])
      /\ fate \in [Event -> {"unscheduled", "created", "pending", "cancelled", "removed",
                             "dispatched"}]
      /\ covers \in [Client -> SUBSET Event]
  BY DEF TypeOK
<1>6. /\ queue' \in [Kind -> Seq(Event)]
      /\ \A l \in Kind : queue'[l] = IF l = k THEN <<>> ELSE queue[l]
  BY <1>2, <1>5
<1>7. /\ \A l \in Kind : /\ \A e \in ToSet(queue'[l]) : KindOf(e) = l
                         /\ IsInjective(queue'[l])
                         /\ Ordered(queue'[l], key')
  <2>1. ToSet(<<>>) = {} /\ IsInjective(<<>>) /\ Ordered(<<>>, key)
    BY DEF ToSet, IsInjective, Ordered
  <2>2. \A l \in Kind : Ordered(queue[l], key)
    BY DEF QueuesOrdered
  <2> QED BY <1>2, <1>5, <1>6, <2>1, <2>2
<1>8. \A e \in Event : Queued(e)' <=> Queued(e) /\ KindOf(e) # k
  <2>1. ToSet(<<>>) = {}
    BY DEF ToSet
  <2> QED BY <1>6, <2>1, KindOfEvent DEF Queued
<1>9. \A e \in Event :
         fate'[e] = IF Queued(e) /\ KindOf(e) = k THEN "removed" ELSE fate[e]
  <2>1. \A e \in Event : e \in ToSet(queue[k]) <=> Queued(e) /\ KindOf(e) = k
    BY <1>5 DEF Queued
  <2> QED BY <1>2, <2>1
<1>10. \A e \in Event : Queued(e) <=> fate[e] = "pending"
  BY DEF FatesRight
<1>11. TypeOK'
  <2>1. /\ pc' \in [Thread -> {"idle", "add", "signal", "clear", "second", "await",
                               "asleep", "join"}]
        /\ step' \in [Client -> Nat]
        /\ covers' \in [Client -> SUBSET Event]
        /\ quiet' \subseteq Event
        /\ at' \in {"none", "begin", "loop", "front", "act", "sleep", "run", "return"}
    <3>1. CASE x = "idle"
      BY <1>3, <3>1, ReturnTypes
    <3>2. CASE x # "idle"
      <4>1. covers' \in [Client -> SUBSET Event]
        <5>1. E \in SUBSET Event
          OBVIOUS
        <5> HIDE DEF E
        <5>2. covers' = covers \/ covers' = [covers EXCEPT ![t] = covers[t] \cup E]
          BY <1>3, <3>2 DEF Cover
        <5> QED BY <1>5, <5>1, <5>2
      <4>2. pc' \in [Thread -> {"idle", "add", "signal", "clear", "second", "await",
                                "asleep", "join"}]
        BY <1>3, <3>2 DEF TypeOK
      <4> QED BY <1>3, <3>2, <4>1, <4>2 DEF TypeOK
    <3> QED BY <3>1, <3>2
  <2>2. fate' \in [Event -> {"unscheduled", "created", "pending", "cancelled", "removed",
                             "dispatched"}]
    BY <1>2, <1>5
  <2>3. \A l \in Kind : \A e \in ToSet(queue'[l]) \cup ({current'[l]} \ {None}) :
            KindOf(e) = l
    BY <1>2, <1>7 DEF TypeOK
  <2> QED BY <1>2, <1>6, <1>7, <2>1, <2>2, <2>3 DEF TypeOK
<1>12. QueuesOrdered' /\ InsideCalls'
  BY <1>1, <1>3, <1>7, MoveInside DEF QueuesOrdered
<1>13. \A e \in Event : Over(e) => Over(e)'
  BY <1>9, <1>10 DEF Over
<1>14. CurrentDue'
  <2>1. \A e \in Event : Scheduled(e) => Scheduled(e)'
    BY <1>9 DEF Scheduled
  <2>2. \A e \in Event : fate[e] = "dispatched" => fate'[e] = "dispatched"
    BY <1>9, <1>10
  <2> QED BY <1>1, <1>2, <1>3, <2>1, <2>2, MoveCurrent
<1>15. FatesRight'
  <2>1. \A e \in Event : Queued(e)' <=> fate'[e] = "pending"
    BY <1>8, <1>9, <1>10
  <2>2. \A e \in Event : fate[e] = "cancelled" => fate'[e] = "cancelled"
    BY <1>9, <1>10
  <2>3. \A e \in Event : fate[e] = "created" => fate'[e] = "created"
    BY <1>9, <1>10
  <2> QED BY <1>1, <1>3, <2>1, <2>2, <2>3, MoveFates
<1>16. CallbacksRight'
  <2>1. \A e \in Event : (Running(e)' <=> Running(e)) /\ (Cleared(e)' <=> Cleared(e))
    BY <1>1, <1>3, MoveFrame, MoveCleared
  <2>2. \A e \in Event : fate'[e] = "created" => fate[e] = "created"
    BY <1>9
  <2>3. \A e \in Event : fate'[e] = "cancelled" => fate[e] = "cancelled"
    BY <1>9
  <2> QED BY <1>2, <1>8, <2>1, <2>2, <2>3 DEF CallbacksRight
<1>17. ThreadRight'
  BY <1>1, <1>2, <1>3, <1>4, MoveThread
<1>18. FrontIsLeast' /\ NoLostWakeup'
  BY <1>1, <1>2, <1>3, <1>4, <1>8, LeavingWakes
<1>19. QuietRight'
  <2>1. CASE x = "idle"
    BY <1>1, <1>3, <1>13, <2>1, ReturnQuiet
  <2>2. CASE x # "idle"
    <3>1. ASSUME NEW e \in E PROVE Over(e)'
      BY <1>5, <1>9, <1>10 DEF Over, Scheduled
    <3>2. PICK F \in SUBSET Event : F = E
      OBVIOUS
    <3> HIDE DEF E
    <3>3. \A e \in F : Over(e)'
      BY <3>1, <3>2
    <3> QED BY <1>1, <1>3, <1>13, <2>2, <3>2, <3>3, CoverQuiet
  <2> QED BY <2>1, <2>2
<1> QED BY <1>11, <1>12, <1>14, <1>15, <1>16, <1>17, <1>18, <1>19

-----------------------------------------------------------------------------
(* The theorems *)

LEMMA InitInv ==
    ASSUME Init
    PROVE  SchedulerInv
<1>1. ToSet(<<>>) = {} /\ IsInjective(<<>>) /\ \A K : Ordered(<<>>, K)
  BY DEF ToSet, IsInjective, Ordered
<1>2. /\ MaxTime \in Nat /\ MaxTime > 0 /\ Never \in Nat /\ "dispatcher" \in Thread
      /\ None \notin Event
  BY NeverIsLate, DispatcherThread, EventSchedulerAssumption
  DEF EventSchedulerAssumption
<1>3. \A e \in Event : ~Queued(e)
  BY <1>1, KindOfEvent DEF Init, Queued
<1>4. \A e : ~Running(e)
  BY DEF Init, Running
<1>5. TypeOK
  <2>1. /\ clock \in 1 .. MaxTime /\ d_cachedNow \in 0 .. clock
        /\ deadline \in 0 .. Never /\ key \in [Event -> 0 .. Never]
    BY <1>2 DEF Init
  <2>2. queue \in [Kind -> Seq(Event)] /\ current \in [Kind -> Event \cup {None}]
    BY DEF Init, NoEvent
  <2>3. \A k \in Kind : /\ \A e \in ToSet(queue[k]) \cup ({current[k]} \ {None}) :
                              KindOf(e) = k
                        /\ IsInjective(queue[k])
    BY <1>1 DEF Init, NoEvent
  <2>4. step \in [Client -> Nat] /\ covers \in [Client -> SUBSET Event]
    BY DEF Init
  <2>5. d_nowOffset \in [Event -> BOOLEAN]
    BY DEF Init
  <2> QED BY <2>1, <2>2, <2>3, <2>4, <2>5 DEF Init, TypeOK
<1>6. QueuesOrdered
  BY <1>1 DEF Init, QueuesOrdered
<1>7. InsideCalls
  <2>1. \A c \in Client : program[c] \in Seq(Calls)
    BY ProgramsAssumption DEF Init, ProgramsAssumption
  <2>2. \A c \in Client : step[c] = 0 /\ Len(program[c]) \in Nat
    BY <2>1 DEF Init
  <2>3. \A u \in Thread : pc[u] = "idle"
    BY DEF Init
  <2> QED BY <1>2, <2>2, <2>3 DEF InsideCalls, Thread
<1>8. CurrentDue
  BY <1>4 DEF Init, CurrentDue, NoEvent
<1>9. FatesRight /\ CallbacksRight
  BY <1>3 DEF Init, FatesRight, CallbacksRight
<1>10. ThreadRight /\ FrontIsLeast /\ NoLostWakeup
  BY DEF Init, ThreadRight, StopMeansStopped, FrontIsLeast, NoLostWakeup
<1>11. QuietRight
  BY DEF Init, QuietRight, Thread
<1> QED BY <1>5, <1>6, <1>7, <1>8, <1>9, <1>10, <1>11 DEF SchedulerInv

LEMMA NextKeeps ==
    ASSUME SchedulerInv, [Next]_vars
    PROVE  SchedulerInv'
<1>1. CASE Dispatcher
  BY <1>1, BeginKeeps, LoopTopKeeps, ChooseKeeps, WakeKeeps, ActKeeps,
     CallbackReturnedKeeps DEF Dispatcher
<1>2. CASE WakeSpuriously
  BY <1>2, WakeKeeps
<1>3. CASE Tick
  BY <1>3, TickKeeps
<1>4. CASE Rest \/ UNCHANGED vars
  BY <1>4, StutterKeeps DEF Rest
<1>5. ASSUME NEW t \in Thread, CallStep(t) \/ AwaitSpuriously(t)
      PROVE  SchedulerInv'
  BY <1>5, NothingKeeps, ScheduleEventKeeps, AddEventKeeps, SignalKeeps,
     RescheduleEventKeeps, CancelEventKeeps, ClearCallbackKeeps, CancelAllEventsKeeps,
     AwaitKeeps, AwaitSpuriouslyKeeps, StartKeeps, StopKeeps, JoinKeeps DEF CallStep
<1> QED BY <1>1, <1>2, <1>3, <1>4, <1>5 DEF Next

\* The inductive invariant holds of every state the scheduler reaches.
THEOREM InvariantHolds == Spec => []SchedulerInv
<1>1. Init => SchedulerInv
  BY InitInv
<1>2. SchedulerInv /\ [Next]_vars => SchedulerInv'
  BY NextKeeps
<1> QED BY <1>1, <1>2, PTL DEF Spec

LEMMA InvConsistent ==
    ASSUME SchedulerInv
    PROVE  Consistent
<1>1. CallbackKept
  <2>1. \A e \in Event : Queued(e) /\ ~Running(e) => d_callback[e] = "user"
    BY DEF SchedulerInv, CallbacksRight
  <2>2. ASSUME NEW e \in Event, fate[e] = "cancelled",
               \A t \in Thread : pc[t] = "clear" => EventOf(t) # e
        PROVE  d_callback[e] # "user"
    <3>1. Cleared(e)
      BY <2>2 DEF Cleared
    <3> QED BY <2>2, <3>1 DEF SchedulerInv, CallbacksRight
  <2> QED BY <2>1, <2>2 DEF CallbackKept
<1> QED BY <1>1 DEF SchedulerInv, ThreadRight, Consistent

\* The queues hold events of their kinds without repetition, a queued event has
\* its callback and a cancelled one has not, and without a thread inside stop a
\* scheduler that is not running has no dispatcher.
THEOREM ConsistentHolds == Spec => []Consistent
<1>1. SchedulerInv => Consistent
  BY InvConsistent
<1> QED BY <1>1, InvariantHolds, PTL

\* A dispatcher asleep past the time of a queued event has been signaled, or a
\* thread is about to signal it.
THEOREM NoWakeupIsLost == Spec => []NoLostWakeup
<1>1. SchedulerInv => NoLostWakeup
  BY DEF SchedulerInv
<1> QED BY <1>1, InvariantHolds, PTL

\* Only the dispatcher at work starts a callback.
LEMMA OnlyActStarts ==
    ASSUME SchedulerInv, Next, at = "act", at' = "run"
    PROVE  Act
<1>1. ASSUME NEW t \in Thread, CallStep(t) \/ AwaitSpuriously(t)
      PROVE  FALSE
  <2>2. CASE Return(t)
    BY <2>2 DEF Return
  <2>3. CASE \E x : Goto(t, x)
    BY <2>3 DEF Goto
  <2>4. CASE UNCHANGED at \/ at' = "begin"
    BY <2>4
  <2>5. nothing(t) \/ addEvent(t) \/ signalDispatcher(t) \/ join(t) =>
            Return(t) \/ \E x : Goto(t, x)
    BY DEF nothing, addEvent, signalDispatcher, join
  <2>6. scheduleEvent(t) \/ rescheduleEvent(t) \/ clearCallback(t) \/ await(t)
        \/ AwaitSpuriously(t) \/ stop(t) => Return(t) \/ \E x : Goto(t, x)
    BY DEF scheduleEvent, rescheduleEvent, clearCallback, await, AwaitSpuriously, stop
  <2>7. cancelEvent(t) \/ cancelAllEvents(t) => Return(t) \/ UNCHANGED at
    BY DEF cancelEvent, cancelAllEvents
  <2>8. start(t) => UNCHANGED at \/ at' = "begin"
    BY DEF start
  <2> QED BY <1>1, <2>2, <2>3, <2>4, <2>5, <2>6, <2>7, <2>8 DEF CallStep
<1>2. ~(Begin \/ LoopTop \/ Choose \/ Wake \/ CallbackReturned \/ WakeSpuriously)
  BY DEF Begin, LoopTop, Choose, Wake, CallbackReturned, WakeSpuriously
<1>3. ~Tick /\ ~Rest
  BY DEF Tick, Rest, vars
<1> QED BY <1>1, <1>2, <1>3 DEF Next, Dispatcher

LEMMA StartsRight ==
    ASSUME SchedulerInv, Next, NEW e \in Event, Starts(e)
    PROVE  key[e] <= clock /\ fate[e] = "pending" /\ d_callback[e] = "user"
<1>1. at = "act" /\ at' = "run" /\ e = current[KindOf(e)]
  BY DEF Starts
<1>2. key[e] <= clock
  BY <1>1, AtWork, KindOfEvent DEF SchedulerInv, CurrentDue
<1>3. PICK f \in Event : /\ f = current[KindOf(f)]
                         /\ \/ f \in Once /\ DispatchOnce(f)
                            \/ f \in Recurring /\ DispatchRecurring(f)
                            \/ d_nowOffset[f] /\ PutOff(f)
  BY <1>1, OnlyActStarts DEF Act
<1>4. Queued(f)
  BY <1>1, <1>3 DEF DispatchOnce, DispatchRecurring, PutOff, NextIteration
<1>5. f = e /\ ~Running(e)
  BY <1>1, <1>3, AtWork DEF Running
<1> QED BY <1>2, <1>4, <1>5 DEF SchedulerInv, FatesRight, CallbacksRight

\* A callback is started when the time of its event has come, while the event is
\* queued, so that no cancellation of it has succeeded, and not twice for an
\* event that is run once.
THEOREM DispatcherIsRight == Spec => DispatchesRight
<1>1. SchedulerInv /\ [Next]_vars =>
          [\A e \in Event : Starts(e) => key[e] <= clock]_vars
  BY StartsRight
<1>2. SchedulerInv /\ [Next]_vars =>
          [\A e \in Event : Starts(e) => fate[e] = "pending" /\ d_callback[e] = "user"]_vars
  BY StartsRight
<1>3. Spec => NeverEarly
  BY <1>1, InvariantHolds, PTL DEF Spec, NeverEarly
<1>4. Spec => OneWins
  BY <1>2, InvariantHolds, PTL DEF Spec, OneWins
<1> QED BY <1>3, <1>4 DEF DispatchesRight

\* A client's call returns by a step of that client.
LEMMA StepOfCaller ==
    ASSUME SchedulerInv, Next, NEW c \in Client, step'[c] # step[c]
    PROVE  CallStep(c)
<1>1. ASSUME NEW t \in Thread, CallStep(t) \/ AwaitSpuriously(t), t # c
      PROVE  FALSE
  <2>1. CASE Return(t)
    BY <1>1, <2>1 DEF Return, SchedulerInv, TypeOK
  <2>2. CASE \E x : Goto(t, x)
    BY <2>2 DEF Goto
  <2>3. CASE UNCHANGED step \/ step' = [step EXCEPT ![t] = @ + 1]
    BY <1>1, <2>3 DEF SchedulerInv, TypeOK
  <2>5. nothing(t) \/ addEvent(t) \/ signalDispatcher(t) \/ join(t) =>
            Return(t) \/ \E x : Goto(t, x)
    BY DEF nothing, addEvent, signalDispatcher, join
  <2>6. scheduleEvent(t) \/ rescheduleEvent(t) \/ clearCallback(t) \/ await(t)
        \/ AwaitSpuriously(t) \/ stop(t) => Return(t) \/ \E x : Goto(t, x)
    BY DEF scheduleEvent, rescheduleEvent, clearCallback, await, AwaitSpuriously, stop
  <2>7. cancelEvent(t) \/ cancelAllEvents(t) => Return(t) \/ UNCHANGED step
    BY DEF cancelEvent, cancelAllEvents
  <2>8. start(t) => step' = [step EXCEPT ![t] = @ + 1]
    BY DEF start
  <2> QED BY <1>1, <2>1, <2>2, <2>3, <2>5, <2>6, <2>7, <2>8 DEF CallStep
<1>2. ~(Begin \/ LoopTop \/ Choose \/ Wake \/ CallbackReturned \/ WakeSpuriously \/ Act)
  BY DEF Begin, LoopTop, Choose, Wake, CallbackReturned, WakeSpuriously, Act, callVars
<1>3. ~Tick /\ ~Rest /\ ~AwaitSpuriously(c)
  BY DEF Tick, Rest, vars, callVars, AwaitSpuriously, Goto
<1> QED BY <1>1, <1>2, <1>3 DEF Next, Dispatcher

LEMMA RescheduledIsOver ==
    ASSUME SchedulerInv, Next, NEW c \in Client, NEW e \in Once, step'[c] # step[c],
           NextCall(c).op = "rescheduleEventAndWait", e = EventOf(c)
    PROVE  ~Running(e)'
<1> USE DEF SchedulerInv
<1>1. CallStep(c) /\ c \in Thread
  BY StepOfCaller DEF Thread
<1>2. KindOf(e) = "once" /\ e \notin Recurring
  BY EventSchedulerAssumption DEF KindOf, EventSchedulerAssumption
<1>3. rescheduleEvent(c) \/ await(c)
  <2>1. ~(nothing(c) \/ scheduleEvent(c) \/ cancelEvent(c) \/ start(c) \/ stop(c))
    BY InCallWhen, <1>1 DEF nothing, scheduleEvent, cancelEvent, start, stop, Calling,
       Schedules, Cancels
  <2>2. ~(addEvent(c) \/ signalDispatcher(c) \/ clearCallback(c) \/ join(c))
    BY <1>1 DEF addEvent, signalDispatcher, clearCallback, join, InsideCalls, Schedules,
       Cancels
  <2>3. ~cancelAllEvents(c)
    BY <1>1 DEF cancelAllEvents, Calling, InsideCalls, CancelsAll
  <2> QED BY <1>1, <2>1, <2>2, <2>3 DEF CallStep
<1>4. current' = current /\ current["once"] # e
  <2>1. CASE rescheduleEvent(c)
    <3>1. /\ current' = current
          /\ IF NextCall(c).op = "rescheduleEventAndWait"
                /\ (~Queued(e) \/ current["once"] = e)
             THEN Goto(c, "await") ELSE Return(c)
      BY <2>1 DEF rescheduleEvent, loopVars
    <3>2. ~Goto(c, "await")
      BY DEF Goto
    <3> QED BY <3>1, <3>2
  <2>2. CASE await(c)
    <3>1. current' = current /\ ~AwaitsDispatcher(NextCall(c))
      BY <2>2 DEF await, Goto
    <3>2. current["once"] # NextCall(c).event
      BY <1>2, <3>1 DEF AwaitsDispatcher, EventOf
    <3> QED BY <3>1, <3>2 DEF EventOf
  <2> QED BY <1>3, <2>1, <2>2
<1> QED BY <1>2, <1>4 DEF Running

\* When a call that cancels and waits has returned, no callback it was for runs or
\* starts; one that reschedules and waits does not return into the callback's run.
THEOREM WaitingWaits == Spec => WaitedMeansDone
<1>1. SchedulerInv' => [\A e \in quiet' : ~Running(e)']_vars
  BY DEF SchedulerInv, QuietRight
<1>2. SchedulerInv /\ [Next]_vars =>
          [\A c \in Client, e \in Once :
              /\ step'[c] # step[c]
              /\ NextCall(c).op = "rescheduleEventAndWait" /\ e = EventOf(c)
              => ~Running(e)']_vars
  BY RescheduledIsOver
<1> QED BY <1>1, <1>2, InvariantHolds, PTL DEF Spec, WaitedMeansDone

=============================================================================
