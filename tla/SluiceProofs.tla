--------------------------- MODULE SluiceProofs ------------------------------
(***************************************************************************)
(* Proofs that the descriptors of bslmt::Sluice are exact and that nobody  *)
(* is overtaken, for any number of threads, signalers and descriptors.     *)
(***************************************************************************)
EXTENDS Sluice, FiniteSetTheorems, TLAPS

\* A thread has a token exactly while it is inside.
Tokens == \A t \in Waiter : pc[t] = "out" <=> token[t] = None

\* The conjuncts of DescriptorsExact.
Counted ==
    \A g \in Generation : /\ d_numThreads[g] = Cardinality(Members(g))
                          /\ d_numSignaled[g] <= d_numThreads[g]

PoolExact ==
    /\ \A g \in Generation : g \in Pooled <=> g \in allocated /\ d_numThreads[g] = 0
    /\ \A i, j \in DOMAIN d_descriptorPool :
          d_descriptorPool[i] = d_descriptorPool[j] => i = j

Current ==
    /\ d_pendingGeneration # None =>
          /\ d_numThreads[d_pendingGeneration] > 0
          /\ d_numSignaled[d_pendingGeneration] = 0
          /\ d_pendingGeneration # d_signaledGeneration
    /\ d_signaledGeneration # None =>
          d_numSignaled[d_signaledGeneration] < d_numThreads[d_signaledGeneration]

\* A generation that has threads was created, and is signaled as a whole when
\* it is neither the pending nor the signaled one.
Closed ==
    \A g \in Generation :
        d_numThreads[g] > 0 =>
            /\ g \in allocated
            /\ \/ g \in {d_pendingGeneration, d_signaledGeneration}
               \/ d_numSignaled[g] = d_numThreads[g]

\* What is ahead of a generation has threads and is not the pending one.
AheadLives ==
    \A g \in Generation : \A h \in ahead[g] :
        h # g /\ h # d_pendingGeneration /\ d_numThreads[h] > 0

\* The inductive invariant.  That a signal may be given to the pending
\* generation once there is no signaled one rests on Closed: all others are
\* signaled as a whole.
SluiceInv ==
    /\ TypeOK /\ Tokens /\ Counted /\ PoolExact /\ Current /\ Closed
    /\ AheadLives /\ NoOvertaking

-----------------------------------------------------------------------------
(* The members of a generation and the pool *)

\* How many threads have token g when f says which token each has.
Count(f, g) == Cardinality({u \in Waiter : f[u] = g})

\* The size of the generations when a thread's token changes to x.
LEMMA CountMoves ==
    ASSUME TypeOK, NEW t \in Waiter, NEW x, x # token[t],
           token' = [token EXCEPT ![t] = x]
    PROVE  \A g : /\ Count(token, g) \in Nat
                  /\ g = token[t] => Count(token, g) >= 1
                  /\ Count(token', g) = IF g = x THEN Count(token, g) + 1
                                        ELSE IF g = token[t] THEN Count(token, g) - 1
                                        ELSE Count(token, g)
<1> SUFFICES ASSUME NEW g
             PROVE  /\ Count(token, g) \in Nat
                    /\ g = token[t] => Count(token, g) >= 1
                    /\ Count(token', g) = IF g = x THEN Count(token, g) + 1
                                          ELSE IF g = token[t] THEN Count(token, g) - 1
                                          ELSE Count(token, g)
  OBVIOUS
<1> DEFINE M == {u \in Waiter : token[u] = g}
           N == {u \in Waiter : token'[u] = g}
<1>0. \A u \in Waiter : token'[u] = IF u = t THEN x ELSE token[u]
  BY DEF TypeOK
<1>1. IsFiniteSet(M)
  BY SluiceAssumption, FS_Subset DEF SluiceAssumption
<1>2. t \in M <=> g = token[t]
  OBVIOUS
<1>3. CASE g = x
  <2>1. N = M \cup {t} /\ t \notin M
    BY <1>0, <1>2, <1>3
  <2> HIDE DEF M, N
  <2>2. Cardinality(M \cup {t}) = Cardinality(M) + 1 /\ Cardinality(M) \in Nat
    BY <1>1, <2>1, FS_AddElement, FS_CardinalityType
  <2> QED BY <1>3, <2>1, <2>2 DEF M, N, Count
<1>4. CASE g # x /\ g = token[t]
  <2>1. N = M \ {t} /\ t \in M
    BY <1>0, <1>2, <1>4
  <2> HIDE DEF M, N
  <2>2. /\ Cardinality(M \ {t}) = Cardinality(M) - 1
        /\ Cardinality(M) \in Nat /\ Cardinality(M \ {t}) \in Nat
    BY <1>1, <2>1, FS_RemoveElement, FS_CardinalityType
  <2>3. Cardinality(M) >= 1
    BY <2>2
  <2> QED BY <1>4, <2>1, <2>2, <2>3 DEF M, N, Count
<1>5. CASE g # x /\ g # token[t]
  <2>1. N = M
    BY <1>0, <1>5
  <2> QED BY <1>1, <1>5, <2>1, FS_CardinalityType DEF Count
<1> QED BY <1>3, <1>4, <1>5

In(x, q) == \E i \in DOMAIN q : q[i] = x

\* Pushing a descriptor that is not in the pool.
LEMMA PoolPush ==
    ASSUME d_descriptorPool \in Seq(Generation), NEW g \in Generation,
           d_descriptorPool' = <<g>> \o d_descriptorPool,
           \A i \in DOMAIN d_descriptorPool : d_descriptorPool[i] # g,
           \A i, j \in DOMAIN d_descriptorPool : d_descriptorPool[i] = d_descriptorPool[j] => i = j
    PROVE  /\ d_descriptorPool' \in Seq(Generation)
           /\ \A x : In(x, d_descriptorPool') <=> In(x, d_descriptorPool) \/ x = g
           /\ \A i, j \in DOMAIN d_descriptorPool' : d_descriptorPool'[i] = d_descriptorPool'[j] => i = j
<1> DEFINE q == d_descriptorPool
           r == d_descriptorPool'
<1>1. /\ r \in Seq(Generation) /\ Len(r) = Len(q) + 1 /\ DOMAIN r = 1 .. Len(q) + 1
      /\ DOMAIN q = 1 .. Len(q) /\ Len(q) \in Nat
      /\ r[1] = g /\ \A i \in 2 .. Len(q) + 1 : r[i] = q[i - 1]
  OBVIOUS
<1>0. /\ \A i \in DOMAIN q : q[i] # g
      /\ \A i, j \in DOMAIN q : q[i] = q[j] => i = j
  OBVIOUS
<1> HIDE DEF q, r
<1>2. \A x : In(x, r) <=> In(x, q) \/ x = g
  <2>1. \A i \in DOMAIN r : i = 1 \/ (i - 1 \in DOMAIN q /\ r[i] = q[i - 1])
    BY <1>1
  <2>2. \A i \in DOMAIN q : i + 1 \in DOMAIN r /\ r[i + 1] = q[i]
    BY <1>1
  <2>3. 1 \in DOMAIN r
    BY <1>1
  <2>4. r[1] = g
    BY <1>1
  <2>5. ASSUME NEW x, In(x, r) PROVE In(x, q) \/ x = g
    <3>1. PICK i \in DOMAIN r : r[i] = x
      BY <2>5 DEF In
    <3>2. i = 1 \/ (i - 1 \in DOMAIN q /\ q[i - 1] = x)
      BY <2>1, <3>1
    <3> QED BY <2>4, <3>1, <3>2, Zenon DEF In
  <2>6. ASSUME NEW x, In(x, q) PROVE In(x, r)
    <3>1. PICK i \in DOMAIN q : q[i] = x
      BY <2>6 DEF In
    <3>2. i + 1 \in DOMAIN r /\ r[i + 1] = x
      BY <2>2, <3>1
    <3> QED BY <3>2, Zenon DEF In
  <2>7. In(g, r)
    BY <2>3, <2>4, Zenon DEF In
  <2> QED BY <2>5, <2>6, <2>7, Zenon
<1>3. \A i, j \in DOMAIN r : r[i] = r[j] => i = j
  <2> SUFFICES ASSUME NEW i \in DOMAIN r, NEW j \in DOMAIN r, r[i] = r[j]
               PROVE  i = j
    OBVIOUS
  <2>1. \A k \in DOMAIN r : k = 1 \/ (k - 1 \in DOMAIN q /\ r[k] = q[k - 1])
    BY <1>1
  <2>2. CASE i = 1 \/ j = 1
    BY <1>0, <1>1, <2>1, <2>2
  <2>3. CASE i # 1 /\ j # 1
    <3>1. i - 1 \in DOMAIN q /\ j - 1 \in DOMAIN q /\ q[i - 1] = q[j - 1]
      BY <2>1, <2>3
    <3>2. i - 1 = j - 1
      BY <1>0, <3>1
    <3> QED BY <3>2, <1>1
  <2> QED BY <2>2, <2>3
<1> QED BY <1>1, <1>2, <1>3 DEF q, r

\* Taking the first descriptor.
LEMMA PoolPop ==
    ASSUME NEW q \in Seq(Generation), q # <<>>, NEW r, r = Tail(q),
           \A i, j \in DOMAIN q : q[i] = q[j] => i = j
    PROVE  /\ r \in Seq(Generation) /\ Head(q) \in Generation
           /\ In(Head(q), q)
           /\ \A x : In(x, r) <=> In(x, q) /\ x # Head(q)
           /\ \A i, j \in DOMAIN r : r[i] = r[j] => i = j
<1>1. /\ r \in Seq(Generation) /\ Len(q) \in Nat /\ Len(q) >= 1
      /\ Len(r) = Len(q) - 1 /\ DOMAIN q = 1 .. Len(q)
      /\ DOMAIN r = 1 .. Len(q) - 1
      /\ Head(q) = q[1] /\ \A i \in 1 .. Len(q) - 1 : r[i] = q[i + 1]
  OBVIOUS
<1>2. 1 \in DOMAIN q
  BY <1>1
<1>3. \A i \in DOMAIN r : i + 1 \in DOMAIN q /\ r[i] = q[i + 1] /\ i + 1 # 1
  BY <1>1
<1>4. \A i \in DOMAIN q : i = 1 \/ (i - 1 \in DOMAIN r /\ r[i - 1] = q[i])
  BY <1>1
<1>5. \A x : In(x, r) <=> In(x, q) /\ x # q[1]
  <2>1. ASSUME NEW x, In(x, r) PROVE In(x, q) /\ x # q[1]
    <3>1. PICK i \in DOMAIN r : r[i] = x
      BY <2>1 DEF In
    <3>2. i + 1 \in DOMAIN q /\ q[i + 1] = x /\ i + 1 # 1
      BY <1>3, <3>1
    <3>3. x # q[1]
      BY <1>2, <3>2
    <3> QED BY <3>2, <3>3, Zenon DEF In
  <2>2. ASSUME NEW x, In(x, q), x # q[1] PROVE In(x, r)
    <3>1. PICK i \in DOMAIN q : q[i] = x
      BY <2>2 DEF In
    <3>2. i - 1 \in DOMAIN r /\ r[i - 1] = x
      BY <1>4, <2>2, <3>1
    <3> QED BY <3>2, Zenon DEF In
  <2> QED BY <2>1, <2>2, Zenon
<1>6. \A i, j \in DOMAIN r : r[i] = r[j] => i = j
  <2> SUFFICES ASSUME NEW i \in DOMAIN r, NEW j \in DOMAIN r, r[i] = r[j]
               PROVE  i = j
    OBVIOUS
  <2>1. i + 1 = j + 1
    BY <1>3
  <2> QED BY <2>1, <1>1
<1>7. In(Head(q), q)
  BY <1>1, <1>2 DEF In
<1>8. Head(q) = q[1] /\ Head(q) \in Generation
  BY <1>1, <1>2
<1> QED BY <1>1, <1>5, <1>6, <1>7, <1>8

-----------------------------------------------------------------------------
(* The initial states, and the steps that move no token *)

LEMMA InitInv == Init => SluiceInv
<1> SUFFICES ASSUME Init PROVE SluiceInv
  OBVIOUS
<1>1. TypeOK /\ Tokens
  BY DEF Init, TypeOK, Tokens
<1>2. Counted
  <2>1. \A g \in Generation : Members(g) = {}
    BY SluiceAssumption DEF Init, Members, SluiceAssumption
  <2>2. \A g \in Generation : Cardinality(Members(g)) = 0
    BY <2>1, FS_EmptySet, Zenon
  <2>3. \A g \in Generation : d_numThreads[g] = 0 /\ d_numSignaled[g] = 0
    BY DEF Init
  <2> QED BY <2>2, <2>3 DEF Counted
<1>3. PoolExact /\ Current /\ Closed /\ AheadLives /\ NoOvertaking
  BY DEF Init, PoolExact, Pooled, Current, Closed, AheadLives, NoOvertaking
<1> QED BY <1>1, <1>2, <1>3 DEF SluiceInv

\* A step that leaves the generations, their numbers and the tokens alone.
LEMMA QuietStep ==
    ASSUME SluiceInv, UNCHANGED <<generations, numbers, token>>, TypeOK', Tokens'
    PROVE  SluiceInv'
<1>1. \A g \in Generation : Members(g)' = Members(g)
  BY DEF Members
<1>2. Counted'
  BY <1>1 DEF SluiceInv, Counted, numbers
<1>3. (PoolExact /\ Current /\ Closed /\ AheadLives /\ NoOvertaking)'
  BY DEF SluiceInv, PoolExact, Pooled, Current, Closed, AheadLives, NoOvertaking,
         generations, numbers
<1> QED BY <1>2, <1>3 DEF SluiceInv

\* A token is that of a generation, and its thread is counted there.
LEMMA TokenCounts ==
    ASSUME SluiceInv, NEW t \in Waiter, pc[t] # "out"
    PROVE  token[t] \in Generation /\ d_numThreads[token[t]] >= 1
<1>1. token[t] \in Generation
  BY DEF SluiceInv, TypeOK, Tokens
<1>2. t \in Members(token[t]) /\ IsFiniteSet(Members(token[t]))
  BY SluiceAssumption, FS_Subset DEF SluiceAssumption, Members
<1> DEFINE M == Members(token[t])
<1>3. Cardinality(M) >= 1
  <2> HIDE DEF M
  <2>1. t \in M /\ IsFiniteSet(M)
    BY <1>2 DEF M
  <2>2. /\ Cardinality(M \ {t}) = Cardinality(M) - 1
        /\ Cardinality(M) \in Nat /\ Cardinality(M \ {t}) \in Nat
    BY <2>1, FS_RemoveElement, FS_CardinalityType
  <2> QED BY <2>2
<1> QED BY <1>1, <1>3 DEF SluiceInv, Counted

LEMMA WaitQuiet ==
    ASSUME SluiceInv, NEW t \in Waiter, semaWait(t) \/ timeOut(t) \/ waitAgain(t)
    PROVE  SluiceInv'
<1>1. token[t] \in Generation
  BY TokenCounts DEF semaWait, timeOut, waitAgain
<1>2. UNCHANGED <<generations, numbers, token>>
  BY DEF semaWait, timeOut, waitAgain
<1>3. CASE semaWait(t)
  <2>1. d_sema' \in [Generation -> Nat]
    BY <1>1, <1>3 DEF SluiceInv, TypeOK, semaWait
  <2>2. TypeOK'
    BY <1>3, <2>1 DEF SluiceInv, TypeOK, semaWait, generations, numbers
  <2>3. Tokens'
    BY <1>3 DEF SluiceInv, TypeOK, Tokens, semaWait
  <2> QED BY <1>2, <2>2, <2>3, QuietStep
<1>4. CASE timeOut(t) \/ waitAgain(t)
  <2>1. TypeOK'
    BY <1>4 DEF SluiceInv, TypeOK, timeOut, waitAgain, generations, numbers
  <2>2. Tokens'
    BY <1>4 DEF SluiceInv, TypeOK, Tokens, timeOut, waitAgain
  <2> QED BY <1>2, <2>1, <2>2, QuietStep
<1> QED BY <1>3, <1>4 DEF semaWait, timeOut, waitAgain

LEMMA PostQuiet ==
    ASSUME SluiceInv, NEW s \in Signaler, post(s)
    PROVE  SluiceInv'
<1>1. owed[s] \in Seq(Post) /\ owed[s] # <<>>
  BY DEF SluiceInv, TypeOK, post
<1>2. Head(owed[s]) \in Post /\ Tail(owed[s]) \in Seq(Post)
  BY <1>1
<1>3. Head(owed[s]).gen \in Generation /\ Head(owed[s]).num \in Nat
  BY <1>2 DEF Post
<1>4. d_sema' \in [Generation -> Nat]
  BY <1>3 DEF SluiceInv, TypeOK, post
<1>5. owed' \in [Signaler -> Seq(Post)]
  BY <1>2 DEF SluiceInv, TypeOK, post
<1>6. TypeOK'
  BY <1>4, <1>5 DEF SluiceInv, TypeOK, post, generations, numbers
<1>7. Tokens' /\ UNCHANGED <<generations, numbers, token>>
  BY DEF SluiceInv, Tokens, post
<1> QED BY <1>6, <1>7, QuietStep

-----------------------------------------------------------------------------
(* Entering *)

\* A thread joins the generation that is pending from then on, which nobody
\* has signaled.
LEMMA JoinStep ==
    ASSUME SluiceInv, NEW t \in Waiter, NEW g \in Generation, pc[t] = "out",
           Join(t, g), d_pendingGeneration' = g, g # d_signaledGeneration,
           d_pendingGeneration \in {g, None}, d_numSignaled[g] = 0,
           d_descriptorPool' \in Seq(Generation),
           \A i, j \in DOMAIN d_descriptorPool' :
               d_descriptorPool'[i] = d_descriptorPool'[j] => i = j,
           \A x : In(x, d_descriptorPool') <=> In(x, d_descriptorPool) /\ x # g,
           allocated' = allocated \cup {g},
           ahead' \in [Generation -> SUBSET Generation],
           \A k \in Generation : \A h \in ahead'[k] :
               /\ h # k /\ h # g /\ d_numThreads[h] > 0
               /\ d_numSignaled[k] > 0 => d_numSignaled[h] = d_numThreads[h]
    PROVE  SluiceInv'
<1> USE DEF SluiceInv
<1>1. /\ token' = [token EXCEPT ![t] = g] /\ pc' = [pc EXCEPT ![t] = "entered"]
      /\ d_numThreads' = [d_numThreads EXCEPT ![g] = @ + 1]
      /\ UNCHANGED <<d_signaledGeneration, d_numSignaled, d_sema, owed>>
  BY DEF Join
<1>2. token[t] = None /\ g # None
  BY SluiceAssumption DEF SluiceAssumption, Tokens
<1>3. \A h \in Generation :
        /\ d_numThreads[h] \in Nat /\ d_numSignaled[h] \in Nat
        /\ d_numThreads'[h] = IF h = g THEN d_numThreads[h] + 1 ELSE d_numThreads[h]
  BY <1>1 DEF TypeOK
<1>4. TypeOK'
  BY <1>1, <1>3 DEF TypeOK
<1>5. Tokens'
  BY <1>1, <1>2 DEF TypeOK, Tokens
<1>6. Counted'
  <2> SUFFICES ASSUME NEW h \in Generation
               PROVE  /\ d_numThreads'[h] = Count(token', h)
                      /\ d_numSignaled'[h] <= d_numThreads'[h]
    BY DEF Counted, Members, Count
  <2>2. h # token[t]
    BY <1>2, SluiceAssumption DEF SluiceAssumption
  <2>3. Count(token', h) = IF h = g THEN Count(token, h) + 1 ELSE Count(token, h)
    <3>1. TypeOK
      OBVIOUS
    <3>2. g # token[t]
      BY <1>2
    <3>3. token' = [token EXCEPT ![t] = g]
      BY <1>1
    <3> HIDE DEF SluiceInv
    <3>4. \A k : /\ Count(token, k) \in Nat
                 /\ k = token[t] => Count(token, k) >= 1
                 /\ Count(token', k) = IF k = g THEN Count(token, k) + 1
                                       ELSE IF k = token[t] THEN Count(token, k) - 1
                                       ELSE Count(token, k)
      BY <3>1, <3>2, <3>3, CountMoves
    <3> QED BY <2>2, <3>4
  <2>4. d_numThreads[h] = Count(token, h) /\ d_numSignaled[h] <= d_numThreads[h]
    BY DEF Counted, Members, Count
  <2> QED BY <1>1, <1>3, <2>3, <2>4
<1>7. PoolExact'
  <2>1. \A h \in Generation : In(h, d_descriptorPool) <=> h \in allocated /\ d_numThreads[h] = 0
    BY DEF PoolExact, Pooled, In
  <2>2. \A h \in Generation : In(h, d_descriptorPool') <=> h \in allocated' /\ d_numThreads'[h] = 0
    BY <1>3, <2>1
  <2> QED BY <2>2 DEF PoolExact, Pooled, In
<1>8. Current'
  BY <1>1, <1>3, <1>4 DEF TypeOK, Current
<1>9. Closed'
  BY <1>1, <1>3, SluiceAssumption DEF Closed, SluiceAssumption
<1>10. AheadLives' /\ NoOvertaking'
  <2>1. \A k \in Generation : \A h \in ahead'[k] :
           h \in Generation /\ d_numThreads'[h] = d_numThreads[h]
    BY <1>3
  <2> QED BY <1>1, <2>1 DEF AheadLives, NoOvertaking
<1> QED BY <1>4, <1>5, <1>6, <1>7, <1>8, <1>9, <1>10

LEMMA EnterStep ==
    ASSUME SluiceInv, NEW t \in Waiter, enter(t)
    PROVE  SluiceInv'
<1> USE DEF SluiceInv
<1> DEFINE g == d_pendingGeneration
<1>1. /\ g \in Generation /\ g # d_signaledGeneration
      /\ d_numSignaled[g] = 0 /\ d_numThreads[g] > 0 /\ g \in allocated
  BY DEF TypeOK, Current, Closed, enter
<1>2. ~In(g, d_descriptorPool)
  BY <1>1 DEF PoolExact, Pooled, In
<1>3. \A x : In(x, d_descriptorPool') <=> In(x, d_descriptorPool) /\ x # g
  BY <1>2 DEF enter
<1>4. /\ d_descriptorPool' \in Seq(Generation)
      /\ \A i, j \in DOMAIN d_descriptorPool' :
            d_descriptorPool'[i] = d_descriptorPool'[j] => i = j
      /\ allocated' = allocated \cup {g}
      /\ ahead' \in [Generation -> SUBSET Generation]
      /\ d_pendingGeneration' = g /\ pc[t] = "out" /\ Join(t, g)
  BY <1>1 DEF enter, TypeOK, PoolExact
<1>5. \A k \in Generation : \A h \in ahead'[k] :
         /\ h # k /\ h # g /\ d_numThreads[h] > 0
         /\ d_numSignaled[k] > 0 => d_numSignaled[h] = d_numThreads[h]
  BY DEF enter, AheadLives, NoOvertaking
<1> HIDE DEF g, SluiceInv
<1>6. d_pendingGeneration \in {g, None}
  BY DEF g
<1> QED BY <1>1, <1>3, <1>4, <1>5, <1>6, JoinStep

\* A generation with nobody in it starts: all others are ahead of it.
LEMMA StartStep ==
    ASSUME SluiceInv, NEW t \in Waiter, NEW g \in Generation, pc[t] = "out",
           d_pendingGeneration = None, d_numThreads[g] = 0, Start(g), Join(t, g),
           d_descriptorPool' \in Seq(Generation),
           \A i, j \in DOMAIN d_descriptorPool' :
               d_descriptorPool'[i] = d_descriptorPool'[j] => i = j,
           \A x : In(x, d_descriptorPool') <=> In(x, d_descriptorPool) /\ x # g,
           allocated' = allocated \cup {g}
    PROVE  SluiceInv'
<1>1. /\ d_numSignaled[g] = 0 /\ g # d_signaledGeneration
  BY SluiceAssumption DEF SluiceAssumption, SluiceInv, TypeOK, Counted, Current
<1>2. \A k \in Generation :
        ahead'[k] = IF k = g THEN {h \in Generation : d_numThreads[h] > 0} ELSE ahead[k]
  BY DEF Start, SluiceInv, TypeOK
<1>3. ahead' \in [Generation -> SUBSET Generation]
  BY DEF Start, SluiceInv, TypeOK
<1>4. \A k \in Generation : \A h \in ahead'[k] :
         /\ h # k /\ h # g /\ d_numThreads[h] > 0
         /\ d_numSignaled[k] > 0 => d_numSignaled[h] = d_numThreads[h]
  <2> SUFFICES ASSUME NEW k \in Generation, NEW h \in ahead'[k]
               PROVE  /\ h # k /\ h # g /\ d_numThreads[h] > 0
                      /\ d_numSignaled[k] > 0 => d_numSignaled[h] = d_numThreads[h]
    OBVIOUS
  <2>1. CASE k = g
    <3>1. h \in Generation /\ d_numThreads[h] > 0
      BY <1>2, <2>1
    <3>2. h # g
      BY <3>1
    <3>3. ~(d_numSignaled[k] > 0)
      BY <1>1, <2>1
    <3> QED BY <2>1, <3>1, <3>2, <3>3
  <2>2. CASE k # g
    <3>1. h \in ahead[k]
      BY <1>2, <2>2
    <3>2. h # k /\ d_numThreads[h] > 0
      BY <3>1 DEF SluiceInv, AheadLives
    <3>3. d_numSignaled[k] > 0 => d_numSignaled[h] = d_numThreads[h]
      BY <3>1 DEF SluiceInv, NoOvertaking
    <3>4. h # g
      BY <3>2
    <3> QED BY <3>2, <3>3, <3>4
  <2> QED BY <2>1, <2>2
<1>5. d_pendingGeneration' = g /\ d_pendingGeneration \in {g, None}
  BY DEF Start
<1> QED BY <1>1, <1>3, <1>4, <1>5, JoinStep

LEMMA EnterPooledStep ==
    ASSUME SluiceInv, NEW t \in Waiter, enterPooled(t)
    PROVE  SluiceInv'
<1> DEFINE g == Head(d_descriptorPool)
<1>1. /\ d_descriptorPool \in Seq(Generation) /\ d_descriptorPool # <<>>
      /\ \A i, j \in DOMAIN d_descriptorPool :
            d_descriptorPool[i] = d_descriptorPool[j] => i = j
      /\ d_descriptorPool' = Tail(d_descriptorPool)
  BY DEF enterPooled, SluiceInv, TypeOK, PoolExact
<1>2. /\ d_descriptorPool' \in Seq(Generation) /\ g \in Generation
      /\ In(g, d_descriptorPool)
      /\ \A x : In(x, d_descriptorPool') <=> In(x, d_descriptorPool) /\ x # g
      /\ \A i, j \in DOMAIN d_descriptorPool' :
            d_descriptorPool'[i] = d_descriptorPool'[j] => i = j
  BY <1>1, PoolPop
<1>3. g \in allocated /\ d_numThreads[g] = 0
  BY <1>2 DEF SluiceInv, PoolExact, Pooled, In
<1>4. /\ pc[t] = "out" /\ d_pendingGeneration = None /\ Start(g) /\ Join(t, g)
      /\ allocated' = allocated \cup {g}
  BY <1>3 DEF enterPooled
<1> HIDE DEF g
<1> QED BY <1>2, <1>3, <1>4, StartStep

LEMMA EnterNewStep ==
    ASSUME SluiceInv, NEW t \in Waiter, enterNew(t)
    PROVE  SluiceInv'
<1>1. PICK g \in Generation \ allocated :
         Start(g) /\ Join(t, g) /\ allocated' = allocated \cup {g}
  <2> DEFINE g == CHOOSE g \in Generation \ allocated : TRUE
  <2>1. g \in Generation \ allocated
    BY DEF enterNew
  <2>2. Start(g) /\ Join(t, g) /\ allocated' = allocated \cup {g}
    BY DEF enterNew
  <2> HIDE DEF g
  <2> QED BY <2>1, <2>2
<1>2. d_numThreads[g] = 0
  BY <1>1 DEF SluiceInv, TypeOK, Closed
<1>3. /\ d_descriptorPool' = d_descriptorPool
      /\ pc[t] = "out" /\ d_pendingGeneration = None
  BY DEF enterNew
<1>4. ~In(g, d_descriptorPool)
  BY <1>1 DEF SluiceInv, PoolExact, Pooled, In
<1>5. \A x : In(x, d_descriptorPool') <=> In(x, d_descriptorPool) /\ x # g
  BY <1>3, <1>4
<1>6. /\ d_descriptorPool' \in Seq(Generation)
      /\ \A i, j \in DOMAIN d_descriptorPool' :
            d_descriptorPool'[i] = d_descriptorPool'[j] => i = j
  BY <1>3 DEF SluiceInv, TypeOK, PoolExact
<1> QED BY <1>1, <1>2, <1>3, <1>5, <1>6, StartStep

-----------------------------------------------------------------------------
(* Leaving *)

\* What Leave does to the generation and the pool.
LEMMA LeaveShape ==
    ASSUME SluiceInv, NEW t \in Waiter, pc[t] # "out", Leave(t),
           NEW g \in Generation, g = token[t]
    PROVE  /\ d_numThreads[g] >= 1
           /\ d_numThreads' = [d_numThreads EXCEPT ![g] = @ - 1]
           /\ \A h \in Generation :
                 /\ d_numThreads'[h] = Cardinality({u \in Waiter : token'[u] = h})
                 /\ d_numThreads'[h] = IF h = g THEN d_numThreads[h] - 1
                                                ELSE d_numThreads[h]
           /\ d_numThreads' \in [Generation -> Nat]
           /\ token' \in [Waiter -> Generation \cup {None}]
           /\ pc' \in [Waiter -> {"out", "entered", "woken", "expired"}]
           /\ d_descriptorPool' \in Seq(Generation)
           /\ ahead' \in [Generation -> SUBSET Generation]
           /\ PoolExact' /\ Tokens'
           /\ \A k \in Generation : \A h \in ahead'[k] :
                 h \in ahead[k] /\ h \in Generation /\ d_numThreads'[h] > 0
<1>1. TypeOK /\ Tokens /\ Counted /\ PoolExact /\ Closed /\ AheadLives
  BY DEF SluiceInv
<1>2. d_numThreads[g] >= 1 /\ g # None
  BY TokenCounts, SluiceAssumption DEF SluiceAssumption
<1>3. /\ d_numThreads' = [d_numThreads EXCEPT ![g] = @ - 1]
      /\ pc' = [pc EXCEPT ![t] = "out"] /\ token' = [token EXCEPT ![t] = None]
      /\ d_descriptorPool' = IF d_numThreads[g] = 1 THEN <<g>> \o d_descriptorPool
                                                    ELSE d_descriptorPool
      /\ ahead' = IF d_numThreads[g] = 1
                  THEN [h \in Generation |-> ahead[h] \ {g}] ELSE ahead
      /\ allocated' = allocated
  BY DEF Leave
<1>4. \A h \in Generation :
        /\ d_numThreads[h] \in Nat
        /\ d_numThreads'[h] = IF h = g THEN d_numThreads[h] - 1 ELSE d_numThreads[h]
  BY <1>1, <1>3 DEF TypeOK
<1>5. d_numThreads' \in [Generation -> Nat]
  BY <1>1, <1>2, <1>3 DEF TypeOK
<1>6. ASSUME NEW h \in Generation PROVE d_numThreads'[h] = Count(token', h)
  <2>1. TypeOK
    BY <1>1
  <2>2. None # token[t]
    BY <1>2
  <2>3. token' = [token EXCEPT ![t] = None]
    BY <1>3
  <2>4. \A k : /\ Count(token, k) \in Nat
               /\ k = token[t] => Count(token, k) >= 1
               /\ Count(token', k) = IF k = None THEN Count(token, k) + 1
                                     ELSE IF k = token[t] THEN Count(token, k) - 1
                                     ELSE Count(token, k)
    BY <2>1, <2>2, <2>3, CountMoves
  <2>5. h # None
    BY SluiceAssumption DEF SluiceAssumption
  <2>6. d_numThreads[h] = Count(token, h)
    BY <1>1 DEF Counted, Members, Count
  <2> QED BY <1>4, <2>4, <2>5, <2>6
<1>7. /\ token' \in [Waiter -> Generation \cup {None}]
      /\ pc' \in [Waiter -> {"out", "entered", "woken", "expired"}]
      /\ ahead' \in [Generation -> SUBSET Generation]
  BY <1>1, <1>3 DEF TypeOK
<1>8. Tokens'
  BY <1>1, <1>3 DEF TypeOK, Tokens
<1>9. \A h \in Generation : In(h, d_descriptorPool) <=> h \in allocated /\ d_numThreads[h] = 0
  BY <1>1 DEF PoolExact, Pooled, In
<1>10. d_descriptorPool' \in Seq(Generation) /\ PoolExact'
  <2>1. CASE d_numThreads[g] # 1
    <3>1. d_descriptorPool' = d_descriptorPool
      BY <1>3, <2>1
    <3>2. \A h \in Generation :
             In(h, d_descriptorPool') <=> h \in allocated' /\ d_numThreads'[h] = 0
      BY <1>2, <1>3, <1>4, <1>9, <2>1, <3>1
    <3>3. \A h \in Generation :
             h \in Pooled' <=> h \in allocated' /\ d_numThreads'[h] = 0
      BY <3>2 DEF Pooled, In
    <3>4. /\ d_descriptorPool \in Seq(Generation)
          /\ \A i, j \in DOMAIN d_descriptorPool :
                d_descriptorPool[i] = d_descriptorPool[j] => i = j
      BY <1>1 DEF TypeOK, PoolExact
    <3>5. /\ d_descriptorPool' \in Seq(Generation)
          /\ \A i, j \in DOMAIN d_descriptorPool' :
                d_descriptorPool'[i] = d_descriptorPool'[j] => i = j
      BY <3>1, <3>4
    <3> QED BY <3>3, <3>5 DEF PoolExact
  <2>2. CASE d_numThreads[g] = 1
    <3>1. d_descriptorPool \in Seq(Generation)
      BY <1>1 DEF TypeOK
    <3>2. d_descriptorPool' = <<g>> \o d_descriptorPool
      BY <1>3, <2>2
    <3>3. ~In(g, d_descriptorPool)
      BY <1>9, <2>2
    <3>4. \A i \in DOMAIN d_descriptorPool : d_descriptorPool[i] # g
      BY <3>3 DEF In
    <3>5. \A i, j \in DOMAIN d_descriptorPool :
             d_descriptorPool[i] = d_descriptorPool[j] => i = j
      BY <1>1 DEF PoolExact
    <3>6. /\ d_descriptorPool' \in Seq(Generation)
          /\ \A x : In(x, d_descriptorPool') <=> In(x, d_descriptorPool) \/ x = g
          /\ \A i, j \in DOMAIN d_descriptorPool' :
                d_descriptorPool'[i] = d_descriptorPool'[j] => i = j
      BY <3>1, <3>2, <3>4, <3>5, PoolPush
    <3>7. g \in allocated
      BY <1>1, <1>2, <2>2 DEF Closed
    <3>8. \A h \in Generation :
             In(h, d_descriptorPool') <=> h \in allocated' /\ d_numThreads'[h] = 0
      BY <1>3, <1>4, <1>9, <2>2, <3>6, <3>7
    <3> QED BY <3>6, <3>8 DEF PoolExact, Pooled, In
  <2> QED BY <2>1, <2>2
<1>11. \A k \in Generation : \A h \in ahead'[k] :
         h \in ahead[k] /\ h \in Generation /\ d_numThreads'[h] > 0
  <2> SUFFICES ASSUME NEW k \in Generation, NEW h \in ahead'[k]
               PROVE  h \in ahead[k] /\ h \in Generation /\ d_numThreads'[h] > 0
    OBVIOUS
  <2>1. h \in ahead[k] /\ (d_numThreads[g] = 1 => h # g)
    BY <1>3
  <2>2. h \in Generation /\ d_numThreads[h] > 0
    BY <1>1, <2>1 DEF TypeOK, AheadLives
  <2> QED BY <1>2, <1>4, <2>1, <2>2
<1> QED BY <1>2, <1>3, <1>4, <1>5, <1>6, <1>7, <1>8, <1>10, <1>11 DEF Count

LEMMA LeaveSignaledStep ==
    ASSUME SluiceInv, NEW t \in Waiter, leaveSignaled(t)
    PROVE  SluiceInv'
<1> DEFINE g == token[t]
<1>1. /\ pc[t] # "out" /\ Leave(t) /\ d_numSignaled[g] > 0
      /\ d_numSignaled' = [d_numSignaled EXCEPT ![g] = @ - 1]
      /\ UNCHANGED <<d_signaledGeneration, d_pendingGeneration, d_sema, owed, allocated>>
  BY DEF leaveSignaled, Leave
<1>2. g \in Generation
  BY <1>1, TokenCounts
<1> HIDE DEF g
<1>3. g = token[t]
  BY DEF g
<1>4. /\ d_numThreads[g] >= 1
      /\ \A h \in Generation :
           /\ d_numThreads'[h] = Cardinality({u \in Waiter : token'[u] = h})
           /\ d_numThreads'[h] = IF h = g THEN d_numThreads[h] - 1 ELSE d_numThreads[h]
      /\ d_numThreads' \in [Generation -> Nat]
      /\ token' \in [Waiter -> Generation \cup {None}]
      /\ pc' \in [Waiter -> {"out", "entered", "woken", "expired"}]
      /\ d_descriptorPool' \in Seq(Generation)
      /\ ahead' \in [Generation -> SUBSET Generation]
      /\ PoolExact' /\ Tokens'
      /\ \A k \in Generation : \A h \in ahead'[k] :
           h \in ahead[k] /\ h \in Generation /\ d_numThreads'[h] > 0
  BY <1>1, <1>2, <1>3, LeaveShape
<1>5. /\ d_numSignaled' \in [Generation -> Nat]
      /\ \A h \in Generation :
           /\ d_numSignaled[h] \in Nat /\ d_numThreads[h] \in Nat
           /\ d_numSignaled'[h] = IF h = g THEN d_numSignaled[h] - 1
                                          ELSE d_numSignaled[h]
  BY <1>1, <1>2 DEF SluiceInv, TypeOK
<1>6. \A h \in Generation :
        d_numThreads'[h] = IF h = g THEN d_numThreads[h] - 1 ELSE d_numThreads[h]
  BY <1>4
<1>7. \A h \in Generation :
         /\ d_numSignaled[h] \in Nat /\ d_numThreads[h] \in Nat
         /\ d_numSignaled'[h] = IF h = g THEN d_numSignaled[h] - 1 ELSE d_numSignaled[h]
  BY <1>5
<1>8. /\ d_signaledGeneration \in Generation \cup {None}
       /\ d_pendingGeneration \in Generation \cup {None}
  BY DEF SluiceInv, TypeOK
<1>9. TypeOK'
  BY <1>1, <1>4, <1>5 DEF SluiceInv, TypeOK
<1>10. Counted'
  <2> SUFFICES ASSUME NEW h \in Generation
               PROVE  /\ d_numThreads'[h] = Cardinality({u \in Waiter : token'[u] = h})
                      /\ d_numSignaled'[h] <= d_numThreads'[h]
    BY DEF Counted, Members
  <2>1. d_numThreads'[h] = Cardinality({u \in Waiter : token'[u] = h})
    BY <1>4
  <2>2. d_numSignaled[h] <= d_numThreads[h]
    BY DEF SluiceInv, Counted
  <2>3. d_numSignaled'[h] <= d_numThreads'[h]
    <3>1. CASE h = g
      BY <1>7, <1>6, <2>2, <3>1
    <3>2. CASE h # g
      BY <1>7, <1>6, <2>2, <3>2
    <3> QED BY <3>1, <3>2
  <2> QED BY <2>1, <2>3
<1>11. d_pendingGeneration # g
  BY <1>1, <1>2, SluiceAssumption DEF SluiceInv, Current, SluiceAssumption
<1>12. Current'
  <2>1. ASSUME d_pendingGeneration # None
        PROVE  /\ d_numThreads'[d_pendingGeneration] > 0
               /\ d_numSignaled'[d_pendingGeneration] = 0
               /\ d_pendingGeneration # d_signaledGeneration
    <3>1. /\ d_numThreads[d_pendingGeneration] > 0
          /\ d_numSignaled[d_pendingGeneration] = 0
          /\ d_pendingGeneration # d_signaledGeneration
      BY <2>1 DEF SluiceInv, Current
    <3> QED BY <1>11, <1>6, <1>7, <1>8, <2>1, <3>1
  <2>2. ASSUME d_signaledGeneration # None
        PROVE  d_numSignaled'[d_signaledGeneration] < d_numThreads'[d_signaledGeneration]
    <3>1. d_signaledGeneration \in Generation
      BY <1>8, <2>2
    <3>2. d_numSignaled[d_signaledGeneration] < d_numThreads[d_signaledGeneration]
      BY <2>2 DEF SluiceInv, Current
    <3>3. CASE d_signaledGeneration = g
      BY <1>6, <1>7, <3>1, <3>2, <3>3
    <3>4. CASE d_signaledGeneration # g
      BY <1>6, <1>7, <3>1, <3>2, <3>4
    <3> QED BY <3>3, <3>4
  <2>3. UNCHANGED <<d_pendingGeneration, d_signaledGeneration>>
    BY <1>1
  <2> QED BY <2>1, <2>2, <2>3 DEF Current
<1>13. Closed'
  <2> SUFFICES ASSUME NEW h \in Generation, d_numThreads'[h] > 0
               PROVE  /\ h \in allocated
                      /\ \/ h \in {d_pendingGeneration, d_signaledGeneration}
                         \/ d_numSignaled'[h] = d_numThreads'[h]
    BY <1>1 DEF Closed
  <2>1. d_numThreads[h] > 0
    BY <1>6, <1>7
  <2>2. /\ h \in allocated
        /\ \/ h \in {d_pendingGeneration, d_signaledGeneration}
           \/ d_numSignaled[h] = d_numThreads[h]
    BY <2>1 DEF SluiceInv, Closed
  <2> QED BY <1>6, <1>7, <2>2
<1>14. AheadLives'
  BY <1>1, <1>4 DEF SluiceInv, AheadLives
<1>15. NoOvertaking'
  <2> SUFFICES ASSUME NEW k \in Generation, NEW h \in ahead'[k], d_numSignaled'[k] > 0
               PROVE  d_numSignaled'[h] = d_numThreads'[h]
    BY DEF NoOvertaking
  <2>0. d_numSignaled'[k] = IF k = g THEN d_numSignaled[k] - 1
                                     ELSE d_numSignaled[k]
    BY <1>5
  <2>1. h \in ahead[k] /\ h \in Generation /\ d_numSignaled[k] > 0
    <3>1. h \in ahead[k] /\ h \in Generation
      BY <1>4
    <3>2. d_numSignaled[k] \in Nat
      BY <1>5
    <3>3. d_numSignaled[k] > 0
      BY <2>0, <3>2
    <3> QED BY <3>1, <3>3
  <2>2. d_numSignaled[h] = d_numThreads[h]
    BY <2>1 DEF SluiceInv, NoOvertaking
  <2> QED BY <1>4, <1>5, <2>1, <2>2
<1> QED BY <1>4, <1>9, <1>10, <1>12, <1>13, <1>14, <1>15 DEF SluiceInv

LEMMA LeaveExpiredStep ==
    ASSUME SluiceInv, NEW t \in Waiter, leaveExpired(t)
    PROVE  SluiceInv'
<1> DEFINE g == token[t]
           Reset(k) == IF d_numThreads[g] = 1 /\ k = g THEN None ELSE k
<1>1. /\ pc[t] # "out" /\ Leave(t) /\ d_numSignaled[g] = 0
      /\ d_numSignaled' = d_numSignaled
      /\ d_signaledGeneration' = Reset(d_signaledGeneration)
      /\ d_pendingGeneration' = Reset(d_pendingGeneration)
      /\ UNCHANGED <<d_sema, owed, allocated>>
  BY DEF leaveExpired, Leave
<1>2. g \in Generation
  BY <1>1, TokenCounts
<1> HIDE DEF g
<1>3. g = token[t]
  BY DEF g
<1>4. /\ d_numThreads[g] >= 1
      /\ \A h \in Generation :
           /\ d_numThreads'[h] = Cardinality({u \in Waiter : token'[u] = h})
           /\ d_numThreads'[h] = IF h = g THEN d_numThreads[h] - 1 ELSE d_numThreads[h]
      /\ d_numThreads' \in [Generation -> Nat]
      /\ token' \in [Waiter -> Generation \cup {None}]
      /\ pc' \in [Waiter -> {"out", "entered", "woken", "expired"}]
      /\ d_descriptorPool' \in Seq(Generation)
      /\ ahead' \in [Generation -> SUBSET Generation]
      /\ PoolExact' /\ Tokens'
      /\ \A k \in Generation : \A h \in ahead'[k] :
           h \in ahead[k] /\ h \in Generation /\ d_numThreads'[h] > 0
  BY <1>1, <1>2, <1>3, LeaveShape
<1>5. /\ \A h \in Generation : d_numSignaled[h] \in Nat /\ d_numThreads[h] \in Nat
      /\ d_numSignaled \in [Generation -> Nat]
      /\ d_signaledGeneration \in Generation \cup {None}
      /\ d_pendingGeneration \in Generation \cup {None}
  BY DEF SluiceInv, TypeOK
<1>6. \A h \in Generation :
        d_numThreads'[h] = IF h = g THEN d_numThreads[h] - 1 ELSE d_numThreads[h]
  BY <1>4
<1>7. TypeOK'
  BY <1>1, <1>4, <1>5 DEF SluiceInv, TypeOK
<1>8. Counted'
  <2> SUFFICES ASSUME NEW h \in Generation
               PROVE  /\ d_numThreads'[h] = Cardinality({u \in Waiter : token'[u] = h})
                      /\ d_numSignaled'[h] <= d_numThreads'[h]
    BY DEF Counted, Members
  <2>1. d_numThreads'[h] = Cardinality({u \in Waiter : token'[u] = h})
    BY <1>4
  <2>2. d_numSignaled[h] <= d_numThreads[h]
    BY DEF SluiceInv, Counted
  <2>3. d_numSignaled'[h] <= d_numThreads'[h]
    <3>1. CASE h = g
      BY <1>1, <1>4, <1>5, <1>6, <2>2, <3>1
    <3>2. CASE h # g
      BY <1>1, <1>5, <1>6, <2>2, <3>2
    <3> QED BY <3>1, <3>2
  <2> QED BY <2>1, <2>3
<1>9. Current'
  <2>1. ASSUME d_pendingGeneration' # None
        PROVE  /\ d_numThreads'[d_pendingGeneration'] > 0
               /\ d_numSignaled'[d_pendingGeneration'] = 0
               /\ d_pendingGeneration' # d_signaledGeneration'
    <3>1. /\ d_pendingGeneration' = d_pendingGeneration
          /\ d_pendingGeneration \in Generation
          /\ ~(d_numThreads[g] = 1 /\ d_pendingGeneration = g)
      BY <1>1, <1>5, <2>1
    <3>2. /\ d_numThreads[d_pendingGeneration] > 0
          /\ d_numSignaled[d_pendingGeneration] = 0
          /\ d_pendingGeneration # d_signaledGeneration
      BY <2>1, <3>1 DEF SluiceInv, Current
    <3>3. d_numThreads'[d_pendingGeneration] > 0
      <4>1. d_numThreads[d_pendingGeneration] \in Nat
        BY <1>5, <3>1
      <4>2. CASE d_pendingGeneration = g
        BY <1>6, <3>1, <3>2, <4>1, <4>2
      <4>3. CASE d_pendingGeneration # g
        BY <1>6, <3>1, <3>2, <4>3
      <4> QED BY <4>2, <4>3
    <3> QED BY <1>1, <2>1, <3>1, <3>2, <3>3
  <2>2. ASSUME d_signaledGeneration' # None
        PROVE  d_numSignaled'[d_signaledGeneration'] < d_numThreads'[d_signaledGeneration']
    <3>1. /\ d_signaledGeneration' = d_signaledGeneration
          /\ d_signaledGeneration \in Generation
          /\ ~(d_numThreads[g] = 1 /\ d_signaledGeneration = g)
      BY <1>1, <1>5, <2>2
    <3>2. d_numSignaled[d_signaledGeneration] < d_numThreads[d_signaledGeneration]
      BY <2>2, <3>1 DEF SluiceInv, Current
    <3>3. /\ d_numThreads[d_signaledGeneration] \in Nat
          /\ d_numSignaled[d_signaledGeneration] \in Nat
      BY <1>5, <3>1
    <3>4. d_numSignaled[d_signaledGeneration] < d_numThreads'[d_signaledGeneration]
      <4>1. CASE d_signaledGeneration = g
        BY <1>1, <1>6, <3>1, <3>2, <3>3, <4>1
      <4>2. CASE d_signaledGeneration # g
        BY <1>6, <3>1, <3>2, <4>2
      <4> QED BY <4>1, <4>2
    <3> QED BY <1>1, <3>1, <3>4
  <2> QED BY <2>1, <2>2 DEF Current
<1>10. Closed'
  <2> SUFFICES ASSUME NEW h \in Generation, d_numThreads'[h] > 0
               PROVE  /\ h \in allocated
                      /\ \/ h \in {d_pendingGeneration', d_signaledGeneration'}
                         \/ d_numSignaled[h] = d_numThreads'[h]
    BY <1>1 DEF Closed
  <2>1. d_numThreads[h] > 0 /\ ~(d_numThreads[g] = 1 /\ h = g)
    <3>1. d_numThreads[h] \in Nat
      BY <1>5
    <3>2. CASE h = g
      BY <1>6, <3>1, <3>2
    <3>3. CASE h # g
      BY <1>6, <3>3
    <3> QED BY <3>2, <3>3
  <2>2. /\ h \in allocated
        /\ \/ h \in {d_pendingGeneration, d_signaledGeneration}
           \/ d_numSignaled[h] = d_numThreads[h]
    BY <2>1 DEF SluiceInv, Closed
  <2>3. CASE h \in {d_pendingGeneration, d_signaledGeneration}
    BY <1>1, <2>1, <2>2, <2>3
  <2>4. CASE d_numSignaled[h] = d_numThreads[h]
    <3>1. h # g
      BY <1>1, <1>4, <1>5, <2>4
    <3> QED BY <1>4, <2>2, <2>4, <3>1
  <2> QED BY <2>2, <2>3, <2>4
<1>11. AheadLives'
  <2> SUFFICES ASSUME NEW k \in Generation, NEW h \in ahead'[k]
               PROVE  h # k /\ h # d_pendingGeneration' /\ d_numThreads'[h] > 0
    BY DEF AheadLives
  <2>1. h \in ahead[k] /\ h \in Generation /\ d_numThreads'[h] > 0
    BY <1>4
  <2>2. h # k /\ h # d_pendingGeneration /\ h # None
    BY <2>1, SluiceAssumption DEF SluiceInv, AheadLives, SluiceAssumption
  <2> QED BY <1>1, <2>1, <2>2
<1>12. NoOvertaking'
  <2> SUFFICES ASSUME NEW k \in Generation, NEW h \in ahead'[k], d_numSignaled[k] > 0
               PROVE  d_numSignaled[h] = d_numThreads'[h]
    BY <1>1 DEF NoOvertaking
  <2>1. h \in ahead[k] /\ h \in Generation
    BY <1>4
  <2>2. d_numSignaled[h] = d_numThreads[h]
    BY <2>1 DEF SluiceInv, NoOvertaking
  <2>3. h # g
    BY <1>1, <1>4, <2>2
  <2> QED BY <1>4, <2>1, <2>2, <2>3
<1> QED BY <1>4, <1>7, <1>8, <1>9, <1>10, <1>11, <1>12 DEF SluiceInv

-----------------------------------------------------------------------------
(* Signaling *)

LEMMA SignalOneStep ==
    ASSUME SluiceInv, NEW s \in Signaler, signalOne(s)
    PROVE  SluiceInv'
<1> DEFINE g == IF d_signaledGeneration # None THEN d_signaledGeneration
                                               ELSE d_pendingGeneration
           p == IF d_signaledGeneration # None THEN d_pendingGeneration ELSE None
<1>1. SignalIn(s, g, p)
  BY DEF signalOne
<1>2. /\ g \in Generation
      /\ d_numSignaled[g] < d_numThreads[g]
  BY <1>1 DEF SluiceInv, TypeOK, Current, SignalIn
<1>3. /\ p \in {d_pendingGeneration, None} /\ (p # None => p # g)
      /\ d_signaledGeneration \in {g, None}
      /\ d_pendingGeneration \in {g, p} /\ p \in Generation \cup {None}
  BY <1>1, <1>2 DEF SluiceInv, TypeOK, Current
<1> HIDE DEF g, p
<1>4. /\ d_numSignaled' = [d_numSignaled EXCEPT ![g] = @ + 1]
      /\ d_signaledGeneration' = IF d_numThreads[g] = d_numSignaled[g] + 1
                                 THEN None ELSE g
      /\ d_pendingGeneration' = p
      /\ owed' = [owed EXCEPT ![s] = <<[gen |-> g, num |-> 1]>>]
      /\ UNCHANGED <<d_numThreads, d_sema, d_descriptorPool, allocated, ahead, pc, token>>
  BY <1>1 DEF SignalIn
<1>5. \A h \in Generation :
        /\ d_numSignaled[h] \in Nat /\ d_numThreads[h] \in Nat
        /\ d_numSignaled'[h] = IF h = g THEN d_numSignaled[h] + 1 ELSE d_numSignaled[h]
  BY <1>2, <1>4 DEF SluiceInv, TypeOK
<1>6. owed' \in [Signaler -> Seq(Post)]
  <2>1. [gen |-> g, num |-> 1] \in Post
    BY <1>2 DEF Post
  <2>2. <<[gen |-> g, num |-> 1]>> \in Seq(Post)
    BY <2>1
  <2> QED BY <1>4, <2>2 DEF SluiceInv, TypeOK
<1>7. TypeOK'
  <2>1. d_numSignaled' \in [Generation -> Nat]
    <3>1. d_numSignaled \in [Generation -> Nat] /\ d_numSignaled[g] + 1 \in Nat
      BY <1>2, <1>5 DEF SluiceInv, TypeOK
    <3> QED BY <1>4, <3>1
  <2> QED BY <1>2, <1>3, <1>4, <1>6, <2>1 DEF SluiceInv, TypeOK
<1>8. Tokens' /\ PoolExact'
  BY <1>4 DEF SluiceInv, Tokens, PoolExact, Pooled
<1>9. Counted'
  BY <1>2, <1>4, <1>5 DEF SluiceInv, Counted, Members
<1>10. Current'
  BY <1>2, <1>3, <1>4, <1>5 DEF SluiceInv, Current
<1>11. Closed'
  <2> SUFFICES ASSUME NEW h \in Generation, d_numThreads[h] > 0
               PROVE  /\ h \in allocated
                      /\ \/ h \in {d_pendingGeneration', d_signaledGeneration'}
                         \/ d_numSignaled'[h] = d_numThreads[h]
    BY <1>4 DEF Closed
  <2>1. /\ h \in allocated
        /\ \/ h \in {d_pendingGeneration, d_signaledGeneration}
           \/ d_numSignaled[h] = d_numThreads[h]
    BY DEF SluiceInv, Closed
  <2>2. CASE h = g
    BY <1>4, <1>5, <2>1, <2>2
  <2>3. CASE h # g
    <3>1. h # None
      BY SluiceAssumption DEF SluiceAssumption
    <3> QED BY <1>3, <1>4, <1>5, <2>1, <2>3, <3>1
  <2> QED BY <2>2, <2>3
<1>12. AheadLives'
  <2>1. \A k \in Generation : \A h \in ahead[k] : h # None
    BY SluiceAssumption DEF SluiceInv, TypeOK, SluiceAssumption
  <2> QED BY <1>3, <1>4, <2>1 DEF SluiceInv, AheadLives
<1>13. NoOvertaking'
  <2> SUFFICES ASSUME NEW k \in Generation, NEW h \in ahead[k], d_numSignaled'[k] > 0
               PROVE  d_numSignaled'[h] = d_numThreads[h]
    BY <1>4 DEF NoOvertaking
  <2>1. /\ h \in Generation /\ h # k /\ h # d_pendingGeneration /\ d_numThreads[h] > 0
    BY DEF SluiceInv, TypeOK, AheadLives
  <2>2. d_numSignaled[h] = d_numThreads[h]
    <3>1. CASE k = g
      <4>1. h # d_signaledGeneration
        BY <1>3, <2>1, <3>1, SluiceAssumption DEF SluiceAssumption
      <4> QED BY <2>1, <4>1 DEF SluiceInv, Closed
    <3>2. CASE k # g
      BY <1>5, <3>2 DEF SluiceInv, NoOvertaking
    <3> QED BY <3>1, <3>2
  <2>3. h # g
    BY <1>2, <1>5, <2>2
  <2> QED BY <1>5, <2>1, <2>2, <2>3
<1> QED BY <1>7, <1>8, <1>9, <1>10, <1>11, <1>12, <1>13 DEF SluiceInv

LEMMA SignalAllStep ==
    ASSUME SluiceInv, NEW s \in Signaler, signalAll(s)
    PROVE  SluiceInv'
<1> DEFINE gens == {d_signaledGeneration, d_pendingGeneration} \ {None}
           Owes(g) == IF g = None THEN <<>>
                      ELSE <<[gen |-> g, num |-> d_numThreads[g] - d_numSignaled[g]]>>
<1>1. /\ d_numSignaled' = [g \in Generation |-> IF g \in gens THEN d_numThreads[g]
                                                ELSE d_numSignaled[g]]
      /\ owed' = [owed EXCEPT ![s] = Owes(d_signaledGeneration)
                                        \o Owes(d_pendingGeneration)]
      /\ d_signaledGeneration' = None /\ d_pendingGeneration' = None
      /\ UNCHANGED <<d_numThreads, d_sema, d_descriptorPool, allocated, ahead, pc, token>>
  BY DEF signalAll
<1>2. \A g \in Generation :
        /\ d_numSignaled[g] \in Nat /\ d_numThreads[g] \in Nat
        /\ d_numSignaled[g] <= d_numThreads[g]
  BY DEF SluiceInv, TypeOK, Counted
<1>3. \A g \in Generation : d_numSignaled'[g] = d_numThreads[g]
  <2> SUFFICES ASSUME NEW g \in Generation PROVE d_numSignaled'[g] = d_numThreads[g]
    OBVIOUS
  <2>1. CASE g \in gens
    BY <1>1, <2>1
  <2>2. CASE g \notin gens
    <3>1. g # None
      BY SluiceAssumption DEF SluiceAssumption
    <3>2. d_numSignaled[g] = d_numThreads[g]
      BY <1>2, <2>2, <3>1 DEF SluiceInv, Closed
    <3> QED BY <1>1, <2>2, <3>2
  <2> QED BY <2>1, <2>2
<1>4. \A g \in Generation \cup {None} : Owes(g) \in Seq(Post)
  <2> SUFFICES ASSUME NEW g \in Generation \cup {None} PROVE Owes(g) \in Seq(Post)
    OBVIOUS
  <2>1. CASE g = None
    BY <2>1
  <2>2. CASE g # None
    <3>1. d_numThreads[g] - d_numSignaled[g] \in Nat /\ g \in Generation
      BY <1>2, <2>2
    <3>2. [gen |-> g, num |-> d_numThreads[g] - d_numSignaled[g]] \in Post
      BY <3>1 DEF Post
    <3> QED BY <2>2, <3>2
  <2> QED BY <2>1, <2>2
<1> HIDE DEF Owes, gens
<1>5. owed' \in [Signaler -> Seq(Post)]
  <2>1. /\ d_signaledGeneration \in Generation \cup {None}
        /\ d_pendingGeneration \in Generation \cup {None}
        /\ owed \in [Signaler -> Seq(Post)]
    BY DEF SluiceInv, TypeOK
  <2>2. Owes(d_signaledGeneration) \o Owes(d_pendingGeneration) \in Seq(Post)
    BY <1>4, <2>1
  <2> QED BY <1>1, <2>1, <2>2
<1>6. TypeOK'
  <2>1. d_numSignaled' \in [Generation -> Nat]
    BY <1>1, <1>2, <1>3
  <2> QED BY <1>1, <1>5, <2>1 DEF SluiceInv, TypeOK
<1>7. Tokens' /\ PoolExact'
  BY <1>1 DEF SluiceInv, Tokens, PoolExact, Pooled
<1>8. Counted'
  BY <1>1, <1>2, <1>3 DEF SluiceInv, Counted, Members
<1>9. Current' /\ Closed'
  BY <1>1, <1>3 DEF SluiceInv, Current, Closed
<1>10. \A k \in Generation : \A h \in ahead[k] : h \in Generation /\ h # None
  BY SluiceAssumption DEF SluiceInv, TypeOK, SluiceAssumption
<1>11. AheadLives' /\ NoOvertaking'
  BY <1>1, <1>3, <1>10 DEF SluiceInv, AheadLives, NoOvertaking
<1> QED BY <1>6, <1>7, <1>8, <1>9, <1>11 DEF SluiceInv

-----------------------------------------------------------------------------
(* The theorems *)

LEMMA SluiceInvKept == SluiceInv /\ [Next]_vars => SluiceInv'
<1> SUFFICES ASSUME SluiceInv, [Next]_vars PROVE SluiceInv'
  OBVIOUS
<1>1. CASE UNCHANGED vars
  <2>1. TypeOK' /\ Tokens'
    BY <1>1 DEF SluiceInv, TypeOK, Tokens, vars, generations, numbers
  <2>2. UNCHANGED <<generations, numbers, token>>
    BY <1>1 DEF vars
  <2> QED BY <2>1, <2>2, QuietStep
<1>2. CASE \E t \in Waiter : \/ enter(t) \/ enterPooled(t) \/ enterNew(t)
                             \/ Wait(t) \/ timeOut(t)
  <2> PICK t \in Waiter : \/ enter(t) \/ enterPooled(t) \/ enterNew(t)
                          \/ Wait(t) \/ timeOut(t)
    BY <1>2
  <2>1. CASE enter(t)
    BY <2>1, EnterStep
  <2>2. CASE enterPooled(t)
    BY <2>2, EnterPooledStep
  <2>3. CASE enterNew(t)
    BY <2>3, EnterNewStep
  <2>4. CASE semaWait(t) \/ timeOut(t) \/ waitAgain(t)
    BY <2>4, WaitQuiet
  <2>5. CASE leaveSignaled(t)
    BY <2>5, LeaveSignaledStep
  <2>6. CASE leaveExpired(t)
    BY <2>6, LeaveExpiredStep
  <2> QED BY <2>1, <2>2, <2>3, <2>4, <2>5, <2>6 DEF Wait
<1>3. CASE \E s \in Signaler : signalAll(s) \/ signalOne(s) \/ post(s)
  BY <1>3, SignalAllStep, SignalOneStep, PostQuiet
<1> QED BY <1>1, <1>2, <1>3 DEF Next

\* Every variable keeps its type: no count of threads, signals or posts ever
\* drops below zero.
THEOREM TypeCorrect == Spec => []TypeOK
<1>1. SluiceInv => TypeOK
  BY DEF SluiceInv
<1> QED BY <1>1, InitInv, SluiceInvKept, PTL DEF Spec

\* The descriptors count their threads, and one is in the pool exactly while
\* nobody is in its generation: what the code asserts as it passes by holds
\* always, however many threads time out while others signal.
THEOREM DescriptorsAreExact == Spec => []DescriptorsExact
<1>1. SluiceInv => DescriptorsExact
  BY DEF SluiceInv, DescriptorsExact, Counted, PoolExact, Current
<1> QED BY <1>1, InitInv, SluiceInvKept, PTL DEF Spec

\* No thread is signaled before one of a generation that was there when its
\* own started.
THEOREM NobodyIsOvertaken == Spec => []NoOvertaking
<1>1. SluiceInv => NoOvertaking
  BY DEF SluiceInv
<1> QED BY <1>1, InitInv, SluiceInvKept, PTL DEF Spec

\* The descriptors are exact and every number that is kept in them is one.
THEOREM SluiceIsConsistent == Spec => []Consistent
<1> QED BY TypeCorrect, DescriptorsAreExact, PTL DEF Consistent

=============================================================================
