-------------------------- MODULE ThreadPoolProofs --------------------------
(***************************************************************************)
(* Proofs that the wait list and the counters of bdlmt::ThreadPool are     *)
(* exact, and that no wakeup is lost, whatever the number of threads, jobs *)
(* and clients and whatever calls the clients make.                        *)
(***************************************************************************)
EXTENDS ThreadPool, FiniteSetTheorems, SequenceTheorems, TLAPS

\* The inductive invariant.  The types need the counters to be exact (a
\* counter that is decremented is not zero); the counters and the absence of
\* lost wakeups need the wait list to be.
PoolInv == TypeOK /\ WaitListExact /\ CountsAccurate /\ NoSleeperWithBacklog

-----------------------------------------------------------------------------
(* The wait list *)

\* A set of threads is finite.
LEMMA ThreadsFinite ==
    ASSUME NEW S \in SUBSET Thread
    PROVE  IsFiniteSet(S) /\ Cardinality(S) \in Nat
BY PoolAssumption, FS_Subset, FS_CardinalityType DEF PoolAssumption

\* Attaching a new node to the head of the list.
LEMMA ListAttach ==
    ASSUME NEW list \in Seq(Thread), Distinct(list),
           NEW t \in Thread, t \notin Nodes(list)
    PROVE  /\ <<t>> \o list \in Seq(Thread)
           /\ Nodes(<<t>> \o list) = Nodes(list) \cup {t}
           /\ Distinct(<<t>> \o list)
<1> DEFINE new == <<t>> \o list
<1>1. /\ new \in Seq(Thread)
      /\ Len(new) = Len(list) + 1
      /\ Len(list) \in Nat
      /\ new[1] = t
      /\ \A i \in 1 .. Len(list) : new[i + 1] = list[i]
  OBVIOUS
<1> HIDE DEF new
<1>2. \A k \in 1 .. Len(new) : k = 1 \/ (k - 1 \in 1 .. Len(list)
                                         /\ new[k] = list[k - 1])
  BY <1>1
<1>3. Nodes(new) = Nodes(list) \cup {t}
  <2>1. ASSUME NEW x \in Nodes(new) PROVE x \in Nodes(list) \cup {t}
    BY <1>1, <1>2 DEF Nodes
  <2>2. ASSUME NEW x \in Nodes(list) PROVE x \in Nodes(new)
    <3>1. PICK i \in 1 .. Len(list) : x = list[i]
      BY DEF Nodes
    <3>2. i + 1 \in 1 .. Len(new) /\ new[i + 1] = x
      BY <1>1, <3>1
    <3> QED BY <3>2 DEF Nodes
  <2>3. t \in Nodes(new)
    <3>1. 1 \in 1 .. Len(new)
      BY <1>1
    <3> QED BY <1>1, <3>1 DEF Nodes
  <2> QED BY <2>1, <2>2, <2>3
<1>4. Distinct(new)
  <2> SUFFICES ASSUME NEW i \in 1 .. Len(new), NEW k \in 1 .. Len(new),
                      new[i] = new[k]
               PROVE  i = k
    BY DEF Distinct
  <2>1. \A l \in 1 .. Len(list) : list[l] # t
    BY DEF Nodes
  <2>2. CASE i = 1 \/ k = 1
    BY <1>1, <1>2, <2>1, <2>2
  <2>3. CASE i # 1 /\ k # 1
    <3>1. /\ i - 1 \in 1 .. Len(list) /\ k - 1 \in 1 .. Len(list)
          /\ list[i - 1] = list[k - 1]
      BY <1>2, <2>3
    <3>2. i - 1 = k - 1
      BY <3>1 DEF Distinct
    <3> QED BY <3>2, <1>1
  <2> QED BY <2>2, <2>3
<1> QED BY <1>1, <1>3, <1>4 DEF new

\* Unlinking the i-th node of the list.
LEMMA ListUnlink ==
    ASSUME NEW list \in Seq(Thread), Distinct(list),
           NEW i \in 1 .. Len(list)
    PROVE  LET rest == SubSeq(list, 1, i - 1)
                       \o SubSeq(list, i + 1, Len(list))
           IN  /\ rest \in Seq(Thread)
               /\ Nodes(rest) = Nodes(list) \ {list[i]}
               /\ Distinct(rest)
<1> DEFINE s1 == SubSeq(list, 1, i - 1)
           s2 == SubSeq(list, i + 1, Len(list))
           rest == s1 \o s2
<1>1. Len(list) \in Nat /\ i \in Nat /\ 1 <= i /\ i <= Len(list)
  OBVIOUS
<1>2. /\ s1 \in Seq(Thread)
      /\ Len(s1) = i - 1
      /\ \A k \in 1 .. i - 1 : s1[k] = list[k]
  BY <1>1, SubSeqProperties
<1>3. /\ s2 \in Seq(Thread)
      /\ Len(s2) = Len(list) - i
      /\ \A k \in 1 .. Len(list) - i : s2[k] = list[i + k]
  BY <1>1, SubSeqProperties
<1> HIDE DEF s1, s2
<1>4. /\ rest \in Seq(Thread)
      /\ Len(rest) = Len(list) - 1
      /\ \A k \in 1 .. Len(list) - 1 :
            rest[k] = IF k < i THEN list[k] ELSE list[k + 1]
  <2>1. /\ rest \in Seq(Thread)
        /\ Len(rest) = Len(s1) + Len(s2)
        /\ \A k \in 1 .. Len(s1) + Len(s2) :
              rest[k] = IF k <= Len(s1) THEN s1[k] ELSE s2[k - Len(s1)]
    BY <1>2, <1>3, ConcatProperties
  <2>2. Len(s1) + Len(s2) = Len(list) - 1
    BY <1>1, <1>2, <1>3
  <2>3. ASSUME NEW k \in 1 .. Len(list) - 1
        PROVE  rest[k] = IF k < i THEN list[k] ELSE list[k + 1]
    <3> HIDE DEF rest
    <3>1. CASE k < i
      BY <1>1, <1>2, <2>1, <2>2, <3>1
    <3>2. CASE ~(k < i)
      <4>1. k - (i - 1) \in 1 .. Len(list) - i
        BY <1>1, <3>2
      <4>2. rest[k] = s2[k - (i - 1)]
        <5>1. k \in 1 .. Len(s1) + Len(s2)
          BY <2>2
        <5>2. rest[k] = IF k <= Len(s1) THEN s1[k] ELSE s2[k - Len(s1)]
          BY <2>1, <5>1
        <5>3. ~(k <= i - 1)
          BY <1>1, <3>2
        <5> QED BY <1>2, <5>2, <5>3
      <4>3. s2[k - (i - 1)] = list[i + (k - (i - 1))]
        BY <1>3, <4>1
      <4>4. i + (k - (i - 1)) = k + 1
        BY <1>1
      <4> QED BY <3>2, <4>2, <4>3, <4>4
    <3> QED BY <3>1, <3>2
  <2> QED BY <2>1, <2>2, <2>3
<1> HIDE DEF rest
<1>5. Distinct(rest)
  BY <1>1, <1>4 DEF Distinct
<1>6. Nodes(rest) = Nodes(list) \ {list[i]}
  <2>1. ASSUME NEW k \in 1 .. Len(rest)
        PROVE  rest[k] \in Nodes(list) \ {list[i]}
    BY <1>1, <1>4 DEF Nodes, Distinct
  <2>2. ASSUME NEW k \in 1 .. Len(list), k # i
        PROVE  list[k] \in Nodes(rest)
    <3>1. CASE k < i
      <4>1. k \in 1 .. Len(rest) /\ rest[k] = list[k]
        BY <1>1, <1>4, <3>1
      <4> QED BY <4>1 DEF Nodes
    <3>2. CASE k > i
      <4>1. /\ k - 1 \in 1 .. Len(rest)
            /\ rest[k - 1] = list[(k - 1) + 1]
            /\ (k - 1) + 1 = k
        BY <1>1, <1>4, <3>2
      <4> QED BY <4>1 DEF Nodes
    <3> QED BY <2>2, <1>1, <3>1, <3>2
  <2> QED BY <2>1, <2>2 DEF Nodes
<1> QED BY <1>4, <1>5, <1>6 DEF rest, s1, s2

\* The threads at the first n nodes of the list.
First(list, n) == {t \in Thread : \E i \in 1 .. Len(list) : i <= n /\ list[i] = t}

\* Taking the first n nodes off the list.
LEMMA ListPop ==
    ASSUME NEW list \in Seq(Thread), Distinct(list), NEW n \in Nat
    PROVE  LET rest == SubSeq(list, n + 1, Len(list))
           IN  /\ rest \in Seq(Thread)
               /\ Nodes(rest) = Nodes(list) \ First(list, n)
               /\ Distinct(rest)
               /\ rest # <<>> => Cardinality(First(list, n)) = n
<1> DEFINE rest == SubSeq(list, n + 1, Len(list))
<1>1. Len(list) \in Nat
  OBVIOUS
<1>2. /\ rest \in Seq(Thread)
      /\ Len(rest) = IF n + 1 <= Len(list) THEN Len(list) - n ELSE 0
      /\ \A k \in 1 .. Len(list) - n : rest[k] = list[n + k]
  <2>1. \A k \in n + 1 .. Len(list) : list[k] \in Thread
    BY <1>1
  <2>2. n + 1 \in Int /\ Len(list) \in Int
    BY <1>1
  <2>3. /\ rest \in Seq(Thread)
        /\ Len(rest) = IF n + 1 <= Len(list) THEN Len(list) - (n + 1) + 1 ELSE 0
        /\ \A k \in 1 .. Len(list) - (n + 1) + 1 : rest[k] = list[(n + 1) + k - 1]
    BY <2>1, <2>2, SubSeqProperties
  <2>4. Len(list) - (n + 1) + 1 = Len(list) - n
    BY <1>1
  <2>5. \A k \in 1 .. Len(list) - n : (n + 1) + k - 1 = n + k
    BY <1>1
  <2> HIDE DEF rest
  <2> QED BY <2>3, <2>4, <2>5
<1> HIDE DEF rest
<1>3. Distinct(rest)
  BY <1>1, <1>2 DEF Distinct
<1>4. Nodes(rest) = Nodes(list) \ First(list, n)
  <2>1. ASSUME NEW k \in 1 .. Len(rest)
        PROVE  rest[k] \in Nodes(list) \ First(list, n)
    <3>1. n + k \in 1 .. Len(list) /\ rest[k] = list[n + k] /\ ~(n + k <= n)
      BY <1>1, <1>2
    <3> QED BY <3>1 DEF Nodes, First, Distinct
  <2>2. ASSUME NEW k \in 1 .. Len(list), list[k] \notin First(list, n)
        PROVE  list[k] \in Nodes(rest)
    <3>1. k > n
      BY <1>1, <2>2 DEF First
    <3>2. k - n \in 1 .. Len(rest) /\ rest[k - n] = list[n + (k - n)]
      BY <1>1, <1>2, <3>1
    <3>3. n + (k - n) = k
      BY <1>1
    <3> QED BY <3>2, <3>3 DEF Nodes
  <2> QED BY <2>1, <2>2 DEF Nodes
<1>5. ASSUME rest # <<>> PROVE Cardinality(First(list, n)) = n
  <2> DEFINE f == [k \in 1 .. n |-> list[k]]
  <2>1. n < Len(list)
    BY <1>1, <1>2, <1>5, EmptySeq
  <2>2. f \in [1 .. n -> First(list, n)]
    BY <1>1, <2>1 DEF First
  <2>3. \A x \in First(list, n) : \E k \in 1 .. n : f[k] = x
    BY <1>1, <2>1 DEF First
  <2>4. \A k, l \in 1 .. n : f[k] = f[l] => k = l
    BY <1>1, <2>1 DEF Distinct
  <2> HIDE DEF f
  <2>5. f \in Bijection(1 .. n, First(list, n))
    BY <2>2, <2>3, <2>4 DEF Bijection, Injection, Surjection, IsInjective
  <2>6. ExistsBijection(1 .. n, First(list, n))
    BY <2>5 DEF ExistsBijection
  <2>7. IsFiniteSet(1 .. n) /\ Cardinality(1 .. n) = n
    BY FS_Interval
  <2> QED BY <2>6, <2>7, FS_Bijection
<1> QED BY <1>2, <1>3, <1>4, <1>5 DEF rest

-----------------------------------------------------------------------------
(* Workers *)

\* The pass of workerThread that every worker ends with, whichever way it got
\* there: thread t holds the mutex, its node is off the list, and active
\* counts the other threads that run a job.
LEMMA LookForJobInv ==
    ASSUME PoolInv,
           NEW t \in Thread, worker[t] # "none",
           NEW list \in Seq(Thread), Distinct(list),
           Nodes(list) = Asleep \ {t},
           list # <<>> => Len(d_queue) <= Cardinality(Signaled),
           NEW active, active = Cardinality(Active \ {t}),
           LookForJob(t, active, list)
    PROVE  PoolInv'
<1>1. /\ d_queue \in Seq(Job \cup {Null})
      /\ worker \in [Thread -> WorkerState]
      /\ hasJob \in [Thread -> BOOLEAN]
      /\ status \in [Job -> Status]
      /\ functor \in [Thread -> Job \cup {Null}]
  BY DEF PoolInv, TypeOK
<1>2. /\ active \in Nat
      /\ d_threadCount = Cardinality(Alive)
      /\ d_threadCount \in Nat /\ d_threadCount <= MaxThreads
      /\ MaxThreads \in Nat
  BY ThreadsFinite, PoolAssumption
     DEF PoolInv, TypeOK, CountsAccurate, Active, PoolAssumption
<1>3. CASE Sleep(t, active, list)
  <2>1. /\ worker' = [worker EXCEPT ![t] = "wait"]
        /\ hasJob' = [hasJob EXCEPT ![t] = FALSE]
        /\ d_waitHead' = <<t>> \o list
        /\ d_numActiveThreads' = active
        /\ d_queue = <<>> /\ d_queue' = d_queue
        /\ d_threadCount' = d_threadCount
    BY <1>3 DEF Sleep
  <2>2. /\ Asleep' = (Asleep \ {t}) \cup {t}
        /\ Active' = Active \ {t}
        /\ Alive' = Alive
    BY <1>1, <2>1 DEF Asleep, Active, Alive, WorkerState
  <2>3. /\ d_waitHead' \in Seq(Thread)
        /\ Nodes(d_waitHead') = Asleep'
        /\ Distinct(d_waitHead')
    BY <2>1, <2>2, ListAttach
  <2>4. TypeOK'
    BY <1>2, <1>3, <2>3, PoolAssumption
       DEF PoolInv, TypeOK, Sleep, BroadcastIf, WorkerState, jobVars,
           PoolAssumption
  <2>5. WaitListExact'
    BY <2>3 DEF WaitListExact
  <2>6. CountsAccurate'
    BY <1>2, <2>1, <2>2 DEF CountsAccurate
  <2>7. NoSleeperWithBacklog'
    <3>1. Cardinality(Signaled') \in Nat
      BY ThreadsFinite DEF Signaled
    <3>2. Len(d_queue') = 0
      BY <2>1
    <3> QED BY <3>1, <3>2 DEF NoSleeperWithBacklog
  <2> QED BY <2>4, <2>5, <2>6, <2>7 DEF PoolInv
<1>4. CASE TakeJob(t, active, list)
  <2>1. /\ d_queue # <<>>
        /\ d_queue' = Tail(d_queue)
        /\ d_waitHead' = list
        /\ hasJob' = [hasJob EXCEPT ![t] = FALSE]
        /\ \/ /\ worker' = [worker EXCEPT ![t] = "none"]
              /\ d_threadCount' = d_threadCount - 1
              /\ d_numActiveThreads' = active
           \/ /\ worker' = [worker EXCEPT ![t] = "run"]
              /\ d_threadCount' = d_threadCount
              /\ d_numActiveThreads' = active + 1
    BY <1>4 DEF TakeJob, Leave
  <2>2. /\ Head(d_queue) \in Job \cup {Null}
        /\ d_queue' \in Seq(Job \cup {Null})
        /\ Len(d_queue') = Len(d_queue) - 1
        /\ Len(d_queue) \in Nat
    BY <1>1, <2>1, HeadTailProperties
  <2>3. Asleep' = Asleep \ {t} /\ Signaled' = Signaled \ {t}
    BY <1>1, <2>1 DEF Asleep, Signaled, WorkerState
  <2>4. WaitListExact'
    BY <2>1, <2>3 DEF WaitListExact
  <2>5. CountsAccurate'
    <3>1. CASE worker' = [worker EXCEPT ![t] = "none"]
      <4>1. d_threadCount' = d_threadCount - 1 /\ d_numActiveThreads' = active
        BY <1>1, <2>1, <3>1
      <4>2. Alive' = Alive \ {t} /\ t \in Alive /\ Active' = Active \ {t}
        BY <1>1, <3>1 DEF Alive, Active
      <4>3. Cardinality(Alive \ {t}) = Cardinality(Alive) - 1
        BY <4>2, ThreadsFinite, FS_RemoveElement DEF Alive
      <4> QED BY <1>2, <4>1, <4>2, <4>3 DEF CountsAccurate
    <3>2. CASE worker' = [worker EXCEPT ![t] = "run"]
      <4>1. /\ d_threadCount' = d_threadCount
            /\ d_numActiveThreads' = active + 1
        BY <1>1, <2>1, <3>2
      <4>2. Alive' = Alive /\ Active' = (Active \ {t}) \cup {t}
        BY <1>1, <3>2 DEF Alive, Active
      <4>3. Cardinality((Active \ {t}) \cup {t}) = active + 1
        BY ThreadsFinite, FS_AddElement DEF Active
      <4> QED BY <1>2, <4>1, <4>2, <4>3 DEF CountsAccurate
    <3> QED BY <2>1, <3>1, <3>2
  <2>6. NoSleeperWithBacklog'
    <3>1. /\ Cardinality(Signaled) \in Nat
          /\ Cardinality(Signaled \ {t}) \in Nat
          /\ Cardinality(Signaled \ {t}) >= Cardinality(Signaled) - 1
      <4>1. Signaled \in SUBSET Thread
        BY DEF Signaled
      <4>2. /\ IsFiniteSet(Signaled)
            /\ Cardinality(Signaled) \in Nat
            /\ Cardinality(Signaled \ {t}) \in Nat
        BY <4>1, ThreadsFinite
      <4>3. Cardinality(Signaled \ {t}) = IF t \in Signaled
               THEN Cardinality(Signaled) - 1 ELSE Cardinality(Signaled)
        BY <4>2, FS_RemoveElement
      <4> QED BY <4>2, <4>3
    <3>2. d_waitHead' # <<>> => Len(d_queue) <= Cardinality(Signaled)
      BY <2>1
    <3>3. /\ Len(d_queue') = Len(d_queue) - 1 /\ Len(d_queue) \in Nat
          /\ Cardinality(Signaled') = Cardinality(Signaled \ {t})
      BY <2>2, <2>3
    <3> QED BY <3>1, <3>2, <3>3 DEF NoSleeperWithBacklog
  <2>7. TypeOK'
    <3>1. /\ d_threadCount' \in Nat /\ d_numActiveThreads' \in Nat
      BY <2>5, ThreadsFinite DEF CountsAccurate, Alive, Active
    <3>2. /\ worker' \in [Thread -> WorkerState]
          /\ hasJob' \in [Thread -> BOOLEAN]
      BY <1>1, <2>1 DEF WorkerState
    <3>3. /\ timed' \in [Thread -> BOOLEAN]
          /\ functor' \in [Thread -> Job \cup {Null}]
          /\ status' \in [Job -> Status]
          /\ d_enabled' \in BOOLEAN
          /\ woken' \in [Caller -> BOOLEAN]
          /\ caller' = caller /\ step' = step /\ reply' = reply
            /\ script' = script /\ d_createFailures' = d_createFailures
      <4>1. /\ d_enabled' = d_enabled
            /\ caller' = caller /\ step' = step /\ reply' = reply
            /\ script' = script /\ d_createFailures' = d_createFailures
            /\ timed' = [timed EXCEPT ![t] = FALSE]
            /\ \/ functor' = functor
               \/ functor' = [functor EXCEPT ![t] = Head(d_queue)]
            /\ \/ status' = status
               \/ status' = [status EXCEPT ![Head(d_queue)] = "running"]
        BY <1>4 DEF TakeJob, Leave
      <4>2. \/ woken' = woken
            \/ woken' = [c \in Caller |->
                           woken[c] \/ (d_threadCount = 1 /\ caller[c] # "idle")]
        BY <1>4 DEF TakeJob, BroadcastIf
      <4>3. woken \in [Caller -> BOOLEAN] /\ timed \in [Thread -> BOOLEAN]
            /\ d_enabled \in BOOLEAN
        BY DEF PoolInv, TypeOK
      <4>4. timed' \in [Thread -> BOOLEAN] /\ d_enabled' \in BOOLEAN
        BY <4>1, <4>3
      <4>5. functor' \in [Thread -> Job \cup {Null}]
        BY <1>1, <2>2, <4>1
      <4>6. status' \in [Job -> Status]
        BY <1>1, <4>1 DEF Status
      <4>7. woken' \in [Caller -> BOOLEAN]
        BY <4>2, <4>3
      <4> QED BY <4>1, <4>4, <4>5, <4>6, <4>7
    <3> QED BY <2>1, <2>2, <3>1, <3>2, <3>3 DEF PoolInv, TypeOK
  <2> QED BY <2>4, <2>5, <2>6, <2>7 DEF PoolInv
<1> QED BY <1>3, <1>4 DEF LookForJob

\* Every step of a worker preserves the invariant.
LEMMA WorkerInv ==
    ASSUME PoolInv, NEW t \in Thread, workerThread(t) \/ TimeOut(t)
    PROVE  PoolInv'
<1>1. /\ d_waitHead \in Seq(Thread) /\ Distinct(d_waitHead)
      /\ Nodes(d_waitHead) = Asleep
      /\ d_waitHead # <<>> => Len(d_queue) <= Cardinality(Signaled)
      /\ d_numActiveThreads = Cardinality(Active)
      /\ d_threadCount = Cardinality(Alive)
  BY DEF PoolInv, TypeOK, WaitListExact, CountsAccurate, NoSleeperWithBacklog
<1>2. CASE StartWorker(t)
  <2>1. /\ worker[t] # "none"
        /\ Asleep \ {t} = Asleep /\ Active \ {t} = Active
        /\ LookForJob(t, d_numActiveThreads, d_waitHead)
    BY <1>2 DEF StartWorker, Asleep, Active
  <2> QED BY <1>1, <2>1, LookForJobInv
<1>3. CASE WakeUp(t)
  <2>1. /\ worker[t] # "none"
        /\ Asleep \ {t} = Asleep /\ Active \ {t} = Active
        /\ LookForJob(t, d_numActiveThreads, d_waitHead)
    BY <1>3 DEF WakeUp, Asleep, Active
  <2> QED BY <1>1, <2>1, LookForJobInv
<1>4. CASE FinishJob(t)
  <2>1. /\ worker[t] # "none"
        /\ Asleep \ {t} = Asleep /\ t \in Active
        /\ LookForJob(t, d_numActiveThreads - 1, d_waitHead)
    BY <1>4 DEF FinishJob, Asleep, Active
  <2>2. Cardinality(Active \ {t}) = d_numActiveThreads - 1
    BY <1>1, <2>1, ThreadsFinite, FS_RemoveElement DEF Active
  <2> QED BY <1>1, <2>1, <2>2, LookForJobInv
<1>5. CASE RunJob(t)
  <2>1. worker \in [Thread -> WorkerState]
    BY DEF PoolInv, TypeOK
  <2>2. /\ Asleep' = Asleep /\ Signaled' = Signaled
        /\ Active' = Active /\ Alive' = Alive
    BY <1>5, <2>1 DEF RunJob, Asleep, Signaled, Active, Alive
  <2>3. TypeOK'
    BY <1>5 DEF PoolInv, TypeOK, RunJob, poolVars, callerVars, WorkerState,
                Status
  <2> QED BY <1>5, <2>2, <2>3
          DEF PoolInv, RunJob, poolVars, WaitListExact, CountsAccurate,
              NoSleeperWithBacklog
<1>6. CASE TimeOut(t)
  <2>1. PICK i \in 1 .. Len(d_waitHead) :
           LET list == SubSeq(d_waitHead, 1, i - 1)
                         \o SubSeq(d_waitHead, i + 1, Len(d_waitHead))
           IN  /\ d_waitHead[i] = t
               /\ \/ /\ d_threadCount > MinThreads
                     /\ Leave(t, list)
                     /\ UNCHANGED <<d_queue, d_numActiveThreads,
                                    d_createFailures, d_enabled, functor,
                                    callerVars, jobVars>>
                  \/ LookForJob(t, d_numActiveThreads, list)
    BY <1>6 DEF TimeOut
  <2> DEFINE list == SubSeq(d_waitHead, 1, i - 1)
                       \o SubSeq(d_waitHead, i + 1, Len(d_waitHead))
  <2>2. /\ list \in Seq(Thread) /\ Distinct(list)
        /\ Nodes(list) = Asleep \ {t}
    BY <1>1, <2>1, ListUnlink
  <2>3. /\ worker[t] = "wait" /\ ~hasJob[t]
        /\ Active \ {t} = Active
        /\ d_waitHead # <<>>
    BY <1>1, <1>6 DEF TimeOut, Active, Asleep, Nodes
  <2>4. CASE LookForJob(t, d_numActiveThreads, list)
    <3> HIDE DEF list
    <3> QED BY <1>1, <2>2, <2>3, <2>4, LookForJobInv
  <2>5. CASE /\ Leave(t, list)
             /\ UNCHANGED <<d_queue, d_numActiveThreads, d_createFailures,
                            d_enabled, functor, callerVars, jobVars>>
    <3> HIDE DEF list
    <3>1. worker \in [Thread -> WorkerState] /\ hasJob \in [Thread -> BOOLEAN]
      BY DEF PoolInv, TypeOK
    <3>2. /\ Asleep' = Asleep \ {t} /\ Signaled' = Signaled
          /\ Active' = Active /\ Alive' = Alive \ {t} /\ t \in Alive
      BY <2>3, <2>5, <3>1 DEF Leave, Asleep, Signaled, Active, Alive
    <3>3. Cardinality(Alive \ {t}) = Cardinality(Alive) - 1
      BY <3>2, ThreadsFinite, FS_RemoveElement DEF Alive
    <3>4. CountsAccurate'
      <4>1. /\ d_threadCount' = d_threadCount - 1
            /\ d_numActiveThreads' = d_numActiveThreads
        BY <2>5 DEF Leave
      <4>2. /\ d_threadCount \in Nat /\ MaxThreads \in Nat
            /\ d_threadCount <= MaxThreads
        BY PoolAssumption DEF PoolInv, TypeOK, CountsAccurate, PoolAssumption
      <4> QED BY <1>1, <3>2, <3>3, <4>1, <4>2 DEF CountsAccurate
    <3>5. WaitListExact' /\ NoSleeperWithBacklog'
      BY <1>1, <2>2, <2>3, <2>5, <3>2
         DEF WaitListExact, NoSleeperWithBacklog, Leave
    <3>6. TypeOK'
      <4>1. d_threadCount' \in Nat
        BY <3>4, ThreadsFinite DEF CountsAccurate, Alive
      <4> QED BY <2>2, <2>5, <4>1
              DEF PoolInv, TypeOK, Leave, WorkerState, callerVars, jobVars
    <3> QED BY <3>4, <3>5, <3>6 DEF PoolInv
  <2> QED BY <2>1, <2>4, <2>5
<1> QED BY <1>2, <1>3, <1>4, <1>5, <1>6 DEF workerThread

-----------------------------------------------------------------------------
(* Clients *)

\* Jobs, or nulls, are added to the queue (or to the queue shutdown emptied),
\* and threads may be created.
LEMMA EnqueueInv ==
    ASSUME PoolInv,
           NEW jobs \in Seq(Job \cup {Null}),
           NEW queue \in Seq(Job \cup {Null}), Len(queue) <= Len(d_queue),
           NEW S \in SUBSET Thread, \A t \in S : worker[t] = "none",
           worker' = [t \in Thread |-> IF t \in S THEN "start" ELSE worker[t]],
           doEnqueueJobs(queue, jobs)
    PROVE  /\ d_queue' \in Seq(Job \cup {Null})
           /\ d_waitHead' \in Seq(Thread)
           /\ hasJob' \in [Thread -> BOOLEAN]
           /\ worker' \in [Thread -> WorkerState]
           /\ WaitListExact'
           /\ NoSleeperWithBacklog'
           /\ Active' = Active
           /\ Alive' = Alive \cup S /\ Alive \cap S = {}
<1> DEFINE n == Len(jobs)
<1>1. /\ n \in Nat /\ Len(queue) \in Nat /\ Len(d_queue) \in Nat
      /\ d_waitHead \in Seq(Thread) /\ Distinct(d_waitHead)
      /\ Nodes(d_waitHead) = Asleep
      /\ worker \in [Thread -> WorkerState]
      /\ hasJob \in [Thread -> BOOLEAN]
  BY DEF PoolInv, TypeOK, WaitListExact
<1>2. /\ d_queue' = queue \o jobs
      /\ d_waitHead' = SubSeq(d_waitHead, n + 1, Len(d_waitHead))
      /\ hasJob' = [t \in Thread |-> hasJob[t] \/ t \in First(d_waitHead, n)]
  <2>1. \A t \in Thread :
           t \in First(d_waitHead, n)
           <=> \E i \in 1 .. Len(d_waitHead) : i <= n /\ d_waitHead[i] = t
    BY DEF First
  <2> QED BY <2>1 DEF doEnqueueJobs
<1>3. d_queue' \in Seq(Job \cup {Null}) /\ Len(d_queue') = Len(queue) + n
  BY <1>2, ConcatProperties
<1> HIDE DEF n
<1>4. /\ d_waitHead' \in Seq(Thread)
      /\ Nodes(d_waitHead') = Asleep \ First(d_waitHead, n)
      /\ Distinct(d_waitHead')
      /\ d_waitHead' # <<>> => Cardinality(First(d_waitHead, n)) = n
  BY <1>1, <1>2, ListPop
<1>5. First(d_waitHead, n) \subseteq Asleep
  BY <1>1 DEF First, Nodes
<1>6. /\ Asleep' = Asleep \ First(d_waitHead, n)
      /\ Signaled' = Signaled \cup First(d_waitHead, n)
      /\ Signaled \cap First(d_waitHead, n) = {}
  BY <1>1, <1>2, <1>5 DEF Asleep, Signaled
<1>7. d_waitHead' # <<>> => d_waitHead # <<>>
  <2>1. SUFFICES ASSUME d_waitHead = <<>> PROVE d_waitHead' = <<>>
    OBVIOUS
  <2>2. Nodes(<<>>) = {}
    BY DEF Nodes
  <2>3. Nodes(d_waitHead') = {}
    BY <1>1, <1>4, <2>1, <2>2
  <2>4. ASSUME NEW list \in Seq(Thread), Nodes(list) = {} PROVE list = <<>>
    <3>1. 1 .. Len(list) = {}
      BY <2>4 DEF Nodes
    <3>2. list # <<>> => Len(list) \in Nat \ {0}
      BY EmptySeq
    <3>3. \A m \in Nat \ {0} : 1 \in 1 .. m
      OBVIOUS
    <3> QED BY <3>1, <3>2, <3>3
  <2> QED BY <1>4, <2>3, <2>4
<1>8. NoSleeperWithBacklog'
  <2> SUFFICES ASSUME d_waitHead' # <<>>
               PROVE  Len(d_queue') <= Cardinality(Signaled')
    BY DEF NoSleeperWithBacklog
  <2>1. Len(d_queue) <= Cardinality(Signaled)
    BY <1>7 DEF PoolInv, NoSleeperWithBacklog
  <2>2. Signaled \in SUBSET Thread /\ First(d_waitHead, n) \in SUBSET Thread
    BY DEF Signaled, First
  <2>3. /\ IsFiniteSet(Signaled) /\ IsFiniteSet(First(d_waitHead, n))
        /\ Cardinality(Signaled) \in Nat
    BY <2>2, ThreadsFinite
  <2>4. Cardinality(Signaled') = Cardinality(Signaled) + n - Cardinality({})
    BY <1>4, <1>6, <2>3, FS_Union
  <2> QED BY <1>1, <1>3, <2>1, <2>3, <2>4, FS_EmptySet
<1>9. /\ worker' \in [Thread -> WorkerState]
      /\ Active' = Active
      /\ Alive' = Alive \cup S /\ Alive \cap S = {}
  BY <1>1 DEF WorkerState, Active, Alive
<1> QED BY <1>1, <1>2, <1>3, <1>4, <1>6, <1>8, <1>9 DEF WaitListExact

\* Creating the threads of S keeps the counters exact.
LEMMA StartThreadsCount ==
    ASSUME PoolInv, NEW S \in SUBSET Thread,
           Alive \cap S = {}, Alive' = Alive \cup S,
           d_threadCount' = d_threadCount + Cardinality(S),
           d_threadCount + Cardinality(S) <= MaxThreads,
           Active' = Active, d_numActiveThreads' = d_numActiveThreads
    PROVE  CountsAccurate' /\ d_threadCount' \in Nat
<1>1. Alive \in SUBSET Thread
  BY DEF Alive
<1>2. /\ IsFiniteSet(Alive) /\ Cardinality(Alive) \in Nat
      /\ IsFiniteSet(S) /\ Cardinality(S) \in Nat
  BY <1>1, ThreadsFinite
<1>3. Cardinality(Alive') = Cardinality(Alive) + Cardinality(S) - Cardinality({})
  BY <1>2, FS_Union
<1>4. Cardinality({}) = 0
  BY FS_EmptySet
<1> QED BY <1>2, <1>3, <1>4 DEF PoolInv, CountsAccurate

\* An operation enqueue names a job.
LEMMA EnqueuedIsJob ==
    ASSUME TypeOK, NEW c \in Caller, Calling(c, "enqueue")
    PROVE  NextCall(c).job \in Job
<1>1. script[c] \in Seq(Operation) /\ step[c] \in Nat
      /\ step[c] < Len(script[c])
  BY PoolAssumption DEF PoolAssumption, TypeOK, Calling
<1>2. step[c] + 1 \in 1 .. Len(script[c])
  BY <1>1
<1>3. NextCall(c) \in Operation
  BY <1>1, <1>2, ElementOfSeq DEF NextCall
<1>4. NextCall(c).op = "enqueue"
  BY DEF Calling
<1> QED BY <1>3, <1>4 DEF Operation, Enqueue, Op

\* The bookkeeping of the clients keeps its types.
LEMMA CallerTypes ==
    ASSUME TypeOK, NEW c \in Caller,
           \/ Return(c)
           \/ \E s \in CallerState : WaitIn(c, s)
    PROVE  /\ caller' \in [Caller -> CallerState]
           /\ woken' \in [Caller -> BOOLEAN]
           /\ step' \in [Caller -> Nat] /\ script' \in Scripts
<1>1. PICK s \in CallerState : /\ caller' = [caller EXCEPT ![c] = s]
                               /\ woken' = [woken EXCEPT ![c] = FALSE]
                               /\ script' = script
                               /\ \/ step' = [step EXCEPT ![c] = @ + 1]
                                  \/ step' = step
  <2>1. CASE Return(c)
    BY <2>1 DEF Return, CallerState
  <2>2. CASE \E s \in CallerState : WaitIn(c, s)
    BY <2>2 DEF WaitIn
  <2> QED BY <2>1, <2>2
<1>2. /\ caller \in [Caller -> CallerState]
      /\ woken \in [Caller -> BOOLEAN]
      /\ step \in [Caller -> Nat] /\ script \in Scripts
  BY DEF TypeOK
<1>3. caller' \in [Caller -> CallerState] /\ woken' \in [Caller -> BOOLEAN]
  BY <1>1, <1>2
<1>4. step' \in [Caller -> Nat] /\ script' \in Scripts
  BY <1>1, <1>2
<1> QED BY <1>3, <1>4

\* A step that leaves the threads alone, and at most empties the queue.
LEMMA IdleInv ==
    ASSUME PoolInv,
           UNCHANGED <<worker, hasJob, d_waitHead, d_threadCount,
                       d_numActiveThreads>>,
           d_queue' = d_queue \/ d_queue' = <<>>
    PROVE  WaitListExact' /\ CountsAccurate' /\ NoSleeperWithBacklog'
<1>1. /\ Asleep' = Asleep /\ Signaled' = Signaled
      /\ Active' = Active /\ Alive' = Alive
  BY DEF Asleep, Signaled, Active, Alive
<1>2. Cardinality(Signaled) \in Nat
  BY ThreadsFinite DEF Signaled
<1>3. Len(<<>>) = 0
  OBVIOUS
<1> QED BY <1>1, <1>2, <1>3
        DEF PoolInv, WaitListExact, CountsAccurate, NoSleeperWithBacklog

\* Null jobs may be queued.
LEMMA NullsAreJobs ==
    ASSUME NEW n \in Nat
    PROVE  Nulls(n) \in Seq(Job \cup {Null})
BY DEF Nulls

\* A call that adds jobs and creates no thread keeps the invariant.
LEMMA NullsInv ==
    ASSUME PoolInv, NEW queue \in Seq(Job \cup {Null}),
           Len(queue) <= Len(d_queue),
           doEnqueueJobs(queue, Nulls(d_threadCount)),
           UNCHANGED <<worker, d_threadCount, d_numActiveThreads>>
    PROVE  /\ d_queue' \in Seq(Job \cup {Null})
           /\ d_waitHead' \in Seq(Thread)
           /\ hasJob' \in [Thread -> BOOLEAN]
           /\ WaitListExact' /\ CountsAccurate' /\ NoSleeperWithBacklog'
<1>1. /\ Nulls(d_threadCount) \in Seq(Job \cup {Null})
      /\ worker' = [t \in Thread |-> IF t \in {} THEN "start" ELSE worker[t]]
  BY NullsAreJobs DEF PoolInv, TypeOK
<1>2. /\ {} \in SUBSET Thread
      /\ \A t \in {} : worker[t] = "none"
  OBVIOUS
<1>3. Active' = Active /\ Alive' = Alive
  BY DEF Active, Alive
<1>4. CountsAccurate'
  BY <1>3 DEF PoolInv, CountsAccurate
<1> QED BY <1>1, <1>2, <1>4, EnqueueInv

\* enqueueJob preserves the invariant.
LEMMA EnqueueJobInv ==
    ASSUME PoolInv, NEW c \in Caller, enqueueJob(c)
    PROVE  PoolInv'
<1> DEFINE j == NextCall(c).job
<1>1. j \in Job /\ Return(c)
  BY EnqueuedIsJob DEF PoolInv, enqueueJob
<1> HIDE DEF j
<1>2. /\ caller' \in [Caller -> CallerState]
      /\ woken' \in [Caller -> BOOLEAN]
      /\ step' \in [Caller -> Nat] /\ script' \in Scripts
  BY <1>1, CallerTypes DEF PoolInv
<1>3. CASE /\ status' = [status EXCEPT ![j] = "refused"]
           /\ reply' = [reply EXCEPT ![j] = "error"]
           /\ UNCHANGED <<poolVars, workerVars>>
  <2>1. TypeOK'
    BY <1>2, <1>3 DEF PoolInv, TypeOK, Status, poolVars, workerVars
  <2> QED BY <1>3, <2>1, IdleInv DEF PoolInv, poolVars, workerVars
<1>4. CASE /\ doEnqueueJobs(d_queue, <<j>>)
           /\ StartThreadIfNeeded(j)
           /\ status' = [status EXCEPT ![j] = "queued"]
           /\ UNCHANGED <<d_numActiveThreads, d_enabled, timed, functor>>
  <2>1. PICK S \in SUBSET Thread :
           /\ \A t \in S : worker[t] = "none"
           /\ worker' = [t \in Thread |-> IF t \in S THEN "start" ELSE worker[t]]
           /\ d_threadCount' = d_threadCount + Cardinality(S)
           /\ d_threadCount + Cardinality(S) <= MaxThreads
    <3>0. /\ d_threadCount \in Nat /\ MaxThreads \in Nat
          /\ d_threadCount <= MaxThreads
          /\ worker \in [Thread -> WorkerState]
      BY PoolAssumption DEF PoolInv, TypeOK, CountsAccurate, PoolAssumption
    <3>1. CASE UNCHANGED <<d_threadCount, worker>>
      <4>1. /\ Cardinality({}) = 0 /\ {} \in SUBSET Thread
            /\ worker = [t \in Thread |-> IF t \in {} THEN "start" ELSE worker[t]]
        BY <3>0, FS_EmptySet
      <4> QED BY <3>0, <3>1, <4>1
    <3>2. CASE /\ d_threadCount < MaxThreads
               /\ \E t \in Thread : startNewThreads({t})
      <4>1. PICK t \in Thread : startNewThreads({t})
        BY <3>2
      <4>2. Cardinality({t}) = 1
        BY FS_Singleton
      <4> QED BY <3>0, <3>2, <4>1, <4>2 DEF startNewThreads
    <3> QED BY <1>4, <3>1, <3>2 DEF StartThreadIfNeeded
  <2>2. <<j>> \in Seq(Job \cup {Null}) /\ d_queue \in Seq(Job \cup {Null})
        /\ Len(d_queue) <= Len(d_queue)
    BY <1>1 DEF PoolInv, TypeOK
  <2>3. /\ d_queue' \in Seq(Job \cup {Null})
        /\ d_waitHead' \in Seq(Thread)
        /\ hasJob' \in [Thread -> BOOLEAN]
        /\ worker' \in [Thread -> WorkerState]
        /\ WaitListExact'
        /\ NoSleeperWithBacklog'
        /\ Active' = Active
        /\ Alive' = Alive \cup S /\ Alive \cap S = {}
    BY <1>4, <2>1, <2>2, EnqueueInv
  <2>4. CountsAccurate' /\ d_threadCount' \in Nat
    BY <1>4, <2>1, <2>3, StartThreadsCount
  <2>5. reply' \in [Job -> {"none", "ok", "error"}]
    BY <1>1, <1>4 DEF PoolInv, TypeOK, StartThreadIfNeeded
  <2>6. status' \in [Job -> Status]
    BY <1>1, <1>4 DEF PoolInv, TypeOK, Status
  <2>7. d_createFailures' \in Nat
    BY <1>4 DEF PoolInv, TypeOK, StartThreadIfNeeded
  <2>8. TypeOK'
    BY <1>2, <1>4, <2>3, <2>4, <2>5, <2>6, <2>7 DEF PoolInv, TypeOK
  <2> QED BY <2>3, <2>4, <2>8 DEF PoolInv
<1> QED BY <1>3, <1>4 DEF enqueueJob, j

\* start preserves the invariant, whichever threads it could create.
LEMMA StartInv ==
    ASSUME PoolInv, NEW c \in Caller, start(c)
    PROVE  PoolInv'
<1> DEFINE missing == IF d_threadCount < MinThreads
                      THEN MinThreads - d_threadCount ELSE 0
<1>1. PICK S \in SUBSET Thread :
         /\ startNewThreads(S)
         /\ Cardinality(S) = missing \/ Cardinality(S) < missing
         /\ Return(c) \/ WaitIn(c, "start_failed")
  BY DEF start
<1>2. /\ d_enabled' = TRUE
      /\ UNCHANGED <<d_queue, d_numActiveThreads, d_waitHead, hasJob, timed,
                     functor, jobVars>>
      /\ \/ d_createFailures' = d_createFailures
         \/ d_createFailures' = d_createFailures + 1
  BY DEF start
<1>3. /\ \A t \in S : worker[t] = "none"
      /\ worker' = [t \in Thread |-> IF t \in S THEN "start" ELSE worker[t]]
      /\ d_threadCount' = d_threadCount + Cardinality(S)
  BY <1>1 DEF startNewThreads
<1>4. /\ worker \in [Thread -> WorkerState]
      /\ d_threadCount \in Nat /\ d_threadCount <= MaxThreads
      /\ MinThreads \in Nat /\ MaxThreads \in Nat /\ MinThreads <= MaxThreads
      /\ Cardinality(S) \in Nat
  BY ThreadsFinite, PoolAssumption
     DEF PoolInv, TypeOK, CountsAccurate, PoolAssumption
<1>5. d_threadCount + Cardinality(S) <= MaxThreads
  BY <1>1, <1>4
<1>6. /\ worker' \in [Thread -> WorkerState]
      /\ Asleep' = Asleep /\ Signaled' = Signaled /\ Active' = Active
      /\ Alive' = Alive \cup S /\ Alive \cap S = {}
  BY <1>2, <1>3, <1>4 DEF WorkerState, Asleep, Signaled, Active, Alive
<1>7. CountsAccurate' /\ d_threadCount' \in Nat
  BY <1>2, <1>3, <1>5, <1>6, StartThreadsCount
<1>8. WaitListExact' /\ NoSleeperWithBacklog'
  BY <1>2, <1>6 DEF PoolInv, WaitListExact, NoSleeperWithBacklog
<1>9. /\ caller' \in [Caller -> CallerState]
      /\ woken' \in [Caller -> BOOLEAN]
      /\ step' \in [Caller -> Nat] /\ script' \in Scripts
  BY <1>1, CallerTypes DEF PoolInv, CallerState
<1>10. TypeOK'
  BY <1>2, <1>6, <1>7, <1>9 DEF PoolInv, TypeOK, jobVars
<1> QED BY <1>7, <1>8, <1>10 DEF PoolInv

\* Every step of a client preserves the invariant.
LEMMA CallerInv ==
    ASSUME PoolInv, NEW c \in Caller,
           call(c) \/ Continue(c) \/ SpuriousWakeup(c)
    PROVE  PoolInv'
<1>1. CASE enqueueJob(c)
  BY <1>1, EnqueueJobInv
<1>2. CASE start(c)
  BY <1>2, StartInv
<1>3. CASE \/ drain(c) \/ drainAgain(c) \/ stopAgain(c) \/ join(c)
           \/ SpuriousWakeup(c)
  <2>1. UNCHANGED <<d_queue, worker, hasJob, d_waitHead, d_threadCount,
                    d_numActiveThreads, d_createFailures, timed, functor,
                    jobVars>>
        /\ d_enabled' \in BOOLEAN
    BY <1>3 DEF PoolInv, TypeOK, drain, drainAgain, stopAgain, join,
                SpuriousWakeup, poolVars, workerVars
  <2>2. /\ caller' \in [Caller -> CallerState]
        /\ woken' \in [Caller -> BOOLEAN]
        /\ step' \in [Caller -> Nat] /\ script' \in Scripts
    <3>1. CASE SpuriousWakeup(c)
      BY <3>1 DEF PoolInv, TypeOK, SpuriousWakeup
    <3>2. CASE Return(c) \/ WaitIn(c, "drain") \/ WaitIn(c, "stop")
      BY <3>2, CallerTypes DEF PoolInv, CallerState
    <3> QED BY <1>3, <3>1, <3>2 DEF drain, drainAgain, stopAgain, join
  <2>3. TypeOK'
    BY <2>1, <2>2 DEF PoolInv, TypeOK, jobVars
  <2> QED BY <2>1, <2>3, IdleInv DEF PoolInv
<1>4. CASE stop(c)
  <2>1. /\ doEnqueueJobs(d_queue, Nulls(d_threadCount))
        /\ Return(c) \/ WaitIn(c, "stop")
        /\ d_enabled' = FALSE
        /\ UNCHANGED <<d_threadCount, d_numActiveThreads, d_createFailures,
                       worker, timed, functor, jobVars>>
    BY <1>4 DEF stop
  <2>2. d_queue \in Seq(Job \cup {Null}) /\ Len(d_queue) <= Len(d_queue)
    BY DEF PoolInv, TypeOK
  <2>3. /\ d_queue' \in Seq(Job \cup {Null})
        /\ d_waitHead' \in Seq(Thread)
        /\ hasJob' \in [Thread -> BOOLEAN]
        /\ WaitListExact' /\ CountsAccurate' /\ NoSleeperWithBacklog'
    BY <2>1, <2>2, NullsInv
  <2>4. /\ caller' \in [Caller -> CallerState]
        /\ woken' \in [Caller -> BOOLEAN]
        /\ step' \in [Caller -> Nat] /\ script' \in Scripts
    BY <2>1, CallerTypes DEF PoolInv, CallerState
  <2>5. TypeOK'
    BY <2>1, <2>3, <2>4 DEF PoolInv, TypeOK, jobVars
  <2> QED BY <2>3, <2>5 DEF PoolInv
<1>5. CASE shutdown(c)
  <2>1. /\ doEnqueueJobs(<<>>, Nulls(d_threadCount))
        /\ Return(c) \/ WaitIn(c, "shutdown")
        /\ d_enabled' = FALSE
        /\ CancelQueued
        /\ UNCHANGED <<d_threadCount, d_numActiveThreads, d_createFailures,
                       worker, timed, functor, reply>>
    BY <1>5 DEF shutdown
  <2>2. <<>> \in Seq(Job \cup {Null}) /\ Len(<<>>) <= Len(d_queue)
    BY EmptySeq DEF PoolInv, TypeOK
  <2>3. /\ d_queue' \in Seq(Job \cup {Null})
        /\ d_waitHead' \in Seq(Thread)
        /\ hasJob' \in [Thread -> BOOLEAN]
        /\ WaitListExact' /\ CountsAccurate' /\ NoSleeperWithBacklog'
    BY <2>1, <2>2, NullsInv
  <2>4. /\ caller' \in [Caller -> CallerState]
        /\ woken' \in [Caller -> BOOLEAN]
        /\ step' \in [Caller -> Nat] /\ script' \in Scripts
    BY <2>1, CallerTypes DEF PoolInv, CallerState
  <2>5. status' \in [Job -> Status]
    BY <2>1 DEF PoolInv, TypeOK, CancelQueued, Status
  <2>6. TypeOK'
    BY <2>1, <2>3, <2>4, <2>5 DEF PoolInv, TypeOK
  <2> QED BY <2>3, <2>6 DEF PoolInv
<1>6. CASE shutdownAgain(c)
  <2>1. /\ UNCHANGED <<worker, hasJob, d_waitHead, d_threadCount,
                       d_numActiveThreads, d_createFailures, d_enabled, timed,
                       functor, reply>>
        /\ d_queue' = d_queue \/ d_queue' = <<>>
        /\ status' = status \/ CancelQueued
        /\ Return(c) \/ WaitIn(c, "shutdown")
    BY <1>6 DEF shutdownAgain, workerVars
  <2>2. /\ caller' \in [Caller -> CallerState]
        /\ woken' \in [Caller -> BOOLEAN]
        /\ step' \in [Caller -> Nat] /\ script' \in Scripts
    BY <2>1, CallerTypes DEF PoolInv, CallerState
  <2>3. status' \in [Job -> Status]
    BY <2>1 DEF PoolInv, TypeOK, CancelQueued, Status
  <2>4. d_queue' \in Seq(Job \cup {Null})
    BY <2>1, EmptySeq DEF PoolInv, TypeOK
  <2>5. TypeOK'
    BY <2>1, <2>2, <2>3, <2>4 DEF PoolInv, TypeOK
  <2> QED BY <2>1, <2>5, IdleInv DEF PoolInv
<1> QED BY <1>1, <1>2, <1>3, <1>4, <1>5, <1>6 DEF call, Continue

-----------------------------------------------------------------------------
(* The invariant *)

\* The invariant holds initially, and every step preserves it.
LEMMA InitInv == Init => PoolInv
<1> SUFFICES ASSUME Init PROVE PoolInv
  OBVIOUS
<1>1. Asleep = {} /\ Active = {} /\ Alive = {}
  BY DEF Init, Asleep, Active, Alive
<1>2. Nodes(<<>>) = {} /\ Distinct(<<>>)
  BY DEF Nodes, Distinct
<1>3. TypeOK
  BY EmptySeq DEF Init, TypeOK, WorkerState, CallerState, Status
<1> QED BY <1>1, <1>2, <1>3, FS_EmptySet, PoolAssumption
        DEF Init, PoolInv, WaitListExact, CountsAccurate,
            NoSleeperWithBacklog, PoolAssumption

LEMMA NextInv == PoolInv /\ [PoolNext]_vars => PoolInv'
<1> SUFFICES ASSUME PoolInv, [PoolNext]_vars PROVE PoolInv'
  OBVIOUS
<1>1. CASE UNCHANGED vars
  <2>1. TypeOK'
    BY <1>1 DEF PoolInv, TypeOK, vars, poolVars, workerVars, callerVars,
                jobVars
  <2> QED BY <1>1, <2>1, IdleInv DEF PoolInv, vars, poolVars, workerVars
<1>2. ASSUME NEW t \in Thread, workerThread(t) \/ TimeOut(t) PROVE PoolInv'
  BY <1>2, WorkerInv
<1>3. ASSUME NEW c \in Caller, call(c) \/ Continue(c) \/ SpuriousWakeup(c)
      PROVE  PoolInv'
  BY <1>3, CallerInv
<1> QED BY <1>1, <1>2, <1>3 DEF PoolNext, Done

LEMMA PoolInvariant == Spec => []PoolInv
BY InitInv, NextInv, PTL DEF Spec

\* The variables keep their types; in particular the counters, which the code
\* decrements unconditionally, never become negative.
THEOREM TypeCorrect == Spec => []TypeOK
<1>1. PoolInv => TypeOK
  BY DEF PoolInv
<1> QED BY <1>1, PoolInvariant, PTL

\* The wait list links exactly the sleeping threads, each once: no timeout,
\* wakeup or exit of a worker leaves a node of its stack behind.
THEOREM WaitListIsExact == Spec => []WaitListExact
<1>1. PoolInv => WaitListExact
  BY DEF PoolInv
<1> QED BY <1>1, PoolInvariant, PTL

\* The counters from which drain, stop, start and enqueueJob decide are those
\* of the threads there are.
THEOREM CountsAreAccurate == Spec => []CountsAccurate
<1>1. PoolInv => CountsAccurate
  BY DEF PoolInv
<1> QED BY <1>1, PoolInvariant, PTL

\* No wakeup is lost, with any number of threads, jobs and clients.
THEOREM NoWakeupLost == Spec => []NoSleeperWithBacklog
<1>1. PoolInv => NoSleeperWithBacklog
  BY DEF PoolInv
<1> QED BY <1>1, PoolInvariant, PTL

\* What the pool keeps of its threads is right, whatever the clients call and
\* whichever thread cannot be created.
THEOREM PoolIsConsistent == Spec => []Consistent
<1> QED BY TypeCorrect, WaitListIsExact, CountsAreAccurate, PTL DEF Consistent

-----------------------------------------------------------------------------
(* The threads that the jobs ask for, and what is left when a call returns *)

\* A client waits for the threads to leave.
Stopping == \E c \in Caller : caller[c] \in {"stop", "shutdown"}

\* There is a null job for each thread while they are to leave, behind all jobs,
\* and at no other time: no thread that is started later takes one.
NullsRight ==
    IF Stopping
    THEN /\ ~d_enabled
         /\ \E s \in Seq(Job) : d_queue = s \o Nulls(d_threadCount)
    ELSE d_queue \in Seq(Job)

\* A client that waits is in the call it makes.
CallersRight ==
    \A c \in Caller :
        /\ caller[c] # "idle" => step[c] < Len(script[c])
        /\ caller[c] = "drain" => NextCall(c).op = "drain"
        /\ caller[c] = "stop" => NextCall(c).op = "stop"
        /\ caller[c] = "shutdown" => NextCall(c).op \in {"start", "shutdown"}
        /\ caller[c] = "start_failed" => NextCall(c).op = "start"

\* What is said to be queued is in the queue, what is running is run by a
\* thread; and if there is none, nobody was told that his job will run.
StatusRight ==
    /\ \A j \in Job : status[j] = "queued" =>
          \E i \in 1 .. Len(d_queue) : d_queue[i] = j
    /\ \A j \in Job : status[j] = "running" =>
          \E t \in Thread : worker[t] = "run" /\ functor[t] = j
    /\ d_threadCount = 0 /\ MaxThreads # 0 =>
          \A j \in Job : status[j] = "queued" => reply[j] = "error"

\* An enabled pool has its minimum of threads, unless start is to undo what it
\* did.
MinimumRight ==
    d_enabled /\ (\A c \in Caller : caller[c] # "start_failed")
    => d_threadCount >= MinThreads

ManagedInv ==
    /\ PoolInv /\ NullsRight /\ CallersRight /\ StatusRight /\ MinimumRight
    /\ JobsHaveThreads

\* The definitions of CallersRight and of OneManager together: who waits for the
\* threads to leave, or is about to tell them to, is the one who manages them.
LEMMA ManagersAre ==
    ASSUME OneManager, TypeOK, CallersRight, NEW c \in Caller, NEW d \in Caller,
           caller[c] = "idle" => step[c] < Len(script[c]),
           NextCall(c).op \in {"start", "stop", "shutdown"},
           caller[d] \in {"stop", "shutdown", "start_failed"}
    PROVE  c = d
<1>1. ASSUME NEW e \in Caller, step[e] < Len(script[e]),
             NextCall(e).op \in {"start", "stop", "shutdown"}
      PROVE  Manages(script, e)
  <2>1. script[e] \in Seq(Operation) /\ step[e] \in Nat
    BY PoolAssumption DEF PoolAssumption, TypeOK
  <2>2. step[e] + 1 \in DOMAIN script[e]
    BY <1>1, <2>1
  <2> QED BY <1>1, <2>2 DEF Manages, NextCall
<1>2. Manages(script, c) /\ Manages(script, d)
  BY <1>1 DEF CallersRight, TypeOK
<1> QED BY <1>2 DEF OneManager, TypeOK

\* A thread that sleeps is one more than the jobs ask for.
LEMMA SleeperIsSpare ==
    ASSUME PoolInv, NEW t \in Asleep
    PROVE  Len(d_queue) + d_numActiveThreads + 1 <= d_threadCount
<1> DEFINE Needed == Signaled \cup Active
<1>1. t \in Nodes(d_waitHead)
  BY DEF PoolInv, WaitListExact
<1>2. d_waitHead # <<>>
  BY <1>1, EmptySeq DEF Nodes
<1>3. Len(d_queue) <= Cardinality(Signaled) /\ Len(d_queue) \in Nat
  BY <1>2 DEF PoolInv, NoSleeperWithBacklog, TypeOK
<1>4. /\ IsFiniteSet(Signaled) /\ Cardinality(Signaled) \in Nat
      /\ IsFiniteSet(Active) /\ Cardinality(Active) \in Nat
      /\ IsFiniteSet(Needed) /\ Cardinality(Needed) \in Nat
      /\ IsFiniteSet(Alive) /\ Cardinality(Alive) \in Nat
  <2>1. /\ Signaled \in SUBSET Thread /\ Active \in SUBSET Thread
        /\ Alive \in SUBSET Thread
    BY DEF Signaled, Active, Alive
  <2> QED BY <2>1, ThreadsFinite
<1>5. Signaled \cap Active = {} /\ t \notin Needed /\ Needed \cup {t} \subseteq Alive
  BY DEF Signaled, Active, Asleep, Alive
<1>6. Cardinality(Needed) = Cardinality(Signaled) + Cardinality(Active)
  <2>1. Cardinality(Needed) = Cardinality(Signaled) + Cardinality(Active) - Cardinality({})
    BY <1>4, <1>5, FS_Union
  <2> QED BY <2>1, <1>4, FS_EmptySet
<1>7. Cardinality(Needed \cup {t}) = Cardinality(Needed) + 1
  BY <1>4, <1>5, FS_AddElement
<1>8. Cardinality(Needed \cup {t}) <= Cardinality(Alive)
  BY <1>4, <1>5, FS_Subset
<1>9. d_numActiveThreads = Cardinality(Active) /\ d_threadCount = Cardinality(Alive)
  BY DEF PoolInv, CountsAccurate
<1> HIDE DEF Needed
<1> QED BY <1>3, <1>4, <1>6, <1>7, <1>8, <1>9

LEMMA CountsOfNone ==
    ASSUME PoolInv
    PROVE  /\ d_numActiveThreads \in Nat /\ d_threadCount \in Nat
           /\ Len(d_queue) \in Nat /\ MinThreads \in Nat /\ MaxThreads \in Nat
           /\ d_numActiveThreads <= d_threadCount
           /\ d_numActiveThreads = 0 => \A t \in Thread : worker[t] # "run"
           /\ d_threadCount = 0 => \A t \in Thread : worker[t] = "none"
<1>1. Active \in SUBSET Thread /\ Alive \in SUBSET Thread /\ Active \subseteq Alive
  BY DEF Active, Alive
<1>2. /\ IsFiniteSet(Active) /\ IsFiniteSet(Alive)
      /\ Cardinality(Active) <= Cardinality(Alive)
  BY <1>1, ThreadsFinite, FS_Subset
<1>3. /\ Cardinality(Active) = 0 => Active = {}
      /\ Cardinality(Alive) = 0 => Alive = {}
  BY <1>2, FS_EmptySet
<1> QED BY <1>2, <1>3, PoolAssumption
        DEF PoolInv, CountsAccurate, TypeOK, Active, Alive, PoolAssumption

\* The null jobs are behind the jobs, so one that is at the front is alone with
\* others of its kind.
LEMMA NullsBehind ==
    ASSUME NEW s \in Seq(Job), NEW n \in Nat \ {0}, NEW q, q = s \o Nulls(n)
    PROVE  /\ q # <<>> /\ Len(q) >= n
           /\ \E i \in 1 .. Len(q) : q[i] = Null
           /\ Head(q) = Null => /\ Tail(q) = <<>> \o Nulls(n - 1)
                                /\ \A i \in 1 .. Len(q) : q[i] = Null
           /\ Head(q) # Null => \E r \in Seq(Job) : Tail(q) = r \o Nulls(n)
<1>1. /\ Nulls(n) \in Seq(Job \cup {Null}) /\ Len(Nulls(n)) = n
      /\ \A i \in 1 .. n : Nulls(n)[i] = Null
      /\ Nulls(n - 1) \in Seq(Job \cup {Null}) /\ Len(Nulls(n - 1)) = n - 1
      /\ \A i \in 1 .. n - 1 : Nulls(n - 1)[i] = Null
  BY DEF Nulls
<1>2. /\ q \in Seq(Job \cup {Null}) /\ Len(q) = Len(s) + n /\ Len(s) \in Nat
      /\ \A i \in 1 .. Len(s) : q[i] = s[i]
      /\ \A i \in 1 .. n : q[Len(s) + i] = Null
  <2>1. s \in Seq(Job \cup {Null}) /\ Len(s) \in Nat
    OBVIOUS
  <2>2. /\ q \in Seq(Job \cup {Null}) /\ Len(q) = Len(s) + n
        /\ \A i \in 1 .. Len(s) + n :
              q[i] = IF i <= Len(s) THEN s[i] ELSE Nulls(n)[i - Len(s)]
    BY <1>1, <2>1, ConcatProperties
  <2>3. \A i \in 1 .. n : Len(s) + i \in 1 .. Len(s) + n /\ ~(Len(s) + i <= Len(s))
                           /\ (Len(s) + i) - Len(s) = i
    BY <2>1
  <2>4. ASSUME NEW i \in 1 .. n PROVE q[Len(s) + i] = Null
    BY <1>1, <2>2, <2>3
  <2>5. \A i \in 1 .. Len(s) : q[i] = s[i]
    BY <2>1, <2>2
  <2> QED BY <2>1, <2>2, <2>4, <2>5
<1>3. q # <<>> /\ Len(q) >= n /\ \E i \in 1 .. Len(q) : q[i] = Null
  <2>1. q[Len(s) + n] = Null /\ Len(s) + n \in 1 .. Len(q) /\ Len(q) > 0
    BY <1>2
  <2> QED BY <1>2, <2>1, EmptySeq
<1>4. Head(q) = q[1] /\ Tail(q) \in Seq(Job \cup {Null}) /\ Len(Tail(q)) = Len(q) - 1
      /\ \A i \in 1 .. Len(q) - 1 : Tail(q)[i] = q[i + 1]
  BY <1>2, <1>3, HeadTailProperties
<1>5. CASE s = <<>>
  <2>1. Len(s) = 0
    BY <1>5, EmptySeq
  <2>2. \A i \in 1 .. Len(q) : q[i] = Null
    BY <1>2, <2>1
  <2>3. Tail(q) = Nulls(n - 1)
    <3>1. \A i \in 1 .. n - 1 : Tail(q)[i] = Nulls(n - 1)[i]
      BY <1>1, <1>2, <1>4, <2>1, <2>2
    <3>2. Len(Tail(q)) = n - 1
      BY <1>2, <1>4, <2>1
    <3> QED BY <1>1, <1>4, <3>1, <3>2, SeqEqual
  <2>4. <<>> \o Nulls(n - 1) = Nulls(n - 1)
    BY <1>1, ConcatEmptySeq
  <2>5. Head(q) = Null
    BY <1>3, <1>4, <2>2
  <2> QED BY <1>3, <2>2, <2>3, <2>4, <2>5
<1>6. CASE s # <<>>
  <2>1. /\ Len(s) > 0 /\ Tail(s) \in Seq(Job) /\ Len(Tail(s)) = Len(s) - 1
        /\ \A i \in 1 .. Len(s) - 1 : Tail(s)[i] = s[i + 1]
    BY <1>2, <1>6, EmptySeq, HeadTailProperties
  <2>2. Head(q) # Null
    BY <1>2, <1>4, <2>1, PoolAssumption, ElementOfSeq DEF PoolAssumption
  <2>3. Tail(q) = Tail(s) \o Nulls(n)
    <3>1. Tail(s) \in Seq(Job \cup {Null})
      BY <2>1
    <3>2. /\ Tail(s) \o Nulls(n) \in Seq(Job \cup {Null})
          /\ Len(Tail(s) \o Nulls(n)) = Len(s) - 1 + n
          /\ \A i \in 1 .. Len(s) - 1 + n :
                (Tail(s) \o Nulls(n))[i] =
                   IF i <= Len(s) - 1 THEN Tail(s)[i] ELSE Nulls(n)[i - (Len(s) - 1)]
      <4>1. PICK r \in Seq(Job \cup {Null}) : r = Tail(s)
        BY <3>1
      <4>2. PICK z \in Seq(Job \cup {Null}) : z = Nulls(n)
        BY <1>1
      <4>3. /\ r \o z \in Seq(Job \cup {Null}) /\ Len(r \o z) = Len(r) + Len(z)
            /\ \A i \in 1 .. Len(r) + Len(z) :
                  (r \o z)[i] = IF i <= Len(r) THEN r[i] ELSE z[i - Len(r)]
        BY ConcatProperties
      <4>4. Len(r) = Len(s) - 1 /\ Len(z) = n
        BY <1>1, <2>1, <4>1, <4>2
      <4> QED BY <4>1, <4>2, <4>3, <4>4
    <3>3. ASSUME NEW i \in 1 .. Len(s) - 1 + n
          PROVE  Tail(q)[i] = (Tail(s) \o Nulls(n))[i]
      <4>1. Tail(q)[i] = q[i + 1]
        BY <1>2, <1>4
      <4>2. CASE i <= Len(s) - 1
        BY <4>1, <4>2, <1>2, <2>1, <3>2
      <4>3. CASE ~(i <= Len(s) - 1)
        <5>1. i - (Len(s) - 1) \in 1 .. n /\ i + 1 = Len(s) + (i - (Len(s) - 1))
          BY <4>3, <1>2
        <5>2. q[i + 1] = Null
          BY <5>1, <1>2
        <5>3. Nulls(n)[i - (Len(s) - 1)] = Null
          BY <5>1, <1>1
        <5> QED BY <4>1, <4>3, <5>2, <5>3, <3>2
      <4> QED BY <4>2, <4>3
    <3>4. Len(Tail(q)) = Len(s) - 1 + n
      BY <1>2, <1>4
    <3> HIDE DEF Nulls
    <3> QED BY <1>4, <3>2, <3>3, <3>4, SeqEqual
  <2> QED BY <1>3, <2>1, <2>2, <2>3
<1> QED BY <1>5, <1>6

LEMMA NullsAlone ==
    ASSUME NEW n \in Nat \ {0}, NEW q, q = <<>> \o Nulls(n)
    PROVE  \E i \in 1 .. Len(q) : q[i] = Null
<1>1. /\ Nulls(n) \in Seq({Null}) /\ Len(Nulls(n)) = n
      /\ \A i \in 1 .. n : Nulls(n)[i] = Null
  BY DEF Nulls
<1>2. q = Nulls(n)
  BY <1>1, ConcatEmptySeq
<1>3. n \in 1 .. Len(q) /\ q[n] = Null
  BY <1>1, <1>2
<1> QED BY <1>3

LEMMA NoNulls ==
    ASSUME NEW s \in Seq(Job), NEW q, q = s \o Nulls(0)
    PROVE  q = s
BY ConcatEmptySeq DEF Nulls

-----------------------------------------------------------------------------
(* What a client's wait and return do *)

OthersStop(c) == \E d \in Caller \ {c} : caller[d] \in {"stop", "shutdown"}

LEMMA ReturnCallers ==
    ASSUME TypeOK, CallersRight, NEW c \in Caller, Return(c)
    PROVE  /\ CallersRight' /\ (Stopping' <=> OthersStop(c))
           /\ \A d \in Caller : caller'[d] = IF d = c THEN "idle" ELSE caller[d]
<1>1. /\ caller' = [caller EXCEPT ![c] = "idle"] /\ script' = script
      /\ caller \in [Caller -> CallerState] /\ step \in [Caller -> Nat]
      /\ step' = [step EXCEPT ![c] = @ + 1]
  BY DEF Return, TypeOK
<1>2. ASSUME NEW d \in Caller
      PROVE  /\ caller'[d] = IF d = c THEN "idle" ELSE caller[d]
             /\ d # c => step'[d] = step[d] /\ NextCall(d)' = NextCall(d)
  BY <1>1 DEF NextCall
<1>3. Stopping' <=> OthersStop(c)
  BY <1>2 DEF Stopping, OthersStop
<1>4. CallersRight'
  BY <1>1, <1>2 DEF CallersRight
<1> QED BY <1>2, <1>3, <1>4

LEMMA WaitInCallers ==
    ASSUME TypeOK, CallersRight, NEW c \in Caller,
           NEW s \in {"drain", "stop", "shutdown", "start_failed"}, WaitIn(c, s),
           step[c] < Len(script[c]),
           \/ s \in {"drain", "stop", "shutdown"} /\ NextCall(c).op = s
           \/ s \in {"shutdown", "start_failed"} /\ NextCall(c).op = "start"
    PROVE  /\ CallersRight'
           /\ Stopping' <=> s \in {"stop", "shutdown"} \/ OthersStop(c)
           /\ \A d \in Caller : caller'[d] = IF d = c THEN s ELSE caller[d]
<1>1. /\ caller' = [caller EXCEPT ![c] = s] /\ script' = script
      /\ caller \in [Caller -> CallerState] /\ step' = step
  BY DEF WaitIn, TypeOK
<1>2. \A d \in Caller : /\ caller'[d] = IF d = c THEN s ELSE caller[d]
                        /\ NextCall(d)' = NextCall(d)
  BY <1>1 DEF NextCall
<1>3. Stopping' <=> s \in {"stop", "shutdown"} \/ OthersStop(c)
  BY <1>2 DEF Stopping, OthersStop
<1>4. CallersRight'
  BY <1>1, <1>2 DEF CallersRight
<1> QED BY <1>2, <1>3, <1>4

LEMMA SameCallers ==
    ASSUME CallersRight, NullsRight, UNCHANGED <<caller, script, step>>
    PROVE  CallersRight' /\ (Stopping' <=> Stopping)
BY DEF CallersRight, NextCall, Stopping

\* While the manager is in a call nobody else waits for the threads to leave, or
\* has failed to start them.
LEMMA ManagerAlone ==
    ASSUME OneManager, TypeOK, CallersRight, NEW c \in Caller,
           step[c] < Len(script[c]), NextCall(c).op \in {"start", "stop", "shutdown"}
    PROVE  /\ ~OthersStop(c)
           /\ \A d \in Caller \ {c} : caller[d] # "start_failed"
BY ManagersAre DEF OthersStop

-----------------------------------------------------------------------------
(* Workers *)

LEMMA JobsWithoutNull ==
    ASSUME NullsRight, ~Stopping
    PROVE  d_queue \in Seq(Job) /\ \A i \in 1 .. Len(d_queue) : d_queue[i] # Null
BY PoolAssumption, ElementOfSeq DEF NullsRight, PoolAssumption

\* What a worker that did not run a job does with the next one.
LEMMA LookForJobManaged ==
    ASSUME ManagedInv, NEW t \in Thread, worker[t] # "run",
           NEW list, NEW active \in Nat, active <= d_numActiveThreads,
           active < d_threadCount, LookForJob(t, active, list)
    PROVE  /\ NullsRight' /\ CallersRight' /\ StatusRight' /\ MinimumRight'
           /\ JobsHaveThreads'
<1>1. /\ d_numActiveThreads \in Nat /\ d_threadCount \in Nat \ {0}
      /\ Len(d_queue) \in Nat /\ MinThreads \in Nat /\ MaxThreads \in Nat
      /\ worker \in [Thread -> WorkerState] /\ d_queue \in Seq(Job \cup {Null})
      /\ functor \in [Thread -> Job \cup {Null}] /\ status \in [Job -> Status]
      /\ Null \notin Job
  BY CountsOfNone, PoolAssumption DEF ManagedInv, PoolInv, TypeOK, PoolAssumption
<1>2. /\ UNCHANGED <<caller, script, step, d_enabled, reply, d_createFailures>>
  BY DEF LookForJob, Sleep, TakeJob, jobVars
<1>3. CallersRight' /\ (Stopping' <=> Stopping)
  BY <1>2, SameCallers DEF ManagedInv
<1>4. CASE Sleep(t, active, list)
  <2>1. /\ d_queue = <<>> /\ d_queue' = <<>> /\ Len(d_queue) = 0
        /\ UNCHANGED <<status, functor, d_threadCount>>
        /\ worker' = [worker EXCEPT ![t] = "wait"]
        /\ d_numActiveThreads' = active
    BY <1>4 DEF Sleep, jobVars
  <2>2. ~Stopping
    BY <1>1, <2>1, NullsBehind DEF ManagedInv, NullsRight
  <2>3. NullsRight'
    BY <1>3, <2>1, <2>2 DEF ManagedInv, NullsRight
  <2>4. \A u \in Thread : worker[u] = "run" => worker'[u] = "run"
    BY <1>1, <2>1
  <2>5. StatusRight'
    BY <1>2, <2>1, <2>4 DEF ManagedInv, StatusRight
  <2>6. MinimumRight'
    BY <1>2, <2>1 DEF ManagedInv, MinimumRight
  <2>7. JobsHaveThreads'
    BY <1>1, <2>1 DEF JobsHaveThreads
  <2> QED BY <1>3, <2>3, <2>5, <2>6, <2>7
<1>5. CASE TakeJob(t, active, list) /\ Head(d_queue) = Null
  <2>1. /\ d_queue # <<>> /\ d_queue' = Tail(d_queue)
        /\ UNCHANGED <<functor, status>>
        /\ d_threadCount' = d_threadCount - 1
        /\ worker' = [worker EXCEPT ![t] = "none"]
        /\ d_numActiveThreads' = active
    BY <1>5 DEF TakeJob, Leave
  <2>2. Stopping
    <3>1. d_queue[1] = Null /\ 1 \in 1 .. Len(d_queue)
      BY <1>1, <1>5, <2>1, EmptySeq
    <3> QED BY <3>1, JobsWithoutNull DEF ManagedInv
  <2>3. PICK s \in Seq(Job) : d_queue = s \o Nulls(d_threadCount)
    BY <2>2 DEF ManagedInv, NullsRight
  <2>4. /\ d_queue' = <<>> \o Nulls(d_threadCount')
        /\ \A i \in 1 .. Len(d_queue) : d_queue[i] = Null
    <3>1. PICK n \in Nat \ {0} : n = d_threadCount
      BY <1>1
    <3>2. PICK q : q = d_queue /\ q = s \o Nulls(n)
      BY <2>3, <3>1
    <3>3. Head(q) = Null
      BY <1>5, <3>2
    <3>4. Tail(q) = <<>> \o Nulls(n - 1) /\ \A i \in 1 .. Len(q) : q[i] = Null
      BY <3>2, <3>3, NullsBehind
    <3>5. d_threadCount' = n - 1 /\ d_queue' = Tail(q)
      BY <2>1, <3>1, <3>2
    <3> QED BY <3>2, <3>4, <3>5
  <2>5. \A j \in Job : status'[j] # "queued"
    BY <1>1, <2>1, <2>4 DEF ManagedInv, StatusRight
  <2>6. NullsRight'
    <3>1. ~d_enabled /\ <<>> \in Seq(Job)
      BY <2>2 DEF ManagedInv, NullsRight
    <3> QED BY <1>2, <1>3, <2>2, <2>4, <3>1 DEF NullsRight
  <2>7. \A u \in Thread : worker[u] = "run" => worker'[u] = "run"
    BY <1>1, <2>1
  <2>8. StatusRight'
    BY <2>1, <2>5, <2>7 DEF ManagedInv, StatusRight
  <2>9. MinimumRight'
    BY <1>2, <2>2 DEF ManagedInv, NullsRight, MinimumRight
  <2>10. JobsHaveThreads'
    <3>1. CASE d_threadCount' = 0
      <4>1. d_queue' = <<>>
        BY <2>4, <3>1, EmptySeq, NoNulls
      <4>2. Len(d_queue') = 0
        BY <4>1, EmptySeq
      <4>3. d_numActiveThreads' <= d_threadCount' /\ d_numActiveThreads' \in Nat
        BY <1>1, <2>1
      <4> QED BY <4>2, <4>3 DEF JobsHaveThreads
    <3>2. CASE d_threadCount' # 0
      <4>1. d_threadCount' \in Nat \ {0}
        BY <1>1, <2>1, <3>2
      <4>2. PICK n \in Nat \ {0} : d_queue' = <<>> \o Nulls(n)
        BY <2>4, <4>1
      <4>3. \E i \in 1 .. Len(d_queue') : d_queue'[i] = Null
        BY <4>2, NullsAlone
      <4> QED BY <4>3 DEF JobsHaveThreads
    <3> QED BY <3>1, <3>2
  <2> QED BY <1>3, <2>6, <2>8, <2>9, <2>10
<1>6. CASE TakeJob(t, active, list) /\ Head(d_queue) # Null
  <2> DEFINE h == Head(d_queue)
  <2>1. /\ d_queue # <<>> /\ d_queue' = Tail(d_queue)
        /\ d_numActiveThreads' = active + 1
        /\ worker' = [worker EXCEPT ![t] = "run"]
        /\ functor' = [functor EXCEPT ![t] = h]
        /\ status' = [status EXCEPT ![h] = "running"]
        /\ d_threadCount' = d_threadCount
    BY <1>6 DEF TakeJob
  <2>2. /\ h \in Job /\ h = d_queue[1]
        /\ Tail(d_queue) \in Seq(Job \cup {Null})
        /\ Len(Tail(d_queue)) = Len(d_queue) - 1
        /\ \A i \in 1 .. Len(d_queue) - 1 : Tail(d_queue)[i] = d_queue[i + 1]
    BY <1>1, <1>6, <2>1, HeadTailProperties
  <2> HIDE DEF h
  <2>3. \A x : x # h /\ (\E i \in 1 .. Len(d_queue) : d_queue[i] = x)
               => \E i \in 1 .. Len(d_queue') : d_queue'[i] = x
    <3> SUFFICES ASSUME NEW x, x # h, NEW i \in 1 .. Len(d_queue), d_queue[i] = x
                 PROVE  \E k \in 1 .. Len(d_queue') : d_queue'[k] = x
      OBVIOUS
    <3>1. i # 1
      BY <2>2
    <3>2. i - 1 \in 1 .. Len(d_queue) - 1 /\ (i - 1) + 1 = i
      BY <1>1, <3>1
    <3> QED BY <2>1, <2>2, <3>2
  <2>4. NullsRight'
    <3>1. CASE Stopping
      <4>1. PICK s \in Seq(Job) : d_queue = s \o Nulls(d_threadCount)
        BY <3>1 DEF ManagedInv, NullsRight
      <4>2. \E r \in Seq(Job) : d_queue' = r \o Nulls(d_threadCount)
        BY <1>1, <1>6, <2>1, <4>1, NullsBehind
      <4> QED BY <1>2, <1>3, <2>1, <3>1, <4>2 DEF ManagedInv, NullsRight
    <3>2. CASE ~Stopping
      <4>1. d_queue \in Seq(Job)
        BY <3>2 DEF ManagedInv, NullsRight
      <4>2. d_queue' \in Seq(Job)
        BY <2>1, <4>1, HeadTailProperties
      <4> QED BY <1>3, <3>2, <4>2 DEF NullsRight
    <3> QED BY <3>1, <3>2
  <2>5. StatusRight'
    <3>1. ASSUME NEW j \in Job, status'[j] = "queued"
          PROVE  \E i \in 1 .. Len(d_queue') : d_queue'[i] = j
      <4>1. j # h /\ status[j] = "queued"
        BY <1>1, <2>1, <2>2, <3>1
      <4> QED BY <2>3, <4>1 DEF ManagedInv, StatusRight
    <3>2. ASSUME NEW j \in Job, status'[j] = "running"
          PROVE  \E u \in Thread : worker'[u] = "run" /\ functor'[u] = j
      <4>1. CASE j = h
        BY <1>1, <2>1, <4>1
      <4>2. CASE j # h
        <5>1. status[j] = "running"
          BY <1>1, <2>1, <3>2, <4>2
        <5>2. PICK u \in Thread : worker[u] = "run" /\ functor[u] = j
          BY <5>1 DEF ManagedInv, StatusRight
        <5> QED BY <1>1, <2>1, <5>2
      <4> QED BY <4>1, <4>2
    <3> QED BY <1>1, <2>1, <3>1, <3>2 DEF StatusRight
  <2>6. MinimumRight'
    BY <1>2, <2>1 DEF ManagedInv, MinimumRight
  <2>7. JobsHaveThreads'
    <3>1. CASE \E i \in 1 .. Len(d_queue) : d_queue[i] = Null
      BY <1>6, <2>3, <3>1 DEF JobsHaveThreads, h
    <3>2. CASE Len(d_queue) + d_numActiveThreads <= d_threadCount
      <4>1. Len(d_queue') = Len(d_queue) - 1
        BY <2>1, <2>2
      <4>2. Len(d_queue') + d_numActiveThreads' <= d_threadCount'
        BY <1>1, <2>1, <3>2, <4>1
      <4> QED BY <4>2 DEF JobsHaveThreads
    <3> QED BY <1>2, <2>1, <3>1, <3>2 DEF ManagedInv, JobsHaveThreads
  <2> QED BY <1>3, <2>4, <2>5, <2>6, <2>7
<1> QED BY <1>4, <1>5, <1>6 DEF LookForJob

LEMMA WorkerManaged ==
    ASSUME ManagedInv, NEW t \in Thread, workerThread(t) \/ TimeOut(t)
    PROVE  /\ NullsRight' /\ CallersRight' /\ StatusRight' /\ MinimumRight'
           /\ JobsHaveThreads'
<1>1. /\ d_numActiveThreads \in Nat /\ d_threadCount \in Nat /\ Len(d_queue) \in Nat
      /\ MinThreads \in Nat /\ Null \notin Job
      /\ worker \in [Thread -> WorkerState] /\ d_queue \in Seq(Job \cup {Null})
      /\ functor \in [Thread -> Job \cup {Null}] /\ status \in [Job -> Status]
  BY CountsOfNone, PoolAssumption DEF ManagedInv, PoolInv, TypeOK, PoolAssumption
<1>2. /\ IsFiniteSet(Active) /\ IsFiniteSet(Alive)
      /\ Active \subseteq Alive
      /\ d_numActiveThreads = Cardinality(Active) /\ d_threadCount = Cardinality(Alive)
  <2>1. Active \in SUBSET Thread /\ Alive \in SUBSET Thread
    BY DEF Active, Alive
  <2> QED BY <2>1, ThreadsFinite
          DEF ManagedInv, PoolInv, CountsAccurate, Active, Alive
<1>3. CASE StartWorker(t) \/ WakeUp(t)
  <2>1. /\ worker[t] \in {"start", "wait"}
        /\ LookForJob(t, d_numActiveThreads, d_waitHead)
    BY <1>3 DEF StartWorker, WakeUp
  <2>2. d_numActiveThreads < d_threadCount
    <3>1. t \in Alive /\ t \notin Active
      BY <2>1 DEF Alive, Active
    <3> QED BY <1>2, <3>1, FS_Subset, FS_CardinalityType
  <2> QED BY <1>1, <2>1, <2>2, LookForJobManaged
<1>4. CASE FinishJob(t)
  <2>1. worker[t] = "done" /\ LookForJob(t, d_numActiveThreads - 1, d_waitHead)
    BY <1>4 DEF FinishJob
  <2>2. t \in Active
    BY <2>1 DEF Active
  <2>3. /\ d_numActiveThreads - 1 \in Nat
        /\ d_numActiveThreads - 1 < d_threadCount
    <3>1. d_numActiveThreads # 0
      BY <1>2, <2>2, FS_EmptySet
    <3>2. d_numActiveThreads <= d_threadCount
      BY <1>2, FS_Subset
    <3> QED BY <1>1, <3>1, <3>2
  <2> QED BY <1>1, <2>1, <2>3, LookForJobManaged
<1>5. CASE TimeOut(t)
  <2>1. worker[t] = "wait" /\ t \in Asleep
    BY <1>5 DEF TimeOut, Asleep
  <2>2. Len(d_queue) + d_numActiveThreads + 1 <= d_threadCount
    BY <2>1, SleeperIsSpare DEF ManagedInv
  <2>3. PICK list :
           \/ /\ d_threadCount > MinThreads
              /\ Leave(t, list)
              /\ UNCHANGED <<d_queue, d_numActiveThreads, d_createFailures,
                             d_enabled, functor, callerVars, jobVars>>
           \/ LookForJob(t, d_numActiveThreads, list)
    BY <1>5 DEF TimeOut
  <2>4. CASE LookForJob(t, d_numActiveThreads, list)
    BY <1>1, <2>1, <2>2, <2>4, LookForJobManaged
  <2>5. CASE /\ d_threadCount > MinThreads
             /\ Leave(t, list)
             /\ UNCHANGED <<d_queue, d_numActiveThreads, d_createFailures,
                            d_enabled, functor, callerVars, jobVars>>
    <3>1. /\ d_threadCount' = d_threadCount - 1
          /\ worker' = [worker EXCEPT ![t] = "none"]
          /\ UNCHANGED <<d_queue, d_numActiveThreads, d_createFailures, d_enabled,
                         functor, caller, step, script, status, reply>>
      BY <2>5 DEF Leave, callerVars, jobVars
    <3>2. ~Stopping
      <4>1. SUFFICES ASSUME Stopping PROVE FALSE
        OBVIOUS
      <4>2. PICK s \in Seq(Job) : d_queue = s \o Nulls(d_threadCount)
        BY <4>1 DEF ManagedInv, NullsRight
      <4>3. d_threadCount \in Nat \ {0}
        BY <1>1, <2>2
      <4>4. Len(d_queue) >= d_threadCount
        BY <4>2, <4>3, NullsBehind
      <4> QED BY <1>1, <2>2, <4>4
    <3>3. CallersRight' /\ ~Stopping'
      BY <3>1, <3>2, SameCallers DEF ManagedInv
    <3>4. NullsRight'
      BY <3>1, <3>2, <3>3 DEF ManagedInv, NullsRight
    <3>5. \A u \in Thread : worker[u] = "run" => worker'[u] = "run"
      BY <1>1, <2>1, <3>1
    <3>6. d_threadCount' = 0 => Len(d_queue) = 0
      BY <1>1, <2>2, <3>1
    <3>7. StatusRight'
      <4>1. d_threadCount' = 0 => \A j \in Job : status[j] # "queued"
        BY <3>6 DEF ManagedInv, StatusRight
      <4> QED BY <3>1, <3>5, <4>1 DEF ManagedInv, StatusRight
    <3>8. MinimumRight'
      BY <1>1, <2>5, <3>1 DEF MinimumRight
    <3>9. JobsHaveThreads'
      BY <1>1, <2>2, <3>1 DEF JobsHaveThreads
    <3> QED BY <3>3, <3>4, <3>7, <3>8, <3>9
  <2> QED BY <2>3, <2>4, <2>5
<1>6. CASE RunJob(t)
  <2>1. /\ worker[t] = "run" /\ worker' = [worker EXCEPT ![t] = "done"]
        /\ status' = [status EXCEPT ![functor[t]] = "done"]
        /\ functor' = [functor EXCEPT ![t] = Null]
        /\ UNCHANGED <<d_queue, d_threadCount, d_numActiveThreads, d_enabled,
                       d_createFailures, caller, step, script, reply>>
    BY <1>6 DEF RunJob, poolVars, callerVars
  <2>2. CallersRight' /\ (Stopping' <=> Stopping)
    BY <2>1, SameCallers DEF ManagedInv
  <2>3. \A j \in Job : status'[j] = IF j = functor[t] THEN "done" ELSE status[j]
    BY <1>1, <2>1
  <2>4. ASSUME NEW j \in Job, status'[j] = "running"
        PROVE  \E u \in Thread : worker'[u] = "run" /\ functor'[u] = j
    <3>1. status[j] = "running" /\ j # functor[t]
      BY <2>3, <2>4
    <3>2. PICK u \in Thread : worker[u] = "run" /\ functor[u] = j
      BY <3>1 DEF ManagedInv, StatusRight
    <3> QED BY <1>1, <2>1, <3>1, <3>2
  <2>5. StatusRight'
    BY <2>1, <2>3, <2>4 DEF ManagedInv, StatusRight
  <2> QED BY <2>1, <2>2, <2>5
          DEF ManagedInv, NullsRight, MinimumRight, JobsHaveThreads
<1> QED BY <1>3, <1>4, <1>5, <1>6 DEF workerThread

-----------------------------------------------------------------------------
(* Clients *)

\* A call that leaves the threads and the queue alone.
LEMMA QuietManaged ==
    ASSUME ManagedInv, CallersRight', Stopping' <=> Stopping,
           UNCHANGED <<d_queue, d_threadCount, d_numActiveThreads, d_createFailures,
                       worker, functor, jobVars>>,
           \/ d_enabled' = FALSE
           \/ d_enabled' = d_enabled
              /\ \A c \in Caller : caller[c] = "start_failed" => caller'[c] = "start_failed"
    PROVE  NullsRight' /\ StatusRight' /\ MinimumRight' /\ JobsHaveThreads'
<1>1. NullsRight'
  <2>1. CASE Stopping
    <3>1. PICK s \in Seq(Job) : d_queue = s \o Nulls(d_threadCount)
      BY <2>1 DEF ManagedInv, NullsRight
    <3>2. ~d_enabled'
      BY <2>1 DEF ManagedInv, NullsRight
    <3> QED BY <2>1, <3>1, <3>2 DEF NullsRight
  <2>2. CASE ~Stopping
    BY <2>2 DEF ManagedInv, NullsRight
  <2> QED BY <2>1, <2>2
<1>2. StatusRight'
  BY DEF ManagedInv, StatusRight, jobVars
<1>3. MinimumRight'
  BY DEF ManagedInv, MinimumRight
<1> QED BY <1>1, <1>2, <1>3 DEF ManagedInv, JobsHaveThreads

\* What is queued when all that was is cancelled.
LEMMA CancelledStatus ==
    ASSUME StatusRight, TypeOK, CancelQueued, UNCHANGED <<worker, functor>>
    PROVE  StatusRight' /\ \A j \in Job : status'[j] # "queued"
<1>1. \A j \in Job : status'[j] = IF status[j] = "queued" THEN "cancelled" ELSE status[j]
  BY DEF CancelQueued
<1>2. \A j \in Job : /\ status'[j] # "queued"
                     /\ status'[j] = "running" => status[j] = "running"
  BY <1>1
<1> QED BY <1>2 DEF StatusRight

LEMMA NullsRightOf ==
    ASSUME NEW s \in Seq(Job), NEW n \in Nat
    PROVE  /\ n = 0 => s \o Nulls(n) = s
           /\ n # 0 => \E i \in 1 .. Len(s \o Nulls(n)) : (s \o Nulls(n))[i] = Null
           /\ \A j : (\E i \in 1 .. Len(s) : s[i] = j)
                     => \E i \in 1 .. Len(s \o Nulls(n)) : (s \o Nulls(n))[i] = j
<1> DEFINE q == s \o Nulls(n)
<1>1. n = 0 => q = s
  BY NoNulls
<1>3. Nulls(n) \in Seq(Job \cup {Null}) /\ s \in Seq(Job \cup {Null})
  BY NullsAreJobs
<1>4. /\ Len(q) = Len(s) + Len(Nulls(n)) /\ Len(s) \in Nat /\ Len(Nulls(n)) \in Nat
      /\ \A i \in 1 .. Len(s) + Len(Nulls(n)) :
            q[i] = IF i <= Len(s) THEN s[i] ELSE Nulls(n)[i - Len(s)]
  BY <1>3, ConcatProperties
<1> HIDE DEF q
<1>2. ASSUME n # 0 PROVE \E i \in 1 .. Len(q) : q[i] = Null
  <2>1. Len(Nulls(n)) = n /\ Nulls(n)[n] = Null /\ n >= 1
    BY <1>2 DEF Nulls
  <2>2. /\ Len(s) + n \in 1 .. Len(q) /\ ~(Len(s) + n <= Len(s))
        /\ (Len(s) + n) - Len(s) = n
    BY <1>4, <2>1
  <2>3. q[Len(s) + n] = Null
    BY <1>4, <2>1, <2>2
  <2> QED BY <2>2, <2>3
<1>5. ASSUME NEW j, NEW i \in 1 .. Len(s), s[i] = j
      PROVE  \E k \in 1 .. Len(q) : q[k] = j
  <2>1. i \in 1 .. Len(q) /\ q[i] = s[i]
    BY <1>4
  <2> QED BY <1>5, <2>1
<1>6. /\ n = 0 => q = s
      /\ n # 0 => \E i \in 1 .. Len(q) : q[i] = Null
      /\ \A j : (\E i \in 1 .. Len(s) : s[i] = j) => \E i \in 1 .. Len(q) : q[i] = j
  BY <1>1, <1>2, <1>5
<1> QED BY <1>6 DEF q

LEMMA EnqueueJobManaged ==
    ASSUME ManagedInv, NEW c \in Caller, enqueueJob(c)
    PROVE  /\ NullsRight' /\ CallersRight' /\ StatusRight' /\ MinimumRight'
           /\ JobsHaveThreads'
<1> DEFINE j == NextCall(c).job
<1>1. j \in Job /\ Return(c) /\ caller[c] = "idle"
  BY EnqueuedIsJob DEF ManagedInv, PoolInv, enqueueJob, Calling
<1> HIDE DEF j
<1>2. /\ CallersRight' /\ (Stopping' <=> Stopping)
      /\ \A d \in Caller : caller'[d] = caller[d]
  BY <1>1, ReturnCallers DEF ManagedInv, PoolInv, OthersStop, Stopping
<1>3. /\ d_numActiveThreads \in Nat /\ d_threadCount \in Nat /\ Len(d_queue) \in Nat
      /\ MinThreads \in Nat /\ MaxThreads \in Nat /\ d_createFailures \in Nat
      /\ worker \in [Thread -> WorkerState] /\ Null \notin Job
      /\ status \in [Job -> Status] /\ reply \in [Job -> {"none", "ok", "error"}]
      /\ d_enabled \in BOOLEAN
  BY CountsOfNone, PoolAssumption DEF ManagedInv, PoolInv, TypeOK, PoolAssumption
<1>4. CASE /\ status' = [status EXCEPT ![j] = "refused"]
           /\ reply' = [reply EXCEPT ![j] = "error"]
           /\ UNCHANGED <<poolVars, workerVars>>
  <2>1. UNCHANGED <<d_queue, d_threadCount, d_numActiveThreads, d_createFailures,
                    worker, functor, d_enabled>>
    BY <1>4 DEF poolVars, workerVars
  <2>2. \A i \in Job : /\ status'[i] = "queued" => status[i] = "queued" /\ i # j
                       /\ status'[i] = "running" => status[i] = "running"
                       /\ i # j => reply'[i] = reply[i]
    BY <1>1, <1>3, <1>4
  <2>3. StatusRight'
    BY <2>1, <2>2 DEF ManagedInv, StatusRight
  <2>4. NullsRight'
    <3>1. CASE Stopping
      <4>1. PICK s \in Seq(Job) : d_queue = s \o Nulls(d_threadCount)
        BY <3>1 DEF ManagedInv, NullsRight
      <4> QED BY <1>2, <2>1, <3>1, <4>1 DEF ManagedInv, NullsRight
    <3>2. CASE ~Stopping
      BY <1>2, <2>1, <3>2 DEF ManagedInv, NullsRight
    <3> QED BY <3>1, <3>2
  <2>5. MinimumRight' /\ JobsHaveThreads'
    BY <1>2, <2>1 DEF ManagedInv, MinimumRight, JobsHaveThreads
  <2> QED BY <1>2, <2>3, <2>4, <2>5
<1>5. CASE /\ d_enabled
           /\ doEnqueueJobs(d_queue, <<j>>)
           /\ StartThreadIfNeeded(j)
           /\ status' = [status EXCEPT ![j] = "queued"]
           /\ UNCHANGED <<d_numActiveThreads, d_enabled, timed, functor>>
  <2>1. ~Stopping /\ d_queue \in Seq(Job)
    BY <1>5 DEF ManagedInv, NullsRight
  <2>2. /\ d_queue' \in Seq(Job) /\ Len(d_queue') = Len(d_queue) + 1
        /\ \A i \in 1 .. Len(d_queue) : d_queue'[i] = d_queue[i]
        /\ d_queue'[Len(d_queue) + 1] = j
    <3>1. <<j>> \in Seq(Job) /\ Len(<<j>>) = 1 /\ <<j>>[1] = j
      BY <1>1
    <3>2. d_queue' = d_queue \o <<j>>
      BY <1>5 DEF doEnqueueJobs
    <3> QED BY <1>3, <2>1, <3>1, <3>2, ConcatProperties
  <2>3. \A x : (x = j \/ \E i \in 1 .. Len(d_queue) : d_queue[i] = x)
               => \E i \in 1 .. Len(d_queue') : d_queue'[i] = x
    <3>1. /\ Len(d_queue) + 1 \in 1 .. Len(d_queue')
          /\ \A i \in 1 .. Len(d_queue) : i \in 1 .. Len(d_queue')
      BY <1>3, <2>2
    <3> QED BY <2>2, <3>1
  <2>4. NullsRight'
    BY <1>2, <2>1, <2>2 DEF NullsRight
  <2> DEFINE needed == /\ Len(d_queue) + 1 + d_numActiveThreads > d_threadCount
                       /\ d_threadCount < MaxThreads
  <2>5. \/ /\ ~needed
           /\ UNCHANGED <<d_threadCount, d_createFailures, worker>>
           /\ reply' = [reply EXCEPT ![j] = "ok"]
        \/ /\ needed
           /\ d_threadCount' = d_threadCount + 1
           /\ d_createFailures' = d_createFailures
           /\ \A t \in Thread : worker[t] = "run" => worker'[t] = "run"
        \/ /\ needed
           /\ d_createFailures' = d_createFailures + 1
           /\ UNCHANGED <<d_threadCount, worker>>
           /\ reply' = [reply EXCEPT ![j] = IF d_threadCount = 0 THEN "error"
                                            ELSE "ok"]
    <3>1. ASSUME NEW t \in Thread, startNewThreads({t})
          PROVE  /\ d_threadCount' = d_threadCount + 1
                 /\ \A u \in Thread : worker[u] = "run" => worker'[u] = "run"
      <4>1. Cardinality({t}) = 1
        BY FS_Singleton
      <4> QED BY <3>1, <4>1, <1>3 DEF startNewThreads
    <3> QED BY <1>5, <3>1 DEF StartThreadIfNeeded
  <2>6. \A t \in Thread : worker[t] = "run" => worker'[t] = "run"
    BY <2>5
  <2>7. d_threadCount' >= d_threadCount /\ d_threadCount' \in Nat
    BY <1>3, <2>5
  <2>8. MinimumRight'
    BY <1>2, <1>3, <1>5, <2>7 DEF ManagedInv, MinimumRight
  <2>9. JobsHaveThreads'
    <3>1. \/ d_createFailures # 0
          \/ Len(d_queue) + d_numActiveThreads <= d_threadCount
          \/ d_threadCount = MaxThreads
      BY <2>1, JobsWithoutNull DEF ManagedInv, JobsHaveThreads
    <3>2. d_numActiveThreads' = d_numActiveThreads
      BY <1>5
    <3>3. d_threadCount <= MaxThreads
      BY DEF ManagedInv, PoolInv, CountsAccurate
    <3>4. \/ d_createFailures' # 0
          \/ Len(d_queue) + 1 + d_numActiveThreads <= d_threadCount'
          \/ d_threadCount' = MaxThreads
      BY <1>3, <2>5, <3>1, <3>3
    <3> QED BY <1>3, <2>2, <3>2, <3>4 DEF JobsHaveThreads
  <2>10. StatusRight'
    <3>1. \A i \in Job : status'[i] = IF i = j THEN "queued" ELSE status[i]
      BY <1>1, <1>3, <1>5
    <3>2. \A i \in Job : status'[i] = "queued" =>
             \E k \in 1 .. Len(d_queue') : d_queue'[k] = i
      BY <2>3, <3>1 DEF ManagedInv, StatusRight
    <3>3. \A i \in Job : status'[i] = "running" =>
             \E t \in Thread : worker'[t] = "run" /\ functor'[t] = i
      BY <1>5, <2>6, <3>1 DEF ManagedInv, StatusRight
    <3>4. ASSUME d_threadCount' = 0, MaxThreads # 0, NEW i \in Job, status'[i] = "queued"
          PROVE  reply'[i] = "error"
      <4>1. d_threadCount = 0 /\ needed
        BY <1>3, <2>7, <3>4
      <4>2. reply' = [reply EXCEPT ![j] = "error"]
        BY <1>3, <2>5, <3>4, <4>1
      <4>3. CASE i = j
        BY <1>1, <1>3, <4>2, <4>3
      <4>4. CASE i # j
        <5>1. reply[i] = "error"
          BY <3>1, <3>4, <4>1, <4>4 DEF ManagedInv, StatusRight
        <5> QED BY <1>3, <4>2, <4>4, <5>1
      <4> QED BY <4>3, <4>4
    <3> QED BY <3>2, <3>3, <3>4 DEF StatusRight
  <2> QED BY <1>2, <2>4, <2>8, <2>9, <2>10
<1> QED BY <1>4, <1>5 DEF enqueueJob, j

LEMMA StartManaged ==
    ASSUME OneManager, ManagedInv, NEW c \in Caller, start(c)
    PROVE  /\ NullsRight' /\ CallersRight' /\ StatusRight' /\ MinimumRight'
           /\ JobsHaveThreads'
<1> DEFINE missing == IF d_threadCount < MinThreads
                      THEN MinThreads - d_threadCount ELSE 0
<1>1. /\ caller[c] = "idle" /\ step[c] < Len(script[c]) /\ NextCall(c).op = "start"
      /\ d_enabled' = TRUE
      /\ UNCHANGED <<d_queue, d_numActiveThreads, functor, status, reply>>
  BY DEF start, Calling, jobVars
<1>2. PICK S \in SUBSET Thread :
         /\ startNewThreads(S)
         /\ \/ /\ Cardinality(S) = missing
               /\ Return(c)
               /\ UNCHANGED d_createFailures
            \/ /\ MayFail /\ Cardinality(S) < missing
               /\ WaitIn(c, "start_failed")
               /\ d_createFailures' = d_createFailures + 1
  BY DEF start
<1>3. ~OthersStop(c) /\ \A d \in Caller \ {c} : caller[d] # "start_failed"
  BY <1>1, ManagerAlone DEF ManagedInv, PoolInv
<1>4. ~Stopping /\ d_queue \in Seq(Job)
  BY <1>1, <1>3 DEF Stopping, OthersStop, ManagedInv, NullsRight
<1>5. /\ CallersRight' /\ ~Stopping'
      /\ Return(c) \/ caller'[c] = "start_failed"
  <2>1. CASE Return(c)
    BY <1>3, <2>1, ReturnCallers DEF ManagedInv, PoolInv
  <2>2. CASE WaitIn(c, "start_failed")
    BY <1>1, <1>3, <2>2, WaitInCallers DEF ManagedInv, PoolInv
  <2> QED BY <1>2, <2>1, <2>2
<1>6. NullsRight'
  BY <1>1, <1>4, <1>5 DEF NullsRight
<1>7. /\ d_numActiveThreads \in Nat /\ d_threadCount \in Nat /\ Len(d_queue) \in Nat
      /\ MinThreads \in Nat /\ MaxThreads \in Nat /\ MinThreads <= MaxThreads
      /\ d_createFailures \in Nat
      /\ worker \in [Thread -> WorkerState] /\ Cardinality(S) \in Nat
      /\ d_threadCount' = d_threadCount + Cardinality(S)
  BY <1>2, CountsOfNone, ThreadsFinite, PoolAssumption
     DEF ManagedInv, PoolInv, TypeOK, startNewThreads, PoolAssumption
<1>8. \A t \in Thread : worker[t] = "run" => worker'[t] = "run"
  BY <1>2, <1>7 DEF startNewThreads
<1>9. StatusRight'
  <2>1. d_threadCount' = 0 => d_threadCount = 0
    BY <1>7
  <2> QED BY <1>1, <1>8, <2>1 DEF ManagedInv, StatusRight
<1>10. MinimumRight'
  <2>1. CASE Cardinality(S) = missing
    BY <1>7, <2>1 DEF MinimumRight
  <2>2. CASE caller'[c] = "start_failed"
    BY <2>2 DEF MinimumRight
  <2>3. CASE WaitIn(c, "start_failed")
    BY <2>2, <2>3 DEF WaitIn, ManagedInv, PoolInv, TypeOK
  <2> QED BY <1>2, <2>1, <2>3
<1>11. JobsHaveThreads'
  <2>1. \/ d_createFailures # 0
        \/ Len(d_queue) + d_numActiveThreads <= d_threadCount
        \/ d_threadCount = MaxThreads
    BY <1>4, JobsWithoutNull DEF ManagedInv, JobsHaveThreads
  <2>2. d_createFailures' = d_createFailures \/ d_createFailures' = d_createFailures + 1
    BY <1>2
  <2>3. d_threadCount = MaxThreads => Cardinality(S) = 0 \/ d_createFailures' # 0
    BY <1>2, <1>7
  <2>4. \/ d_createFailures' # 0
        \/ Len(d_queue) + d_numActiveThreads <= d_threadCount'
        \/ d_threadCount' = MaxThreads
    BY <1>7, <2>1, <2>2, <2>3
  <2> QED BY <1>1, <2>4 DEF JobsHaveThreads
<1> QED BY <1>5, <1>6, <1>9, <1>10, <1>11

\* Every thread is told to leave, behind the jobs that are kept.
LEMMA TellThreadsToLeave ==
    ASSUME OneManager, ManagedInv, NEW c \in Caller, NEW s \in Seq(Job),
           NEW state \in {"stop", "shutdown"},
           step[c] < Len(script[c]),
           \/ NextCall(c).op = state
           \/ NextCall(c).op = "start" /\ state = "shutdown",
           s = d_queue \/ s = <<>>,
           d_queue' = s \o Nulls(d_threadCount), d_enabled' = FALSE,
           IF d_threadCount # 0 THEN WaitIn(c, state) ELSE Return(c),
           UNCHANGED <<d_threadCount, d_numActiveThreads, d_createFailures,
                       worker, functor>>
    PROVE  NullsRight' /\ CallersRight' /\ MinimumRight' /\ JobsHaveThreads'
<1>1. ~OthersStop(c)
  BY ManagerAlone DEF ManagedInv, PoolInv
<1>2. /\ d_numActiveThreads \in Nat /\ d_threadCount \in Nat /\ Len(d_queue) \in Nat
      /\ d_numActiveThreads <= d_threadCount
  BY CountsOfNone DEF ManagedInv
<1>3. MinimumRight'
  BY DEF MinimumRight
<1>4. CASE d_threadCount # 0
  <2>1. CallersRight' /\ Stopping'
    BY <1>4, WaitInCallers DEF ManagedInv, PoolInv
  <2>2. NullsRight'
    BY <2>1 DEF NullsRight
  <2>3. \E i \in 1 .. Len(d_queue') : d_queue'[i] = Null
    BY <1>2, <1>4, NullsRightOf
  <2>4. JobsHaveThreads'
    BY <2>3 DEF JobsHaveThreads
  <2> QED BY <1>3, <2>1, <2>2, <2>4
<1>5. CASE d_threadCount = 0
  <2>1. CallersRight' /\ ~Stopping'
    BY <1>1, <1>5, ReturnCallers DEF ManagedInv, PoolInv
  <2>2. d_queue' = s
    BY <1>5, NoNulls
  <2>3. NullsRight'
    BY <2>1, <2>2 DEF NullsRight
  <2>4. JobsHaveThreads'
    <3>1. CASE s = d_queue
      BY <2>2, <3>1 DEF ManagedInv, JobsHaveThreads
    <3>2. CASE s = <<>>
      <4>1. Len(d_queue') = 0
        BY <2>2, <3>2
      <4> QED BY <1>2, <1>5, <4>1 DEF JobsHaveThreads
    <3> QED BY <3>1, <3>2
  <2> QED BY <1>3, <2>1, <2>3, <2>4
<1> QED BY <1>4, <1>5

LEMMA StopManaged ==
    ASSUME OneManager, ManagedInv, NEW c \in Caller, stop(c)
    PROVE  /\ NullsRight' /\ CallersRight' /\ StatusRight' /\ MinimumRight'
           /\ JobsHaveThreads'
<1>1. /\ caller[c] = "idle" /\ step[c] < Len(script[c]) /\ NextCall(c).op = "stop"
      /\ d_enabled' = FALSE
      /\ d_queue' = d_queue \o Nulls(d_threadCount)
      /\ IF d_threadCount # 0 THEN WaitIn(c, "stop") ELSE Return(c)
      /\ UNCHANGED <<d_threadCount, d_numActiveThreads, d_createFailures,
                     worker, functor, status, reply>>
  BY DEF stop, Calling, jobVars, doEnqueueJobs
<1>2. ~Stopping /\ d_queue \in Seq(Job)
  <2>1. ~OthersStop(c)
    BY <1>1, ManagerAlone DEF ManagedInv, PoolInv
  <2> QED BY <1>1, <2>1 DEF Stopping, OthersStop, ManagedInv, NullsRight
<1>3. NullsRight' /\ CallersRight' /\ MinimumRight' /\ JobsHaveThreads'
  BY <1>1, <1>2, TellThreadsToLeave
<1>4. StatusRight'
  <2>1. d_threadCount \in Nat
    BY CountsOfNone DEF ManagedInv
  <2>2. \A j : (\E i \in 1 .. Len(d_queue) : d_queue[i] = j)
               => \E i \in 1 .. Len(d_queue') : d_queue'[i] = j
    <3>1. PICK s \in Seq(Job) : s = d_queue
      BY <1>2
    <3>2. PICK q : q = s \o Nulls(d_threadCount) /\ q = d_queue'
      BY <1>1, <3>1
    <3>3. \A j : (\E i \in 1 .. Len(s) : s[i] = j) => \E i \in 1 .. Len(q) : q[i] = j
      <4>1. \A j : (\E i \in 1 .. Len(s) : s[i] = j)
                   => \E i \in 1 .. Len(s \o Nulls(d_threadCount)) :
                         (s \o Nulls(d_threadCount))[i] = j
        BY <2>1, NullsRightOf
      <4> QED BY <3>2, <4>1
    <3> QED BY <3>1, <3>2, <3>3
  <2> QED BY <1>1, <2>2 DEF ManagedInv, StatusRight
<1> QED BY <1>3, <1>4

LEMMA ShutdownManaged ==
    ASSUME OneManager, ManagedInv, NEW c \in Caller, shutdown(c)
    PROVE  /\ NullsRight' /\ CallersRight' /\ StatusRight' /\ MinimumRight'
           /\ JobsHaveThreads'
<1>1. /\ d_enabled' = FALSE
      /\ d_queue' = <<>> \o Nulls(d_threadCount)
      /\ IF d_threadCount # 0 THEN WaitIn(c, "shutdown") ELSE Return(c)
      /\ CancelQueued
      /\ UNCHANGED <<d_threadCount, d_numActiveThreads, d_createFailures,
                     worker, functor, reply>>
  BY DEF shutdown, doEnqueueJobs
<1>2. step[c] < Len(script[c]) /\ NextCall(c).op \in {"start", "shutdown"}
  BY DEF shutdown, Calling, ManagedInv, CallersRight
<1>3. <<>> \in Seq(Job)
  OBVIOUS
<1>4. NullsRight' /\ CallersRight' /\ MinimumRight' /\ JobsHaveThreads'
  BY <1>1, <1>2, <1>3, TellThreadsToLeave
<1>5. StatusRight'
  BY <1>1, CancelledStatus DEF ManagedInv, PoolInv
<1> QED BY <1>4, <1>5

\* The last of a call that waits.
LEMMA WaitManaged ==
    ASSUME OneManager, ManagedInv, NEW c \in Caller,
           drain(c) \/ drainAgain(c) \/ stopAgain(c) \/ join(c) \/ SpuriousWakeup(c)
    PROVE  /\ NullsRight' /\ CallersRight' /\ StatusRight' /\ MinimumRight'
           /\ JobsHaveThreads'
<1>1. /\ UNCHANGED <<d_queue, d_threadCount, d_numActiveThreads, d_createFailures,
                     worker, functor, jobVars>>
      /\ d_enabled' = FALSE \/ d_enabled' = d_enabled
  BY DEF drain, drainAgain, stopAgain, join, SpuriousWakeup, poolVars, workerVars
<1>2. caller \in [Caller -> CallerState] /\ TypeOK /\ CallersRight
  BY DEF ManagedInv, PoolInv, TypeOK
<1>3. CASE Return(c) /\ caller[c] \in {"idle", "drain"}
  <2>1. CallersRight' /\ (Stopping' <=> Stopping)
    BY <1>2, <1>3, ReturnCallers DEF Stopping, OthersStop
  <2>2. \A d \in Caller : caller[d] = "start_failed" => caller'[d] = "start_failed"
    BY <1>2, <1>3, ReturnCallers
  <2> QED BY <1>1, <2>1, <2>2, QuietManaged
<1>4. CASE /\ WaitIn(c, "drain") /\ step[c] < Len(script[c])
           /\ NextCall(c).op = "drain" /\ caller[c] \in {"idle", "drain"}
  <2>1. CallersRight' /\ (Stopping' <=> Stopping)
    BY <1>2, <1>4, WaitInCallers DEF Stopping, OthersStop
  <2>2. \A d \in Caller : caller[d] = "start_failed" => caller'[d] = "start_failed"
    BY <1>2, <1>4, WaitInCallers
  <2> QED BY <1>1, <2>1, <2>2, QuietManaged
<1>5. CASE WaitIn(c, "stop") /\ caller[c] = "stop" /\ UNCHANGED poolVars
  <2>1. UNCHANGED <<caller, script, step>>
    BY <1>2, <1>5 DEF WaitIn
  <2> QED BY <1>1, <1>2, <2>1, QuietManaged, SameCallers DEF ManagedInv
<1>6. CASE UNCHANGED <<caller, script, step>>
  BY <1>1, <1>2, <1>6, QuietManaged, SameCallers DEF ManagedInv
<1>7. CASE stopAgain(c) /\ d_threadCount = 0
  <2>1. caller[c] = "stop" /\ Return(c) /\ d_enabled' = d_enabled
    BY <1>7 DEF stopAgain, poolVars
  <2>2. step[c] < Len(script[c]) /\ NextCall(c).op = "stop"
    BY <1>2, <2>1 DEF CallersRight
  <2>3. CallersRight' /\ ~Stopping'
    <3>1. ~OthersStop(c)
      BY <1>2, <2>2, ManagerAlone
    <3> QED BY <1>2, <2>1, <3>1, ReturnCallers
  <2>4. NullsRight'
    <3>1. PICK s \in Seq(Job) : d_queue = s \o Nulls(d_threadCount)
      BY <2>1 DEF ManagedInv, NullsRight, Stopping
    <3>2. d_queue \in Seq(Job)
      BY <1>7, <3>1, NoNulls
    <3> QED BY <1>1, <2>3, <3>2 DEF NullsRight
  <2>5. MinimumRight'
    BY <2>1 DEF ManagedInv, NullsRight, MinimumRight, Stopping
  <2> QED BY <1>1, <2>3, <2>4, <2>5
          DEF ManagedInv, StatusRight, JobsHaveThreads, jobVars
<1>8. CASE drain(c)
  BY <1>3, <1>4, <1>8 DEF drain, Calling
<1>9. CASE drainAgain(c)
  BY <1>2, <1>3, <1>4, <1>9 DEF drainAgain, CallersRight
<1>10. CASE stopAgain(c)
  BY <1>5, <1>7, <1>10 DEF stopAgain
<1>11. CASE join(c)
  BY <1>3, <1>11 DEF join, Calling
<1>12. CASE SpuriousWakeup(c)
  BY <1>6, <1>12 DEF SpuriousWakeup
<1> QED BY <1>8, <1>9, <1>10, <1>11, <1>12

LEMMA ShutdownAgainManaged ==
    ASSUME OneManager, ManagedInv, NEW c \in Caller, shutdownAgain(c)
    PROVE  /\ NullsRight' /\ CallersRight' /\ StatusRight' /\ MinimumRight'
           /\ JobsHaveThreads'
<1>1. /\ caller[c] = "shutdown"
      /\ UNCHANGED <<d_threadCount, d_numActiveThreads, d_createFailures,
                     d_enabled, worker, functor, reply>>
  BY DEF shutdownAgain, workerVars
<1>2. /\ TypeOK /\ CallersRight /\ caller \in [Caller -> CallerState]
      /\ step[c] < Len(script[c]) /\ NextCall(c).op \in {"start", "shutdown"}
  BY <1>1 DEF ManagedInv, PoolInv, TypeOK, CallersRight
<1>3. CASE d_threadCount # 0
  <2>1. WaitIn(c, "shutdown") /\ UNCHANGED <<d_queue, status>>
    BY <1>3 DEF shutdownAgain
  <2>2. UNCHANGED <<caller, script, step>>
    BY <1>1, <1>2, <2>1 DEF WaitIn
  <2> QED BY <1>1, <2>1, <2>2, QuietManaged, SameCallers DEF ManagedInv, jobVars
<1>4. CASE d_threadCount = 0
  <2>1. Return(c) /\ d_queue' = <<>> /\ CancelQueued
    BY <1>4 DEF shutdownAgain
  <2>2. CallersRight' /\ ~Stopping'
    <3>1. ~OthersStop(c)
      BY <1>2, ManagerAlone
    <3> QED BY <1>2, <2>1, <3>1, ReturnCallers
  <2>3. NullsRight'
    BY <2>1, <2>2 DEF NullsRight
  <2>4. StatusRight'
    BY <1>1, <1>2, <2>1, CancelledStatus DEF ManagedInv
  <2>5. MinimumRight'
    BY <1>1 DEF ManagedInv, NullsRight, MinimumRight, Stopping
  <2>6. JobsHaveThreads'
    <3>1. Len(d_queue') = 0
      BY <2>1
    <3>2. d_numActiveThreads = 0
      BY <1>4, CountsOfNone DEF ManagedInv
    <3> QED BY <1>1, <1>4, <3>1, <3>2 DEF JobsHaveThreads
  <2> QED BY <2>2, <2>3, <2>4, <2>5, <2>6
<1> QED BY <1>3, <1>4

-----------------------------------------------------------------------------
(* The stronger invariant, and what follows from it *)

LEMMA InitManaged == Init => ManagedInv
<1> SUFFICES ASSUME Init PROVE ManagedInv
  OBVIOUS
<1>1. PoolInv
  BY InitInv
<1>2. Len(d_queue) = 0 /\ d_queue \in Seq(Job) /\ ~Stopping
  BY DEF Init, Stopping
<1>3. NullsRight /\ CallersRight /\ StatusRight /\ MinimumRight
  BY <1>2 DEF Init, NullsRight, CallersRight, StatusRight, MinimumRight
<1>4. JobsHaveThreads
  BY <1>2 DEF Init, JobsHaveThreads
<1> QED BY <1>1, <1>3, <1>4 DEF ManagedInv

LEMMA NextManaged ==
    ASSUME OneManager, ManagedInv, [PoolNext]_vars
    PROVE  ManagedInv'
<1>1. PoolInv'
  BY NextInv DEF ManagedInv
<1> DEFINE Rest == /\ NullsRight' /\ CallersRight' /\ StatusRight' /\ MinimumRight'
                   /\ JobsHaveThreads'
<1>2. CASE UNCHANGED vars
  <2>1. /\ UNCHANGED <<d_queue, d_threadCount, d_numActiveThreads, d_createFailures,
                       worker, functor, jobVars>>
        /\ UNCHANGED <<caller, script, step>> /\ d_enabled' = d_enabled
    BY <1>2 DEF vars, poolVars, workerVars, callerVars
  <2>2. Rest
    BY <2>1, SameCallers, QuietManaged DEF ManagedInv
  <2> QED BY <1>1, <2>2 DEF ManagedInv
<1>3. ASSUME NEW t \in Thread, workerThread(t) \/ TimeOut(t)
      PROVE  Rest
  BY <1>3, WorkerManaged
<1>4. ASSUME NEW c \in Caller, call(c) \/ Continue(c) \/ SpuriousWakeup(c)
      PROVE  Rest
  <2>1. CASE enqueueJob(c)
    BY <2>1, EnqueueJobManaged
  <2>2. CASE start(c)
    BY <2>2, StartManaged
  <2>3. CASE stop(c)
    BY <2>3, StopManaged
  <2>4. CASE shutdown(c)
    BY <2>4, ShutdownManaged
  <2>5. CASE shutdownAgain(c)
    BY <2>5, ShutdownAgainManaged
  <2>6. CASE drain(c) \/ drainAgain(c) \/ stopAgain(c) \/ join(c) \/ SpuriousWakeup(c)
    BY <2>6, WaitManaged
  <2> QED BY <1>4, <2>1, <2>2, <2>3, <2>4, <2>5, <2>6 DEF call, Continue
<1>5. CASE PoolNext
  <2>1. Rest
    BY <1>2, <1>3, <1>4, <1>5 DEF PoolNext, Done, ManagedInv
  <2> QED BY <1>1, <2>1 DEF ManagedInv
<1> QED BY <1>2, <1>5

\* Where one client decides what threads there should be, the queue holds a null
\* job for every thread while they are to leave and none at other times, and
\* what the jobs' clients were told is true.
THEOREM ManagedInvariant ==
    ASSUME OneManager
    PROVE  Spec => []ManagedInv
<1>1. ManagedInv /\ [PoolNext]_vars => ManagedInv'
  BY NextManaged
<1> QED BY <1>1, InitManaged, PTL DEF Spec

\* The pool has the threads that its load and its minimum ask for, however the
\* clients that enqueue, drain and join interleave with the one that starts and
\* stops it.
THEOREM EnoughThreadsHolds ==
    ASSUME OneManager
    PROVE  Spec => []EnoughThreads
<1>1. ManagedInv => EnoughThreads
  BY DEF ManagedInv, EnoughThreads, MinimumRight, MinThreadsMaintained
<1> QED BY <1>1, ManagedInvariant, PTL

\* A call that ends, ends in an action of its client.
LEMMA WhoReturns ==
    ASSUME ManagedInv, [PoolNext]_vars, NEW c \in Caller, step'[c] = step[c] + 1
    PROVE  (call(c) \/ Continue(c)) /\ Return(c)
<1>1. step \in [Caller -> Nat] /\ step'[c] # step[c]
  BY DEF ManagedInv, PoolInv, TypeOK
<1>2. ASSUME NEW t \in Thread, workerThread(t) \/ TimeOut(t)
      PROVE  step' = step
  BY <1>2 DEF workerThread, TimeOut, StartWorker, RunJob, FinishJob, WakeUp,
              LookForJob, Sleep, TakeJob, callerVars
<1>3. ASSUME NEW d \in Caller, call(d) \/ Continue(d) \/ SpuriousWakeup(d)
      PROVE  (Return(d) /\ (call(d) \/ Continue(d))) \/ step' = step
  BY <1>3 DEF call, Continue, SpuriousWakeup, enqueueJob, drain, stop, shutdown, start,
              join, drainAgain, stopAgain, shutdownAgain, WaitIn
<1>4. ASSUME NEW d \in Caller, Return(d)
      PROVE  d = c
  BY <1>1, <1>4 DEF Return
<1>5. step' # step
  BY <1>1
<1> QED BY <1>2, <1>3, <1>4, <1>5 DEF PoolNext, Done, vars, callerVars

\* A call that ends does not wait.
LEMMA ReturnOrWait ==
    ASSUME TypeOK, NEW c \in Caller, Return(c), NEW state
    PROVE  ~WaitIn(c, state)
BY DEF Return, WaitIn, TypeOK

\* When no thread is left, nothing runs, and what is queued was refused.
LEMMA NobodyLeft ==
    ASSUME ManagedInv, MaxThreads # 0, d_threadCount = 0
    PROVE  /\ \A t \in Thread : worker[t] = "none"
           /\ \A j \in Job : /\ status[j] # "running"
                             /\ status[j] = "queued" => reply[j] = "error"
BY CountsOfNone DEF ManagedInv, StatusRight

\* When drain has nothing left to wait for, neither is there anything left to do.
LEMMA NothingBusy ==
    ASSUME ManagedInv, MaxThreads # 0, ~Busy
    PROVE  \A j \in Job : /\ status[j] # "running"
                          /\ status[j] = "queued" => reply[j] = "error"
<1>1. \A j \in Job : status[j] # "running"
  BY CountsOfNone DEF ManagedInv, StatusRight, Busy
<1>2. CASE d_threadCount = 0
  BY <1>2, NobodyLeft
<1>3. CASE d_queue = <<>>
  <2>1. Len(d_queue) = 0
    BY <1>3
  <2>2. \A j \in Job : status[j] # "queued"
    BY <2>1 DEF ManagedInv, StatusRight
  <2> QED BY <1>1, <2>2
<1> QED BY <1>2, <1>3 DEF Busy

\* drain returns when all that was accepted is done, stop and shutdown when no
\* thread is left either, and shutdown when nothing is left in the queue: from
\* every state that any number of threads, jobs and clients can reach.  (A pool
\* whose maximum is zero accepts jobs and never runs them.)
THEOREM ReturnsWhenDoneHolds ==
    ASSUME OneManager, MaxThreads # 0
    PROVE  Spec => ReturnsWhenDone
<1> DEFINE Step(c) ==
      /\ Returns(c, "drain") \/ Returns(c, "stop") =>
            \A j \in Job : /\ status'[j] # "running"
                           /\ status'[j] = "queued" => reply'[j] = "error"
      /\ Returns(c, "shutdown") =>
            \A j \in Job : status'[j] \notin {"queued", "running"}
      /\ Returns(c, "stop") \/ Returns(c, "shutdown") =>
            \A t \in Thread : worker'[t] = "none"
<1>1. ASSUME ManagedInv, [PoolNext]_vars, NEW c \in Caller
      PROVE  Step(c)
  <2> USE <1>1
  <2>1. CASE Returns(c, "drain")
    <3>1. (drain(c) \/ drainAgain(c)) /\ Return(c)
      BY <2>1, WhoReturns
         DEF Returns, call, Continue, enqueueJob, stop, shutdown, start, join, Calling,
             stopAgain, shutdownAgain, ManagedInv, CallersRight
    <3>2. ~Busy
      BY <3>1, ReturnOrWait DEF drain, drainAgain, ManagedInv, PoolInv
    <3> QED BY <2>1, <3>1, <3>2, NothingBusy
            DEF drain, drainAgain, jobVars, Returns
  <2>2. CASE Returns(c, "stop")
    <3>1. (stop(c) \/ stopAgain(c)) /\ Return(c)
      BY <2>2, WhoReturns
         DEF Returns, call, Continue, enqueueJob, drain, shutdown, start, join, Calling,
             drainAgain, shutdownAgain, ManagedInv, CallersRight
    <3>2. d_threadCount = 0
      BY <3>1, ReturnOrWait DEF stop, stopAgain, ManagedInv, PoolInv
    <3>3. UNCHANGED <<worker, status, reply>>
      BY <3>1 DEF stop, stopAgain, jobVars, workerVars
    <3> QED BY <2>2, <3>2, <3>3, NobodyLeft DEF Returns
  <2>3. CASE Returns(c, "shutdown")
    <3>1. (shutdown(c) \/ shutdownAgain(c)) /\ Return(c)
      BY <2>3, WhoReturns
         DEF Returns, call, Continue, enqueueJob, drain, stop, start, join, Calling,
             drainAgain, stopAgain, ManagedInv, CallersRight
    <3>2. d_threadCount = 0 /\ CancelQueued
      BY <3>1, ReturnOrWait DEF shutdown, shutdownAgain, ManagedInv, PoolInv
    <3>3. UNCHANGED <<worker, functor>>
      BY <3>1 DEF shutdown, shutdownAgain, workerVars
    <3>4. \A j \in Job : status'[j] # "queued" /\ status'[j] = "running" => status[j] = "running"
      BY <3>2 DEF CancelQueued
    <3>5. \A j \in Job : status'[j] # "queued"
      BY <3>2, <3>3, CancelledStatus DEF ManagedInv, PoolInv
    <3> QED BY <2>3, <3>2, <3>3, <3>4, <3>5, NobodyLeft DEF Returns
  <2> QED BY <2>1, <2>2, <2>3
<1>2. ManagedInv /\ [PoolNext]_vars => [\A c \in Caller : Step(c)]_vars
  BY <1>1
<1> QED BY <1>2, ManagedInvariant, PTL DEF Spec, ReturnsWhenDone

=============================================================================
