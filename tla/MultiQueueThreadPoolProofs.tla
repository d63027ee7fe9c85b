--------------------- MODULE MultiQueueThreadPoolProofs ---------------------
(***************************************************************************)
(* Proofs about MultiQueueThreadPool, for any number of clients, threads,  *)
(* queues and jobs and all programs in which one thread stops and shuts    *)
(* down the pool.                                                          *)
(***************************************************************************)
EXTENDS MultiQueueThreadPool, FiniteSetTheorems, SequenceTheorems, TLAPS

-----------------------------------------------------------------------------
(* What there is of one queue in the thread pool *)

\* The callback of queue q in the thread pool's queue, as a set; what worker w
\* does for q, and for whom.
JobsAt(q) == {b \in ToSet(jobs) : b.queue = q}

Phase(w, q) ==
    IF ~Serving(w, q) THEN "none"
    ELSE IF at[w].pc = "finish" THEN "batch" ELSE at[w].pc

SignalAt(w, q) == IF Serving(w, q) THEN at[w].signal ELSE None

Deletions(q)   == {Deletion(q, s) : s \in Thread \cup {None}}
IsScheduled(q) == d_runState[q] \in {"SCHEDULED", "PAUSING"}
IsDeleting(q)  == d_enqueueState[q] = "DELETING"
Active(q)      == IsScheduled(q) \/ IsDeleting(q)

\* The callback of a scheduled queue, and the one that deletes it.
HasCallback(q) == \/ Callback(q) \in JobsAt(q)
                  \/ \E w \in Worker : Phase(w, q) \in {"execute", "batch"}
HasDeletion(q) == \/ JobsAt(q) \cap Deletions(q) # {}
                  \/ \E w \in Worker : Phase(w, q) \in {"delete", "release"}

\* The threads in pauseQueue that have the address of q.
Pausers(q) == {t \in Thread : ptr[t] = q}

-----------------------------------------------------------------------------
(* The inductive invariant *)

CallbackSet == {Foreign} \cup {Callback(q) : q \in Queue}
                   \cup UNION {Deletions(q) : q \in Queue}
WorkSet     == [pc : WorkerPC, queue : Queue \cup {0}, signal : Thread \cup {None}]

CallTypes ==
    /\ at \in [Worker -> WorkSet]
    /\ d_batch \in [Queue -> Seq(Job)]
    /\ pc \in [Thread -> CallPC]
    /\ ptr \in [Thread -> Queue \cup {0}]
    /\ step \in [Client -> Nat]
    /\ \A w \in Worker : at[w].pc \in {"idle", "foreign"} <=> at[w].queue = 0

QueueTypes ==
    /\ d_list \in [Queue -> Seq(Job \cup CallbackSet)]
    /\ d_batchSize \in [Queue -> Nat \ {0}]
    /\ d_enqueueState \in [Queue -> {"ENABLED", "DISABLED", "DELETING"}]
    /\ d_runState \in
          [Queue -> {"NOT_SCHEDULED", "SCHEDULED", "PAUSING", "PAUSED"}]
    /\ d_pauseCount \in [Queue -> Int]
    /\ d_processor \in [Queue -> Worker \cup {None}]
    /\ held \in [Queue -> {"no", "asked", "yes"}]

RegistryTypes ==
    /\ d_nextId \in Nat \ {0}
    /\ DOMAIN d_queueRegistry \subseteq 1 .. d_nextId - 1
    /\ d_queueRegistry \in [DOMAIN d_queueRegistry -> Queue]
    /\ free \subseteq Queue
    /\ d_state \in {"RUNNING", "STOPPING", "STOPPED"}
    /\ d_lock \in [readers : SUBSET Thread, writer : Thread \cup {None}]

OtherTypes ==
    /\ d_numActiveQueues \in Int /\ reported \in Int
    /\ d_numExecuted \in Nat /\ d_numEnqueued \in Nat /\ d_numDeleted \in Nat
    /\ enabled \in BOOLEAN
    /\ latch \in [Thread -> Int]
    /\ woken \subseteq Thread
    /\ program \in Programs
    /\ d_threadPoolIsOwned \in BOOLEAN

\* The thread pool has a callback once; the counts are shown to be natural
\* numbers below, by what they count.
Types == CallTypes /\ QueueTypes /\ RegistryTypes /\ OtherTypes

JobsRight ==
    /\ jobs \in Seq(CallbackSet)
    /\ IsInjective(jobs)

\* There is one callback of a queue at most, in the thread pool's queue or at a
\* worker.
OnePlace(q) ==
    /\ \A b, c \in JobsAt(q) : b = c
    /\ \A w \in Worker : Phase(w, q) # "none" =>
          /\ JobsAt(q) = {}
          /\ \A v \in Worker : Phase(v, q) # "none" => v = w

\* A queue's state says what callback it has, and its processor who is in one of
\* its batches.
StateRight(q) ==
    /\ HasCallback(q) <=> IsScheduled(q)
    /\ HasDeletion(q) <=> IsDeleting(q) /\ ~IsScheduled(q)
    /\ IsDeleting(q) => d_runState[q] # "SCHEDULED"
    /\ \A w \in Worker : Phase(w, q) = "batch" => d_processor[q] = w

\* A queue's list is of jobs; one that is to be deleted after its job has
\* returned has the deletion in front.
ListRight(q) ==
    /\ ~IsDeleting(q) => d_list[q] \in Seq(Job)
    /\ IsDeleting(q) /\ IsScheduled(q) =>
          d_list[q] # <<>> /\ Head(d_list[q]) \in Deletions(q)
    /\ (Callback(q) \in JobsAt(q) \/ \E w \in Worker : Phase(w, q) = "execute")
          => d_list[q] # <<>>
    /\ ~IsDeleting(q) /\ d_runState[q] = "NOT_SCHEDULED" => d_list[q] = <<>>

\* A queue has an id, or is being deleted, or its object is free.
KnownRight(q) ==
    /\ q \in Registered => q \notin free /\ ~IsDeleting(q)
    /\ q \notin free /\ q \notin Registered => IsDeleting(q)
    /\ q \in free => ~IsDeleting(q) /\ d_runState[q] = "NOT_SCHEDULED"

\* The calls that pause a queue and wait are counted, and the queue is kept.  A
\* queue that is asked to pause does not begin a batch; once a pause is in force
\* it is in none.
PauseRight(q) ==
    /\ d_pauseCount[q] = Cardinality(Pausers(q))
    /\ q \in free => Pausers(q) = {}
    /\ (\E w \in Worker : Phase(w, q) = "release") => Pausers(q) = {}
    /\ held[q] # "no" => d_runState[q] \in {"PAUSING", "PAUSED"}
    /\ held[q] = "yes" => \A w \in Worker : Phase(w, q) # "batch"

QueueRight(q) ==
    OnePlace(q) /\ StateRight(q) /\ ListRight(q) /\ KnownRight(q) /\ PauseRight(q)

QueuesRight == \A q \in Queue : QueueRight(q)

\* A queue has one id.
IdsRight ==
    \A a, b \in DOMAIN d_queueRegistry :
        d_queueRegistry[a] = d_queueRegistry[b] => a = b

\* A queue has jobs to run exactly while a worker runs them.
BatchesRight ==
    /\ \A q \in Queue :
          d_batch[q] # <<>> => \E w \in Worker : at[w].pc = "batch" /\ at[w].queue = q
    /\ \A w \in Worker : at[w].pc = "batch" => d_batch[at[w].queue] # <<>>

\* A thread inside a call has a call to make; a worker makes it from a job.
CallsRight ==
    /\ \A c \in Client : /\ step[c] <= Len(program[c])
                         /\ pc[c] # "idle" => step[c] < Len(program[c])
    /\ \A w \in Worker : pc[w] # "idle" => at[w].pc = "batch"
    /\ \A t \in Thread : ptr[t] # 0 <=> pc[t] \in {"pause_wait", "pause_sleep"}

\* Without a call that pauses no queue is paused.
PausesRight ==
    MakesCall(program, "pauseQueue") \/
        /\ \A t \in Thread : ptr[t] = 0
        /\ \A q \in Queue :
              IsDeleting(q) \/ d_runState[q] \in {"NOT_SCHEDULED", "SCHEDULED"}

\* The deletions whose end thread t waits for, and those that are over but for
\* the arrival at its latch.
DeletionFor(q, t) ==
    \/ Deletion(q, t) \in JobsAt(q)
    \/ \E w \in Worker : Phase(w, q) \in {"delete", "release"} /\ SignalAt(w, q) = t
    \/ IsDeleting(q) /\ IsScheduled(q) /\ Head(d_list[q]) = Deletion(q, t)
Awaited(t)  == {q \in Queue : DeletionFor(q, t)}
Arriving(t) == {w \in Worker : at[w].pc \in {"count_down", "arrive"}
                               /\ at[w].signal = t}

LatchesRight ==
    /\ \A t \in Thread :
          /\ latch[t] = Cardinality(Awaited(t)) + Cardinality(Arriving(t))
          /\ pc[t] \notin {"latch", "shutdown_latch"} => latch[t] = 0
    /\ \A w \in Worker : at[w].pc = "arrive" => at[w].signal # None

\* The queues the thread pool has to do with are counted.
ActiveOnes   == {q \in Queue : Active(q)}
CountingDown == {w \in Worker : at[w].pc = "count_down"}

ActiveCounted ==
    d_numActiveQueues = Cardinality(ActiveOnes) + Cardinality(CountingDown)

\* The pool has nothing to do; nobody pauses a queue, and those that have an id
\* are new.
AtRest  == ActiveOnes = {}
NoPause == /\ \A t \in Thread : ptr[t] = 0
           /\ \A q \in Registered : d_runState[q] = "NOT_SCHEDULED"

StopPC == {"stop_wait", "stop_lock", "shutdown_wait", "shutdown_delete",
           "shutdown_latch", "shutdown_relock", "pool_drain"}

\* One thread stops the pool.  From the moment it has seen no active queue there
\* is none, but those it deletes; and when it has shut down the pool nobody
\* keeps the address of a queue.
StopperRight(t) ==
    /\ t \in Client
    /\ NextCall(t).op \in Stops
    /\ pc[t] \in {"stop_wait", "stop_lock"} => NextCall(t).op = "stop"
    /\ pc[t] \notin {"stop_wait", "stop_lock", "pool_drain"} =>
          NextCall(t).op = "shutdown"
    /\ IF pc[t] = "pool_drain"
       THEN d_state # "RUNNING" /\ d_lock.writer = t /\ ~enabled
       ELSE d_state = "STOPPING" /\ enabled
    /\ pc[t] \in {"stop_lock", "shutdown_delete", "shutdown_relock", "pool_drain"} =>
          AtRest
    /\ pc[t] = "shutdown_latch" =>
          /\ ActiveOnes \subseteq Awaited(t)
          /\ \A q \in Registered : d_runState[q] = "NOT_SCHEDULED"
          /\ \A u \in Thread : ptr[u] # 0 => IsDeleting(ptr[u])
    /\ pc[t] = "shutdown_relock" => NoPause
    /\ pc[t] = "pool_drain" /\ MakesCall(program, "shutdown") => NoPause

StoppingRight ==
    /\ \A t \in Thread : pc[t] \in StopPC => StopperRight(t)
    /\ d_state = "STOPPED" => AtRest
    /\ d_state = "STOPPED" /\ MakesCall(program, "shutdown") => NoPause
    /\ ~enabled => /\ d_state = "STOPPED" \/ \E t \in Thread : pc[t] = "pool_drain"
                   /\ d_threadPoolIsOwned
    /\ refused = FALSE

\* The jobs in the queues are those that were pushed and counted, or are about
\* to be.
JobsIn    == UNION {{q} \X DOMAIN d_list[q] : q \in {q \in Queue : ~IsDeleting(q)}}
Uncounted == {t \in Thread : pc[t] = "count"}

JobsCounted ==
    reported + d_numEnqueued - d_numExecuted - d_numDeleted
        + Cardinality(Uncounted) = Cardinality(JobsIn)

PoolInv ==
    /\ Types /\ JobsRight /\ QueuesRight /\ IdsRight /\ BatchesRight /\ CallsRight
    /\ PausesRight /\ LatchesRight /\ ActiveCounted /\ StoppingRight /\ JobsCounted

-----------------------------------------------------------------------------
(* Facts about the constants and the definitions *)

LEMMA Constants ==
    /\ 0 \notin Queue /\ Queue \subseteq Nat /\ IsFiniteSet(Queue)
    /\ IsFiniteSet(Thread) /\ IsFiniteSet(Worker)
    /\ None \notin Thread /\ None \notin Job /\ Client \cap Worker = {}
    /\ Worker \subseteq Thread /\ Client \subseteq Thread
<1>1. NumQueues \in Nat /\ IsFiniteSet(Thread)
  BY MultiQueueAssumption DEF MultiQueueAssumption
<1>2. IsFiniteSet(Queue)
  BY <1>1, FS_Interval DEF Queue
<1>3. IsFiniteSet(Worker)
  BY <1>1, FS_Subset DEF Thread
<1> QED BY <1>1, <1>2, <1>3, MultiQueueAssumption DEF MultiQueueAssumption, Queue, Thread

LEMMA TailEmpty ==
    ASSUME NEW S, NEW s \in Seq(S), s # <<>>
    PROVE  Tail(s) \in Seq(S) /\ (Tail(s) = <<>> <=> Len(s) = 1)
<1>1. Len(s) \in Nat /\ Len(s) > 0
  BY EmptySeq
<1>2. Tail(s) \in Seq(S) /\ Len(Tail(s)) = Len(s) - 1
  BY <1>1, HeadTailProperties
<1>3. Tail(s) = <<>> <=> Len(Tail(s)) = 0
  BY <1>2, EmptySeq
<1> QED BY <1>1, <1>2, <1>3

\* The parts of the invariant that speak of one queue depend on these.
SameQueue(q) ==
    /\ JobsAt(q)' = JobsAt(q)
    /\ \A w \in Worker : Phase(w, q)' = Phase(w, q) /\ SignalAt(w, q)' = SignalAt(w, q)
    /\ Pausers(q)' = Pausers(q)
    /\ d_list'[q] = d_list[q] /\ d_runState'[q] = d_runState[q]
    /\ d_pauseCount'[q] = d_pauseCount[q] /\ d_processor'[q] = d_processor[q]
    /\ held'[q] = held[q]
    /\ IsDeleting(q)' <=> IsDeleting(q)
    /\ (q \in free)' <=> q \in free
    /\ (q \in Registered)' <=> q \in Registered

LEMMA SameQueueKeeps ==
    ASSUME NEW q \in Queue, QueueRight(q), SameQueue(q)
    PROVE  QueueRight(q)'
<1>1. OnePlace(q)'
  BY DEF SameQueue, QueueRight, OnePlace
<1>2. HasCallback(q)' <=> HasCallback(q)
  BY DEF SameQueue, HasCallback, Callback
<1>3. HasDeletion(q)' <=> HasDeletion(q)
  BY DEF SameQueue, HasDeletion, Deletions, Deletion
<1>4. StateRight(q)'
  BY <1>2, <1>3 DEF SameQueue, QueueRight, StateRight, IsScheduled
<1>5. ListRight(q)'
  BY DEF SameQueue, QueueRight, ListRight, IsScheduled, Callback, Deletions, Deletion
<1>6. KnownRight(q)'
  BY DEF SameQueue, QueueRight, KnownRight
<1>7. PauseRight(q)'
  BY DEF SameQueue, QueueRight, PauseRight
<1> QED BY <1>1, <1>4, <1>5, <1>6, <1>7 DEF QueueRight

LEMMA SameQueueActive ==
    ASSUME NEW q \in Queue, SameQueue(q)
    PROVE  Active(q)' <=> Active(q)
BY DEF SameQueue, Active, IsScheduled

-----------------------------------------------------------------------------
(* Moves of a thread inside its call *)

\* A worker does for its queue what it did.
SameWork ==
    \A w \in Worker :
        /\ at'[w].queue = at[w].queue /\ at'[w].signal = at[w].signal
        /\ at'[w].pc = at[w].pc \/ (at[w].pc = "batch" /\ at'[w].pc = "finish")

LEMMA SameWorkPhases ==
    ASSUME SameWork
    PROVE  /\ \A w \in Worker, q \in Queue : /\ Phase(w, q)' = Phase(w, q)
                                             /\ SignalAt(w, q)' = SignalAt(w, q)
           /\ \A t \in Thread : Arriving(t)' = Arriving(t)
           /\ CountingDown' = CountingDown
<1>1. ASSUME NEW w \in Worker, NEW q \in Queue
      PROVE  Phase(w, q)' = Phase(w, q) /\ SignalAt(w, q)' = SignalAt(w, q)
  BY <1>1 DEF SameWork, Phase, SignalAt, Serving
<1>2. \A t \in Thread : Arriving(t)' = Arriving(t)
  BY DEF SameWork, Arriving
<1>3. CountingDown' = CountingDown
  BY DEF SameWork, CountingDown
<1> QED BY <1>1, <1>2, <1>3

\* What a move leaves of the invariant.
MoveRight == CallTypes' /\ SameWork /\ BatchesRight' /\ CallsRight'

LEMMA WorkMoves ==
    ASSUME NEW r \in WorkSet, NEW place \in WorkerPC
    PROVE  [r EXCEPT !.pc = place] \in WorkSet
BY DEF WorkSet

LEMMA ReturnMoves ==
    ASSUME NEW t \in Thread, CallTypes, QueuesRight, BatchesRight, CallsRight,
           MayCall(t), Return(t), program' = program
    PROVE  /\ MoveRight
           /\ pc' = [pc EXCEPT ![t] = "idle"] /\ ptr' = [ptr EXCEPT ![t] = 0]
           /\ \A c \in Client \ {t} : step'[c] = step[c]
<1> USE Constants
<1>0. pc' = [pc EXCEPT ![t] = "idle"] /\ ptr' = [ptr EXCEPT ![t] = 0]
  BY DEF Return
<1>1. CASE t \in Client
  <2>1. step' = [step EXCEPT ![t] = @ + 1] /\ UNCHANGED <<at, d_batch>>
    BY <1>1 DEF Return
  <2>2. CallTypes'
    BY <2>1, <1>0, <1>1 DEF CallTypes, CallPC
  <2>3. CallsRight'
    BY <2>1, <1>0, <1>1 DEF CallsRight, CallTypes, MayCall
  <2> QED BY <1>0, <1>1, <2>1, <2>2, <2>3 DEF MoveRight, SameWork, BatchesRight, CallTypes
<1>2. CASE t \in Worker
  <2> DEFINE q == at[t].queue
  <2>0. t \notin Client
    BY <1>2
  <2>1. /\ d_batch' = [d_batch EXCEPT ![at[t].queue] = Tail(@)]
        /\ at' = [at EXCEPT ![t].pc = IF Len(d_batch[at[t].queue]) = 1 THEN "finish"
                                      ELSE "batch"]
        /\ UNCHANGED step
    BY <2>0 DEF Return
  <2>2. at[t].pc = "batch" /\ at[t].queue \in Queue
    BY <2>0, <1>2 DEF MayCall, CallTypes, WorkSet
  <2>3. d_batch[at[t].queue] \in Seq(Job) /\ d_batch[at[t].queue] # <<>>
    BY <2>2, <1>2 DEF BatchesRight, CallTypes
  <2>4. /\ at'[t].pc \in {"batch", "finish"}
        /\ at'[t].queue = at[t].queue /\ at'[t].signal = at[t].signal
        /\ \A w \in Worker : w # t => at'[w] = at[w]
    BY <2>1, <1>2 DEF CallTypes, WorkSet
  <2>5. CallTypes'
    <3>1. at' \in [Worker -> WorkSet]
      <4>1. PICK place \in {"batch", "finish"} : at' = [at EXCEPT ![t].pc = place]
        BY <2>1
      <4>2. [at[t] EXCEPT !.pc = place] \in WorkSet
        <5>1. at[t] \in WorkSet /\ place \in WorkerPC
          BY <1>2 DEF CallTypes, WorkerPC
        <5> QED BY <5>1, WorkMoves
      <4> QED BY <4>1, <4>2, <1>2 DEF CallTypes
    <3>2. d_batch' \in [Queue -> Seq(Job)]
      BY <2>1, <2>2, <2>3 DEF CallTypes
    <3>3. \A w \in Worker : at'[w].pc \in {"idle", "foreign"} <=> at'[w].queue = 0
      BY <2>4, <2>2 DEF CallTypes
    <3> QED BY <3>1, <3>2, <3>3, <1>0, <2>1 DEF CallTypes, CallPC
  <2>6. SameWork
    BY <2>4, <2>2 DEF SameWork
  <2>7. ASSUME NEW w \in Worker, w # t, at[w].pc = "batch"
        PROVE  at[w].queue # at[t].queue
    <3>1. Phase(w, at[w].queue) # "none" /\ Phase(t, at[t].queue) # "none"
      BY <2>2, <2>7 DEF Phase, Serving
    <3> QED BY <3>1, <2>2, <2>7, <1>2 DEF QueuesRight, QueueRight, OnePlace
  <2>8. BatchesRight'
    <3>1. ASSUME NEW p \in Queue, d_batch'[p] # <<>>
          PROVE  \E w \in Worker : at'[w].pc = "batch" /\ at'[w].queue = p
      <4>1. CASE p = at[t].queue
        <5>1. Len(d_batch[at[t].queue]) # 1
          BY <3>1, <4>1, <2>1, <2>2, <2>3, TailEmpty DEF CallTypes
        <5>2. at'[t].pc = "batch"
          BY <5>1, <2>1, <1>2 DEF CallTypes, WorkSet
        <5> QED BY <5>2, <4>1, <2>4, <1>2
      <4>2. CASE p # at[t].queue
        <5>1. d_batch'[p] = d_batch[p]
          BY <4>2, <2>1 DEF CallTypes
        <5>2. PICK w \in Worker : at[w].pc = "batch" /\ at[w].queue = p
          BY <5>1, <3>1 DEF BatchesRight
        <5> QED BY <5>2, <4>2, <2>4
      <4> QED BY <4>1, <4>2
    <3>2. ASSUME NEW w \in Worker, at'[w].pc = "batch"
          PROVE  d_batch'[at'[w].queue] # <<>>
      <4>1. CASE w = t
        <5>1. Len(d_batch[at[t].queue]) # 1
          BY <3>2, <4>1, <2>1, <1>2 DEF CallTypes, WorkSet
        <5>2. Tail(d_batch[at[t].queue]) # <<>>
          BY <5>1, <2>3, TailEmpty
        <5> QED BY <5>2, <4>1, <2>1, <2>2, <2>4 DEF CallTypes
      <4>2. CASE w # t
        <5>1. at'[w] = at[w] /\ at[w].queue # at[t].queue /\ at[w].queue \in Queue
          BY <4>2, <2>4, <2>7, <3>2, <2>0 DEF CallTypes, WorkSet
        <5> QED BY <5>1, <3>2, <2>1 DEF BatchesRight, CallTypes
      <4> QED BY <4>1, <4>2
    <3> QED BY <3>1, <3>2 DEF BatchesRight
  <2>9. CallsRight'
    BY <2>1, <1>0, <2>4, <2>2, <1>2 DEF CallsRight, CallTypes
  <2> QED BY <2>5, <2>6, <2>8, <2>9, <1>0, <2>1 DEF MoveRight
<1> QED BY <1>1, <1>2 DEF Thread

LEMMA GotoMoves ==
    ASSUME NEW t \in Thread, CallTypes, BatchesRight, CallsRight,
           NEW place \in CallPC, MayCall(t) \/ place = "idle",
           Goto(t, place), program' = program,
           ptr' \in [Thread -> Queue \cup {0}],
           \A u \in Thread : ptr'[u] # 0 <=> pc'[u] \in {"pause_wait", "pause_sleep"}
    PROVE  /\ MoveRight /\ SameWork
           /\ pc' = [pc EXCEPT ![t] = place] /\ step' = step
<1> USE Constants
<1>1. pc' = [pc EXCEPT ![t] = place] /\ UNCHANGED <<at, d_batch, step>>
  BY DEF Goto
<1>2. CallTypes'
  BY <1>1 DEF CallTypes
<1>3. CallsRight'
  BY <1>1 DEF CallsRight, CallTypes, MayCall, Thread
<1> QED BY <1>1, <1>2, <1>3 DEF MoveRight, SameWork, BatchesRight

-----------------------------------------------------------------------------
(* What the parts of the invariant depend on *)

SameQueues == \A q \in Queue : SameQueue(q)

LEMMA SameQueuesKeep ==
    ASSUME QueuesRight, SameQueues
    PROVE  /\ QueuesRight'
           /\ \A t \in Thread : Awaited(t)' = Awaited(t)
           /\ ActiveOnes' = ActiveOnes
           /\ JobsIn' = JobsIn
<1>1. QueuesRight'
  BY SameQueueKeeps DEF QueuesRight, SameQueues
<1>2. ASSUME NEW t \in Thread, NEW q \in Queue
      PROVE  DeletionFor(q, t)' <=> DeletionFor(q, t)
  BY DEF SameQueues, SameQueue, DeletionFor, IsScheduled, Deletion
<1>3. \A t \in Thread : Awaited(t)' = Awaited(t)
  BY <1>2 DEF Awaited
<1>4. ActiveOnes' = ActiveOnes
  BY SameQueueActive DEF ActiveOnes, SameQueues
<1>5. JobsIn' = JobsIn
  <2>1. \A q \in Queue : d_list'[q] = d_list[q] /\ (IsDeleting(q)' <=> IsDeleting(q))
    BY DEF SameQueues, SameQueue
  <2> QED BY <2>1 DEF JobsIn
<1> QED BY <1>1, <1>3, <1>4, <1>5

\* The queues, if a thread only moves.
QuietQueues ==
    /\ UNCHANGED <<jobs, d_list, d_runState, d_pauseCount, d_processor, held, free,
                   d_queueRegistry>>
    /\ \A q \in Queue : IsDeleting(q)' <=> IsDeleting(q)
    /\ \A q \in Queue : Pausers(q)' = Pausers(q)

LEMMA QuietQueuesSame ==
    ASSUME QuietQueues, SameWork
    PROVE  SameQueues
<1>1. Registered' = Registered
  BY DEF QuietQueues, Registered
<1>2. \A q \in Queue : JobsAt(q)' = JobsAt(q)
  BY DEF QuietQueues, JobsAt
<1> QED BY <1>1, <1>2, SameWorkPhases DEF QuietQueues, SameQueues, SameQueue

LEMMA LatchesKeep ==
    ASSUME LatchesRight, latch' = latch,
           \A u \in Thread : Awaited(u)' = Awaited(u) /\ Arriving(u)' = Arriving(u),
           \A u \in Thread : pc'[u] \notin {"latch", "shutdown_latch"} =>
              pc[u] \notin {"latch", "shutdown_latch"} \/ latch[u] = 0,
           \A w \in Worker : at'[w].pc = "arrive" =>
              at[w].pc = "arrive" /\ at'[w].signal = at[w].signal
    PROVE  LatchesRight'
BY DEF LatchesRight

\* While the pool is used nobody stops it.
LEMMA RunningStops ==
    ASSUME StoppingRight, d_state = "RUNNING", enabled,
           d_state' = d_state, enabled' = enabled, refused' = refused,
           \A u \in Thread : pc'[u] \in StopPC => pc[u] \in StopPC
    PROVE  StoppingRight'
<1>1. \A u \in Thread : pc[u] \notin StopPC
  BY DEF StoppingRight, StopperRight
<1>2. \A u \in Thread : pc'[u] \notin StopPC
  BY <1>1
<1> QED BY <1>2 DEF StoppingRight

\* What may change while a thread stops the pool.
LEMMA StopsKeep ==
    ASSUME StoppingRight,
           UNCHANGED <<program, d_state, enabled, refused, d_threadPoolIsOwned>>,
           d_lock'.writer = d_lock.writer,
           \A u \in Thread : \/ pc'[u] = pc[u]
                             \/ pc[u] \notin StopPC /\ pc'[u] \notin StopPC,
           \A c \in Client : pc[c] \in StopPC => step'[c] = step[c],
           ActiveOnes' \subseteq ActiveOnes,
           \A u \in Thread : ActiveOnes' \cap Awaited(u) \subseteq Awaited(u)',
           \A u \in Thread : ptr'[u] # 0 =>
              ptr'[u] = ptr[u]
                 /\ (IsDeleting(ptr[u]) => d_enqueueState'[ptr[u]] = "DELETING"),
           \A q \in Registered' :
              \/ d_runState'[q] = "NOT_SCHEDULED"
              \/ q \in Registered /\ d_runState'[q] = d_runState[q]
              \/ q \in Registered /\ d_runState[q] # "NOT_SCHEDULED"
    PROVE  StoppingRight'
<1>1. AtRest => AtRest'
  BY DEF AtRest
<1>2. NoPause => NoPause'
  BY DEF NoPause
<1>3. MakesCall(program, "shutdown")' <=> MakesCall(program, "shutdown")
  BY DEF MakesCall, CallsOf
<1>4. ASSUME NEW t \in Thread, pc'[t] \in StopPC
      PROVE  StopperRight(t)'
  <2>1. pc'[t] = pc[t] /\ StopperRight(t)
    BY <1>4 DEF StoppingRight
  <2>2. t \in Client /\ NextCall(t)' = NextCall(t)
    BY <2>1, <1>4 DEF StopperRight, NextCall
  <2>3. pc[t] = "shutdown_latch" => ActiveOnes' \subseteq Awaited(t)'
    BY <2>1 DEF StopperRight
  <2>4. pc[t] = "shutdown_latch" =>
           \A q \in Registered' : d_runState'[q] = "NOT_SCHEDULED"
    BY <2>1 DEF StopperRight
  <2>5. pc[t] = "shutdown_latch" =>
           \A u \in Thread : ptr'[u] # 0 => d_enqueueState'[ptr'[u]] = "DELETING"
    BY <2>1 DEF StopperRight
  <2>6. /\ NextCall(t)'.op \in Stops
        /\ pc'[t] \in {"stop_wait", "stop_lock"} => NextCall(t)'.op = "stop"
        /\ pc'[t] \notin {"stop_wait", "stop_lock", "pool_drain"} =>
              NextCall(t)'.op = "shutdown"
    BY <2>1, <2>2 DEF StopperRight
  <2>7. IF pc'[t] = "pool_drain"
        THEN d_state' # "RUNNING" /\ d_lock'.writer = t /\ ~enabled'
        ELSE d_state' = "STOPPING" /\ enabled'
    BY <2>1 DEF StopperRight
  <2>8. /\ pc'[t] \in {"stop_lock", "shutdown_delete", "shutdown_relock",
                       "pool_drain"} => AtRest'
        /\ pc'[t] = "shutdown_relock" => NoPause'
        /\ pc'[t] = "pool_drain" /\ MakesCall(program, "shutdown")' => NoPause'
    BY <2>1, <1>1, <1>2, <1>3 DEF StopperRight
  <2>9. pc'[t] = "shutdown_latch" =>
           /\ ActiveOnes' \subseteq Awaited(t)'
           /\ \A q \in Registered' : d_runState'[q] = "NOT_SCHEDULED"
           /\ \A u \in Thread : ptr'[u] # 0 => d_enqueueState'[ptr'[u]] = "DELETING"
    BY <2>1, <2>3, <2>4, <2>5
  <2> QED BY <2>2, <2>6, <2>7, <2>8, <2>9 DEF StopperRight, IsDeleting
<1>5. ~enabled' => /\ d_state' = "STOPPED" \/ \E t \in Thread : pc'[t] = "pool_drain"
                   /\ d_threadPoolIsOwned'
  BY DEF StoppingRight, StopPC
<1>6. d_state' = "STOPPED" => AtRest'
  BY <1>1 DEF StoppingRight
<1>7. d_state' = "STOPPED" /\ MakesCall(program, "shutdown")' => NoPause'
  BY <1>2, <1>3 DEF StoppingRight
<1> QED BY <1>4, <1>5, <1>6, <1>7 DEF StoppingRight

\* Everything that is not about types and counters, when a thread only moves
\* outside the calls that stop the pool.
QuietRest ==
    /\ UNCHANGED <<d_state, enabled, refused, latch, program, d_threadPoolIsOwned,
                   d_numActiveQueues>>
    /\ d_lock'.writer = d_lock.writer

QueuesAndCalls ==
    /\ QueuesRight /\ IdsRight /\ BatchesRight /\ CallsRight /\ PausesRight
    /\ LatchesRight /\ ActiveCounted /\ StoppingRight

LEMMA MovesKeep ==
    ASSUME PoolInv, NEW t \in Thread, MoveRight, QuietQueues,
           UNCHANGED <<latch, program, d_numActiveQueues>>,
           NEW place \in CallPC, pc' = [pc EXCEPT ![t] = place],
           pc[t] \in {"latch", "shutdown_latch"} => latch[t] = 0,
           ptr' = ptr \/ ptr' = [ptr EXCEPT ![t] = 0]
    PROVE  /\ JobsRight' /\ QueuesRight' /\ IdsRight' /\ PausesRight'
           /\ LatchesRight' /\ ActiveCounted' /\ JobsIn' = JobsIn
           /\ ActiveOnes' = ActiveOnes /\ \A u \in Thread : Awaited(u)' = Awaited(u)
           /\ \A u \in Thread : ptr'[u] = ptr[u] \/ ptr'[u] = 0
           /\ \A u \in Thread : pc'[u] = pc[u] \/ u = t
<1> USE DEF PoolInv
<1>0. SameQueues
  BY QuietQueuesSame DEF MoveRight
<1>1. /\ QueuesRight' /\ JobsIn' = JobsIn
      /\ \A u \in Thread : Awaited(u)' = Awaited(u)
      /\ ActiveOnes' = ActiveOnes
  BY <1>0, SameQueuesKeep
<1>2. /\ \A u \in Thread : Arriving(u)' = Arriving(u)
      /\ CountingDown' = CountingDown
  BY SameWorkPhases DEF MoveRight
<1>3. IdsRight' /\ JobsRight'
  BY DEF QuietQueues, IdsRight, JobsRight, IsInjective
<1>4. \A u \in Thread : pc'[u] = pc[u] \/ u = t
  BY DEF Types, CallTypes
<1>5. \A u \in Thread : ptr'[u] = ptr[u] \/ ptr'[u] = 0
  BY DEF Types, CallTypes
<1>6. PausesRight'
  <2>1. MakesCall(program, "pauseQueue")' <=> MakesCall(program, "pauseQueue")
    BY DEF MakesCall, CallsOf
  <2> QED BY <2>1, <1>5 DEF PausesRight, QuietQueues
<1>7. LatchesRight'
  <2>1. \A u \in Thread : pc'[u] \notin {"latch", "shutdown_latch"} =>
           pc[u] \notin {"latch", "shutdown_latch"} \/ latch[u] = 0
    BY <1>4
  <2>2. \A w \in Worker : at'[w].pc = "arrive" =>
           at[w].pc = "arrive" /\ at'[w].signal = at[w].signal
    BY DEF MoveRight, SameWork
  <2> QED BY <2>1, <2>2, <1>1, <1>2, LatchesKeep
<1>8. ActiveCounted'
  BY <1>1, <1>2 DEF ActiveCounted
<1> QED BY <1>1, <1>3, <1>4, <1>5, <1>6, <1>7, <1>8

LEMMA QuietMoves ==
    ASSUME PoolInv, NEW t \in Thread, MoveRight, QuietQueues, QuietRest,
           NEW place \in CallPC \ StopPC, pc' = [pc EXCEPT ![t] = place],
           pc[t] \notin StopPC, pc[t] = "latch" => latch[t] = 0,
           ptr' = ptr \/ ptr' = [ptr EXCEPT ![t] = 0],
           \A c \in Client \ {t} : step'[c] = step[c]
    PROVE  QueuesAndCalls' /\ JobsRight' /\ JobsIn' = JobsIn
<1> USE DEF PoolInv
<1>1. /\ JobsRight' /\ QueuesRight' /\ IdsRight' /\ PausesRight'
      /\ LatchesRight' /\ ActiveCounted' /\ JobsIn' = JobsIn
      /\ ActiveOnes' = ActiveOnes /\ \A u \in Thread : Awaited(u)' = Awaited(u)
      /\ \A u \in Thread : ptr'[u] = ptr[u] \/ ptr'[u] = 0
      /\ \A u \in Thread : pc'[u] = pc[u] \/ u = t
  BY MovesKeep DEF QuietRest, StopPC
<1>9. StoppingRight'
  <2>1. \A u \in Thread : \/ pc'[u] = pc[u]
                          \/ pc[u] \notin StopPC /\ pc'[u] \notin StopPC
    BY <1>1 DEF Types, CallTypes
  <2>2. \A c \in Client : pc[c] \in StopPC => step'[c] = step[c]
    BY DEF StopPC
  <2>3. \A u \in Thread : ptr'[u] # 0 =>
           ptr'[u] = ptr[u]
                 /\ (IsDeleting(ptr[u]) => d_enqueueState'[ptr[u]] = "DELETING")
    <3>1. \A u \in Thread : ptr[u] \in Queue \cup {0}
      BY DEF Types, CallTypes
    <3> QED BY <3>1, <1>1 DEF QuietQueues, IsDeleting
  <2>4. Registered' = Registered /\ d_runState' = d_runState
    BY DEF QuietQueues, Registered
  <2> QED BY <2>1, <2>2, <2>3, <2>4, <1>1, StopsKeep DEF QuietRest
<1> QED BY <1>1, <1>9 DEF QueuesAndCalls, MoveRight

-----------------------------------------------------------------------------
(* The calls that change no queue and do not stop the pool *)

PlainPC == {"idle", "count", "latch", "drain_threads", "drain_pending"}

QuietState ==
    /\ UNCHANGED <<jobs, d_list, d_runState, d_pauseCount, d_processor, held, free,
                   d_queueRegistry>>
    /\ \A q \in Queue : IsDeleting(q)' <=> IsDeleting(q)

LEMMA InCall ==
    ASSUME CallsRight, NEW t \in Thread, pc[t] # "idle"
    PROVE  MayCall(t)
BY Constants DEF CallsRight, MayCall, Thread

LEMMA QuietReturn ==
    ASSUME PoolInv, NEW t \in Thread, pc[t] \in PlainPC, MayCall(t),
           Return(t), QuietState, QuietRest, pc[t] = "latch" => latch[t] = 0
    PROVE  /\ QueuesAndCalls' /\ JobsRight' /\ CallTypes' /\ JobsIn' = JobsIn
           /\ Uncounted' = Uncounted \ {t}
<1> USE DEF PoolInv
<1>1. /\ MoveRight
      /\ pc' = [pc EXCEPT ![t] = "idle"] /\ ptr' = [ptr EXCEPT ![t] = 0]
      /\ \A c \in Client \ {t} : step'[c] = step[c]
  BY ReturnMoves DEF Types, QuietRest
<1>2. ptr[t] = 0
  BY DEF CallsRight, PlainPC
<1>3. QuietQueues
  BY <1>1, <1>2 DEF QuietQueues, QuietState, Pausers, Types, CallTypes
<1>4. Uncounted' = Uncounted \ {t}
  BY <1>1 DEF Uncounted, Types, CallTypes
<1>5. "idle" \in CallPC \ StopPC /\ pc[t] \notin StopPC
  BY DEF PlainPC, StopPC, CallPC
<1>6. QueuesAndCalls' /\ JobsRight' /\ JobsIn' = JobsIn
  BY <1>1, <1>3, <1>5, QuietMoves
<1> QED BY <1>1, <1>4, <1>6 DEF MoveRight

LEMMA QuietGoto ==
    ASSUME PoolInv, NEW t \in Thread, NEW place \in PlainPC, pc[t] \in PlainPC,
           MayCall(t), Goto(t, place), ptr' = ptr,
           QuietState, QuietRest, pc[t] # "latch"
    PROVE  /\ QueuesAndCalls' /\ JobsRight' /\ CallTypes' /\ JobsIn' = JobsIn
           /\ pc[t] # "count" /\ place # "count" => Uncounted' = Uncounted
<1> USE DEF PoolInv
<1>0. pc' = [pc EXCEPT ![t] = place]
  BY DEF Goto
<1>1. MoveRight /\ step' = step
  <2>1. \A u \in Thread : ptr'[u] # 0 <=> pc'[u] \in {"pause_wait", "pause_sleep"}
    BY <1>0 DEF CallsRight, Types, CallTypes, PlainPC
  <2>2. place \in CallPC /\ ptr' \in [Thread -> Queue \cup {0}] /\ program' = program
    BY DEF PlainPC, CallPC, Types, CallTypes, QuietRest
  <2> QED BY <2>1, <2>2, GotoMoves DEF Types
<1>3. QuietQueues
  BY <1>1 DEF QuietQueues, QuietState, Pausers
<1>4. pc[t] # "count" /\ place # "count" => Uncounted' = Uncounted
  BY <1>0 DEF Uncounted, Types, CallTypes
<1>5. place \in CallPC \ StopPC /\ pc[t] \notin StopPC
  BY DEF PlainPC, StopPC, CallPC
<1>6. QueuesAndCalls' /\ JobsRight' /\ JobsIn' = JobsIn
  BY <1>1, <1>0, <1>3, <1>5, QuietMoves
<1> QED BY <1>1, <1>4, <1>6 DEF MoveRight

\* The invariant from its parts.
LEMMA PartsKeep ==
    ASSUME CallTypes', QueueTypes', RegistryTypes', OtherTypes', JobsRight',
           QueuesAndCalls', JobsCounted'
    PROVE  PoolInv'
BY DEF QueuesAndCalls, PoolInv, Types

LEMMA SameCounters ==
    ASSUME JobsCounted, JobsIn' = JobsIn, Uncounted' = Uncounted,
           UNCHANGED <<d_numExecuted, d_numEnqueued, d_numDeleted, reported>>
    PROVE  JobsCounted'
BY DEF JobsCounted

\* A call that only returns.
LEMMA OnlyReturns ==
    ASSUME PoolInv, NEW t \in Thread, pc[t] \in PlainPC \ {"count"}, MayCall(t),
           Return(t), QuietState, QuietRest, pc[t] = "latch" => latch[t] = 0,
           UNCHANGED <<d_numExecuted, d_numEnqueued, d_numDeleted, reported>>
    PROVE  /\ QueuesAndCalls' /\ JobsRight' /\ CallTypes' /\ JobsCounted'
<1>1. /\ QueuesAndCalls' /\ JobsRight' /\ CallTypes' /\ JobsIn' = JobsIn
      /\ Uncounted' = Uncounted \ {t}
  BY QuietReturn
<1>2. Uncounted' = Uncounted
  BY <1>1 DEF Uncounted
<1> QED BY <1>1, <1>2, SameCounters DEF PoolInv

LEMMA CallingPlain ==
    ASSUME NEW t, NEW o, Calling(t, o)
    PROVE  pc[t] \in PlainPC \ {"count"} /\ pc[t] # "latch" /\ MayCall(t)
BY DEF Calling, PlainPC

LEMMA OnlyCallIsQuiet ==
    ASSUME OnlyCall, d_lock'.writer = d_lock.writer
    PROVE  /\ QuietState /\ QuietRest
           /\ UNCHANGED <<d_numExecuted, d_numEnqueued, d_numDeleted, reported,
                          d_nextId, d_batchSize, d_enqueueState, woken>>
BY DEF OnlyCall, QuietState, QuietRest, registryVars, counterVars, queueVars,
       poolVars, waitVars, scene, IsDeleting

LEMMA OtherParts ==
    ASSUME QueueTypes, OtherTypes, RegistryTypes, OnlyCall,
           d_lock' \in [readers : SUBSET Thread, writer : Thread \cup {None}]
    PROVE  QueueTypes' /\ OtherTypes' /\ RegistryTypes'
BY DEF QueueTypes, OtherTypes, RegistryTypes, OnlyCall, registryVars, counterVars,
       queueVars, poolVars, waitVars, scene

LEMMA FailKeeps ==
    ASSUME PoolInv, NEW t \in Thread, Fail(t)
    PROVE  PoolInv'
<1>1. OnlyCall /\ d_lock' = d_lock /\ Return(t)
  BY DEF Fail
<1>2. PICK o : Calling(t, o)
  BY DEF Fail
<1>3. QueuesAndCalls' /\ JobsRight' /\ CallTypes' /\ JobsCounted'
  BY <1>1, <1>2, CallingPlain, OnlyCallIsQuiet, OnlyReturns
<1> QED BY <1>1, <1>3, OtherParts, PartsKeep DEF PoolInv, Types, RegistryTypes

LEMMA RunJobKeeps ==
    ASSUME PoolInv, NEW t \in Thread, runJob(t)
    PROVE  PoolInv'
<1>1. OnlyCall /\ d_lock' = d_lock /\ Return(t) /\ Calling(t, "nothing")
  BY DEF runJob
<1>3. QueuesAndCalls' /\ JobsRight' /\ CallTypes' /\ JobsCounted'
  BY <1>1, CallingPlain, OnlyCallIsQuiet, OnlyReturns
<1> QED BY <1>1, <1>3, OtherParts, PartsKeep DEF PoolInv, Types, RegistryTypes

LEMMA DrainQueueKeeps ==
    ASSUME PoolInv, NEW t \in Thread, drainQueue(t)
    PROVE  PoolInv'
<1>1. OnlyCall /\ d_lock' = d_lock /\ Return(t) /\ Calling(t, "drainQueue")
  BY DEF drainQueue
<1>3. QueuesAndCalls' /\ JobsRight' /\ CallTypes' /\ JobsCounted'
  BY <1>1, CallingPlain, OnlyCallIsQuiet, OnlyReturns
<1> QED BY <1>1, <1>3, OtherParts, PartsKeep DEF PoolInv, Types, RegistryTypes

LEMMA LatchWaitKeeps ==
    ASSUME PoolInv, NEW t \in Thread, LatchWait(t)
    PROVE  PoolInv'
<1>1. OnlyCall /\ d_lock' = d_lock /\ Return(t) /\ pc[t] = "latch" /\ latch[t] = 0
  BY DEF LatchWait
<1>2. MayCall(t) /\ pc[t] \in PlainPC \ {"count"}
  BY <1>1, InCall DEF PoolInv, PlainPC
<1>3. QueuesAndCalls' /\ JobsRight' /\ CallTypes' /\ JobsCounted'
  BY <1>1, <1>2, OnlyCallIsQuiet, OnlyReturns
<1> QED BY <1>1, <1>3, OtherParts, PartsKeep DEF PoolInv, Types, RegistryTypes

LEMMA LocksKeep ==
    ASSUME NEW t \in Thread, RegistryTypes, ReadLock(t) \/ ReadUnlock(t)
    PROVE  /\ d_lock' \in [readers : SUBSET Thread, writer : Thread \cup {None}]
           /\ d_lock'.writer = d_lock.writer
BY DEF ReadLock, ReadUnlock, RegistryTypes

LEMMA GoesOn ==
    ASSUME PoolInv, NEW t \in Thread, NEW place \in PlainPC \ {"count"},
           pc[t] \in PlainPC \ {"count", "latch"}, MayCall(t), Goto(t, place), ptr' = ptr,
           OnlyCall, d_lock' \in [readers : SUBSET Thread, writer : Thread \cup {None}],
           d_lock'.writer = d_lock.writer
    PROVE  PoolInv'
<1>1. /\ QuietState /\ QuietRest
      /\ UNCHANGED <<d_numExecuted, d_numEnqueued, d_numDeleted, reported>>
  BY OnlyCallIsQuiet
<1>2. /\ QueuesAndCalls' /\ JobsRight' /\ CallTypes' /\ JobsIn' = JobsIn
      /\ Uncounted' = Uncounted
  BY <1>1, QuietGoto
<1>3. JobsCounted'
  BY <1>1, <1>2, SameCounters DEF PoolInv
<1> QED BY <1>2, <1>3, OtherParts, PartsKeep DEF PoolInv, Types

LEMMA DrainKeeps ==
    ASSUME PoolInv, NEW t \in Thread, drain(t)
    PROVE  PoolInv'
<1>1. OnlyCall /\ Calling(t, "drain")
  BY DEF drain
<1>2. CASE Return(t) /\ d_lock' = d_lock
  <2>1. QueuesAndCalls' /\ JobsRight' /\ CallTypes' /\ JobsCounted'
    BY <1>1, <1>2, CallingPlain, OnlyCallIsQuiet, OnlyReturns
  <2> QED BY <1>1, <1>2, <2>1, OtherParts, PartsKeep DEF PoolInv, Types, RegistryTypes
<1>3. CASE Goto(t, "drain_threads") /\ ReadLock(t) /\ ptr' = ptr
  <2>1. "drain_threads" \in PlainPC \ {"count"} /\ pc[t] \in PlainPC \ {"count", "latch"}
        /\ MayCall(t)
    BY <1>1, CallingPlain DEF PlainPC
  <2> QED BY <1>1, <1>3, <2>1, GoesOn, LocksKeep DEF PoolInv, Types
<1> QED BY <1>2, <1>3 DEF drain

LEMMA DrainPoolKeeps ==
    ASSUME PoolInv, NEW t \in Thread, drainPool(t)
    PROVE  PoolInv'
<1>1. OnlyCall /\ pc[t] \in {"drain_threads", "drain_pending"}
  BY DEF drainPool
<1>2. MayCall(t) /\ pc[t] \in PlainPC \ {"count", "latch"}
  BY <1>1, InCall DEF PoolInv, PlainPC
<1>3. ReadUnlock(t) \/ d_lock' = d_lock
  BY DEF drainPool
<1>4. /\ d_lock' \in [readers : SUBSET Thread, writer : Thread \cup {None}]
      /\ d_lock'.writer = d_lock.writer
  BY <1>3, LocksKeep DEF PoolInv, Types, RegistryTypes
<1>5. CASE Return(t)
  <2>1. QueuesAndCalls' /\ JobsRight' /\ CallTypes' /\ JobsCounted'
    BY <1>1, <1>2, <1>4, <1>5, OnlyCallIsQuiet, OnlyReturns
  <2> QED BY <1>1, <1>4, <2>1, OtherParts, PartsKeep DEF PoolInv, Types
<1>6. CASE (Goto(t, "idle") \/ Goto(t, "drain_pending")) /\ ptr' = ptr
  <2>1. {"idle", "drain_pending"} \subseteq PlainPC \ {"count"}
    BY DEF PlainPC
  <2> QED BY <1>1, <1>2, <1>4, <1>6, <2>1, GoesOn
<1> QED BY <1>5, <1>6 DEF drainPool

LEMMA CountEnqueuedKeeps ==
    ASSUME PoolInv, NEW t \in Thread, CountEnqueued(t)
    PROVE  PoolInv'
<1> USE DEF PoolInv
<1>1. /\ pc[t] = "count" /\ d_numEnqueued' = d_numEnqueued + 1
      /\ ReadUnlock(t) /\ Return(t)
      /\ UNCHANGED <<registryVars, d_numActiveQueues, d_numExecuted, d_numDeleted,
                     queueVars, poolVars, waitVars, scene, held>>
  BY DEF CountEnqueued
<1>2. MayCall(t) /\ pc[t] \in PlainPC /\ pc[t] # "latch"
  BY <1>1, InCall DEF PlainPC
<1>3. /\ d_lock' \in [readers : SUBSET Thread, writer : Thread \cup {None}]
      /\ d_lock'.writer = d_lock.writer
  BY <1>1, LocksKeep DEF Types
<1>4. QuietState /\ QuietRest
  BY <1>1, <1>3 DEF QuietState, QuietRest, registryVars, queueVars, poolVars, waitVars,
       scene, IsDeleting
<1>5. /\ QueuesAndCalls' /\ JobsRight' /\ CallTypes' /\ JobsIn' = JobsIn
      /\ Uncounted' = Uncounted \ {t}
  BY <1>1, <1>2, <1>4, QuietReturn
<1>6. QueueTypes' /\ RegistryTypes' /\ OtherTypes'
  <2>1. QueueTypes'
    BY <1>1 DEF Types, QueueTypes, queueVars
  <2>2. RegistryTypes'
    BY <1>1, <1>3 DEF Types, RegistryTypes, registryVars
  <2>3. OtherTypes'
    BY <1>1 DEF Types, OtherTypes, poolVars, waitVars, scene
  <2> QED BY <2>1, <2>2, <2>3
<1>7. IsFiniteSet(Uncounted) /\ t \in Uncounted
  BY <1>1, Constants, FS_Subset DEF Uncounted
<1>8. /\ Cardinality(Uncounted') = Cardinality(Uncounted) - 1
      /\ Cardinality(Uncounted) \in Nat
  BY <1>5, <1>7, FS_RemoveElement, FS_CardinalityType
<1>9. JobsCounted'
  <2>1. reported' = reported
    BY <1>1 DEF scene
  <2>2. /\ reported \in Int
        /\ d_numEnqueued \in Nat /\ d_numExecuted \in Nat /\ d_numDeleted \in Nat
    BY DEF Types, OtherTypes
  <2> QED BY <1>1, <1>5, <1>8, <2>1, <2>2 DEF JobsCounted
<1> QED BY <1>5, <1>6, <1>9, PartsKeep

\* What a thread calls is one of the calls of the program.
LEMMA NextCallType ==
    ASSUME PoolInv, NEW t \in Thread, MayCall(t)
    PROVE  NextCall(t) \in Calls /\ MakesCall(program, NextCall(t).op)
<1> USE DEF PoolInv
<1>1. program \in Programs
  BY DEF Types, OtherTypes
<1>2. CASE t \in Client
  <2>1. program[t] \in Seq(Calls) /\ step[t] \in Nat /\ step[t] < Len(program[t])
    BY <1>1, <1>2, ProgramsAssumption DEF MayCall, Types, CallTypes
  <2>2. step[t] + 1 \in DOMAIN program[t] /\ program[t][step[t] + 1] \in Calls
    BY <2>1
  <2> QED BY <2>2, <1>2 DEF NextCall, MakesCall, CallsOf
<1>3. CASE t \in Worker
  <2>1. t \notin Client /\ at[t].pc = "batch" /\ at[t].queue \in Queue
    BY <1>3, Constants DEF MayCall, Types, CallTypes, WorkSet
  <2>2. d_batch[at[t].queue] # <<>> /\ d_batch[at[t].queue] \in Seq(Job)
    BY <2>1, <1>3 DEF BatchesRight, Types, CallTypes
  <2>3. Head(d_batch[at[t].queue]) \in Job
    BY <2>2, HeadTailProperties
  <2> QED BY <2>1, <2>3, <1>1, ProgramsAssumption DEF NextCall, MakesCall
<1> QED BY <1>2, <1>3 DEF Thread

LEMMA AcceptsQueue ==
    ASSUME PoolInv, NEW t \in Thread, NEW o, Accepts(t, o)
    PROVE  /\ QueueOf(t) \in Queue /\ QueueOf(t) \in Registered
           /\ QueueOf(t) = d_queueRegistry[NextCall(t).id]
           /\ NextCall(t).id \in DOMAIN d_queueRegistry
           /\ QueueOf(t) \notin free /\ ~IsDeleting(QueueOf(t))
           /\ d_state = "RUNNING" /\ enabled
           /\ NextCall(t).op = o /\ pc[t] = "idle" /\ MayCall(t)
           /\ \A u \in Thread : pc[u] \notin StopPC
<1>1. /\ d_state = "RUNNING" /\ enabled /\ NextCall(t).id \in DOMAIN d_queueRegistry
      /\ NextCall(t).op = o /\ pc[t] = "idle" /\ MayCall(t)
  BY DEF Accepts, findIfUsable, Calling
<1>2. QueueOf(t) \in Registered /\ QueueOf(t) \in Queue
  BY <1>1 DEF QueueOf, Registered, PoolInv, Types, RegistryTypes
<1>3. QueueOf(t) \notin free /\ ~IsDeleting(QueueOf(t))
  BY <1>2 DEF PoolInv, QueuesRight, QueueRight, KnownRight
<1>4. \A u \in Thread : pc[u] \notin StopPC
  BY <1>1 DEF PoolInv, StoppingRight, StopperRight
<1> QED BY <1>1, <1>2, <1>3, <1>4 DEF QueueOf

LEMMA EnableOrDisableKeeps ==
    ASSUME PoolInv, NEW t \in Thread, enableOrDisable(t)
    PROVE  PoolInv'
<1>1. /\ Accepts(t, "enableQueue") \/ Accepts(t, "disableQueue")
      /\ \E s \in {"ENABLED", "DISABLED"} :
            d_enqueueState' = [d_enqueueState EXCEPT ![QueueOf(t)] = s]
      /\ Return(t)
      /\ UNCHANGED <<registryVars, d_lock, counterVars, d_list, d_batchSize,
                     d_runState, d_pauseCount, d_processor, poolVars, waitVars,
                     scene, held>>
  BY DEF enableOrDisable
<1>2. /\ QueueOf(t) \in Queue /\ ~IsDeleting(QueueOf(t))
      /\ pc[t] \in PlainPC \ {"count"} /\ pc[t] # "latch" /\ MayCall(t)
  BY <1>1, AcceptsQueue DEF PlainPC
<1>3. d_enqueueState \in [Queue -> {"ENABLED", "DISABLED", "DELETING"}]
  BY DEF PoolInv, Types, QueueTypes
<1>4. \A q \in Queue : IsDeleting(q)' <=> IsDeleting(q)
  BY <1>1, <1>2, <1>3 DEF IsDeleting
<1>5. QuietState /\ QuietRest
  BY <1>1, <1>4 DEF QuietState, QuietRest, registryVars, poolVars, waitVars,
       scene, counterVars
<1>6. UNCHANGED <<d_numExecuted, d_numEnqueued, d_numDeleted, reported>>
  BY <1>1 DEF counterVars, scene
<1>7. QueuesAndCalls' /\ JobsRight' /\ CallTypes' /\ JobsCounted'
  BY <1>1, <1>2, <1>5, <1>6, OnlyReturns
<1>8. QueueTypes' /\ RegistryTypes' /\ OtherTypes'
  <2>1. d_enqueueState' \in [Queue -> {"ENABLED", "DISABLED", "DELETING"}]
    BY <1>1, <1>3
  <2> QED BY <1>1, <2>1 DEF PoolInv, Types, QueueTypes, RegistryTypes, OtherTypes,
            registryVars, counterVars, poolVars, waitVars, scene
<1> QED BY <1>7, <1>8, PartsKeep

LEMMA SetBatchSizeKeeps ==
    ASSUME PoolInv, NEW t \in Thread, setBatchSize(t)
    PROVE  PoolInv'
<1>1. /\ Accepts(t, "setBatchSize")
      /\ d_batchSize' = [d_batchSize EXCEPT ![QueueOf(t)] = NextCall(t).size]
      /\ Return(t)
      /\ UNCHANGED <<registryVars, d_lock, counterVars, d_list, d_enqueueState,
                     d_runState, d_pauseCount, d_processor, poolVars, waitVars,
                     scene, held>>
  BY DEF setBatchSize
<1>2. /\ QueueOf(t) \in Queue
      /\ pc[t] \in PlainPC \ {"count"} /\ pc[t] # "latch" /\ MayCall(t)
  BY <1>1, AcceptsQueue DEF PlainPC
<1>5. QuietState /\ QuietRest
  BY <1>1 DEF QuietState, QuietRest, registryVars, poolVars, waitVars,
       scene, counterVars, IsDeleting
<1>6. UNCHANGED <<d_numExecuted, d_numEnqueued, d_numDeleted, reported>>
  BY <1>1 DEF counterVars, scene
<1>7. QueuesAndCalls' /\ JobsRight' /\ CallTypes' /\ JobsCounted'
  BY <1>1, <1>2, <1>5, <1>6, OnlyReturns
<1>8. QueueTypes' /\ RegistryTypes' /\ OtherTypes'
  <2>1. NextCall(t).size \in Nat \ {0}
    BY <1>2, NextCallType DEF Calls
  <2>2. d_batchSize' \in [Queue -> Nat \ {0}]
    BY <1>1, <2>1 DEF PoolInv, Types, QueueTypes
  <2> QED BY <1>1, <2>2 DEF PoolInv, Types, QueueTypes, RegistryTypes, OtherTypes,
            registryVars, counterVars, poolVars, waitVars, scene
<1> QED BY <1>7, <1>8, PartsKeep

LEMMA NumProcessedResetKeeps ==
    ASSUME PoolInv, NEW t \in Thread, numProcessedReset(t)
    PROVE  PoolInv'
<1>1. /\ Calling(t, "numProcessedReset")
      /\ reported' = reported + d_numEnqueued - d_numExecuted - d_numDeleted
      /\ d_numExecuted' = 0 /\ d_numDeleted' = 0 /\ d_numEnqueued' = 0
      /\ Return(t)
      /\ UNCHANGED <<registryVars, d_lock, d_numActiveQueues, queueVars, poolVars,
                     waitVars, program, d_threadPoolIsOwned, held>>
  BY DEF numProcessedReset
<1>2. pc[t] \in PlainPC \ {"count"} /\ pc[t] # "latch" /\ MayCall(t)
  BY <1>1, CallingPlain
<1>3. QuietState /\ QuietRest
  BY <1>1 DEF QuietState, QuietRest, registryVars, poolVars, waitVars, queueVars, IsDeleting
<1>4. /\ QueuesAndCalls' /\ JobsRight' /\ CallTypes' /\ JobsIn' = JobsIn
      /\ Uncounted' = Uncounted \ {t}
  BY <1>1, <1>2, <1>3, QuietReturn
<1>5. Uncounted' = Uncounted
  BY <1>2, <1>4 DEF Uncounted
<1>6. /\ reported \in Int
      /\ d_numEnqueued \in Nat /\ d_numExecuted \in Nat /\ d_numDeleted \in Nat
  BY DEF PoolInv, Types, OtherTypes
<1>7. QueueTypes' /\ RegistryTypes' /\ OtherTypes'
  <2>1. QueueTypes'
    BY <1>1 DEF PoolInv, Types, QueueTypes, queueVars
  <2>2. RegistryTypes'
    BY <1>1 DEF PoolInv, Types, RegistryTypes, registryVars
  <2>3. OtherTypes'
    <3>1. reported' \in Int /\ 0 \in Nat
      BY <1>1, <1>6
    <3> QED BY <1>1, <3>1 DEF PoolInv, Types, OtherTypes, poolVars, waitVars
  <2> QED BY <2>1, <2>2, <2>3
<1>8. JobsCounted'
  <2>1. reported' + d_numEnqueued' - d_numExecuted' - d_numDeleted'
        = reported + d_numEnqueued - d_numExecuted - d_numDeleted
    BY <1>1, <1>6
  <2> QED BY <1>4, <1>5, <2>1 DEF JobsCounted, PoolInv
<1> QED BY <1>4, <1>7, <1>8, PartsKeep

-----------------------------------------------------------------------------
(* Steps of the thread pool that concern no queue *)

\* No thread moves inside a call.
NoMove == UNCHANGED <<pc, ptr, step>>

LEMMA WorkerMoves ==
    ASSUME PoolInv, NEW w \in Worker, NEW r \in WorkSet,
           r.pc \in {"idle", "foreign"} <=> r.queue = 0,
           at[w].pc # "batch", r.pc # "batch", at' = [at EXCEPT ![w] = r],
           d_batch' = d_batch, NoMove, program' = program
    PROVE  CallTypes' /\ BatchesRight' /\ CallsRight'
<1> USE DEF PoolInv, Types, NoMove
<1>1. \A v \in Worker : v # w => at'[v] = at[v]
  BY DEF CallTypes
<1>2. at'[w] = r
  BY DEF CallTypes
<1>3. CallTypes'
  BY <1>1, <1>2 DEF CallTypes
<1>4. BatchesRight'
  <2>1. \A v \in Worker : \/ at'[v] = at[v]
                          \/ at[v].pc # "batch" /\ at'[v].pc # "batch"
    BY <1>1, <1>2
  <2> QED BY <2>1 DEF BatchesRight
<1>5. CallsRight'
  BY <1>1, <1>2 DEF CallsRight
<1> QED BY <1>3, <1>4, <1>5

LEMMA NoMovePauses ==
    ASSUME PoolInv, NoMove, program' = program,
           \A q \in Queue : \/ d_runState'[q] \in {"NOT_SCHEDULED", "SCHEDULED"}
                            \/ IsDeleting(q)'
                            \/ d_runState'[q] = d_runState[q]
                               /\ (IsDeleting(q) => IsDeleting(q)')
    PROVE  PausesRight'
<1>1. MakesCall(program, "pauseQueue")' <=> MakesCall(program, "pauseQueue")
  BY DEF MakesCall, CallsOf
<1> QED BY <1>1 DEF NoMove, PoolInv, PausesRight

\* A worker does something that concerns no queue; latches and the count of
\* active queues aside.
LEMMA AsideKeeps ==
    ASSUME PoolInv, NoMove, SameQueues,
           UNCHANGED <<registryVars, d_lock, queueVars, enabled, refused, held,
                       scene, d_numExecuted, d_numEnqueued, d_numDeleted>>
    PROVE  /\ QueuesRight' /\ IdsRight' /\ PausesRight' /\ JobsCounted'
           /\ StoppingRight' /\ QueueTypes' /\ RegistryTypes'
           /\ ActiveOnes' = ActiveOnes
           /\ \A u \in Thread : Awaited(u)' = Awaited(u)
<1> USE DEF PoolInv
<1>1. /\ QueuesRight' /\ JobsIn' = JobsIn /\ ActiveOnes' = ActiveOnes
      /\ \A u \in Thread : Awaited(u)' = Awaited(u)
  BY SameQueuesKeep
<1>2. IdsRight' /\ QueueTypes' /\ RegistryTypes'
  BY DEF IdsRight, QueueTypes, RegistryTypes, Types, registryVars, queueVars
<1>3. JobsCounted'
  <2>1. Uncounted' = Uncounted
    BY DEF Uncounted, NoMove
  <2> QED BY <1>1, <2>1, SameCounters DEF scene
<1>4. PausesRight'
  <2>1. \A q \in Queue : IsDeleting(q)' <=> IsDeleting(q)
    BY DEF queueVars, IsDeleting
  <2> QED BY <2>1, NoMovePauses DEF scene, queueVars
<1>5. StoppingRight'
  <2>1. Registered' = Registered
    BY DEF Registered, registryVars
  <2>2. UNCHANGED <<d_enqueueState, d_runState, d_state, program, d_threadPoolIsOwned,
                    pc, ptr, step>>
    BY DEF queueVars, registryVars, scene, NoMove
  <2>3. \A u \in Thread : ptr'[u] # 0 =>
           ptr'[u] = ptr[u]
           /\ (IsDeleting(ptr[u]) => d_enqueueState'[ptr[u]] = "DELETING")
    BY <2>2 DEF IsDeleting
  <2> QED BY <1>1, <2>1, <2>2, <2>3, StopsKeep
<1> QED BY <1>1, <1>2, <1>3, <1>4, <1>5

LEMMA AsidePhases ==
    ASSUME PoolInv, NoMove, NEW w \in Worker, NEW r, at' = [at EXCEPT ![w] = r],
           at[w].pc \in {"foreign", "count_down", "arrive", "idle"},
           r.pc \in {"foreign", "arrive", "idle"},
           r.pc = "foreign" => r.queue = 0,
           \A q \in Queue : JobsAt(q)' = JobsAt(q),
           UNCHANGED <<registryVars, queueVars, held>>
    PROVE  SameQueues
<1> SUFFICES ASSUME NEW q \in Queue PROVE SameQueue(q)
  BY DEF SameQueues
<1>1. \A v \in Worker : v # w => at'[v] = at[v]
  BY DEF PoolInv, Types, CallTypes
<1>2. ~Serving(w, q) /\ ~Serving(w, q)'
  BY Constants DEF PoolInv, Types, CallTypes, Serving
<1>3. \A v \in Worker : Phase(v, q)' = Phase(v, q) /\ SignalAt(v, q)' = SignalAt(v, q)
  <2>1. Phase(w, q)' = Phase(w, q) /\ SignalAt(w, q)' = SignalAt(w, q)
    BY <1>2 DEF Phase, SignalAt
  <2>2. ASSUME NEW v \in Worker, v # w
        PROVE  Phase(v, q)' = Phase(v, q) /\ SignalAt(v, q)' = SignalAt(v, q)
    BY <2>2, <1>1 DEF Phase, SignalAt, Serving
  <2> QED BY <2>1, <2>2
<1>4. Pausers(q)' = Pausers(q) /\ Registered' = Registered
  BY DEF Pausers, NoMove, Registered, registryVars
<1> QED BY <1>3, <1>4 DEF SameQueue, queueVars, registryVars, IsDeleting

LEMMA IdleWork == Idle \in WorkSet
BY DEF Idle, WorkSet, WorkerPC

\* Foreign is no callback of a queue.
LEMMA ForeignAside ==
    /\ \A q \in Queue : Foreign.queue # q
    /\ Foreign \in CallbackSet
BY Constants DEF Foreign, CallbackSet

LEMMA AppendJob ==
    ASSUME JobsRight, NEW b \in CallbackSet, b \notin ToSet(jobs),
           jobs' = Append(jobs, b)
    PROVE  /\ JobsRight'
           /\ ToSet(jobs') = ToSet(jobs) \cup {b}
<1>1. jobs \in Seq(CallbackSet) /\ Len(jobs) \in Nat
  BY DEF JobsRight
<1>2. /\ jobs' \in Seq(CallbackSet) /\ Len(jobs') = Len(jobs) + 1
      /\ \A i \in 1 .. Len(jobs) : jobs'[i] = jobs[i]
      /\ jobs'[Len(jobs) + 1] = b
  BY <1>1, AppendProperties
<1>3. DOMAIN jobs = 1 .. Len(jobs) /\ DOMAIN jobs' = 1 .. Len(jobs) + 1
  BY <1>1, <1>2
<1>4. ToSet(jobs') = ToSet(jobs) \cup {b}
  BY <1>1, <1>2, <1>3 DEF ToSet
<1>5. IsInjective(jobs')
  <2>1. \A i \in 1 .. Len(jobs) : jobs[i] # b
    BY <1>3 DEF ToSet
  <2>2. \A i, k \in 1 .. Len(jobs) : jobs[i] = jobs[k] => i = k
    BY <1>3 DEF JobsRight, IsInjective
  <2>3. \A i, k \in 1 .. Len(jobs) + 1 : jobs'[i] = jobs'[k] => i = k
    BY <2>1, <2>2, <1>1, <1>2
  <2> QED BY <2>3, <1>3 DEF IsInjective
<1> QED BY <1>2, <1>4, <1>5 DEF JobsRight

LEMMA TakeJob ==
    ASSUME JobsRight, jobs # <<>>, jobs' = Tail(jobs)
    PROVE  /\ JobsRight' /\ Head(jobs) \in CallbackSet /\ Head(jobs) \in ToSet(jobs)
           /\ ToSet(jobs') = ToSet(jobs) \ {Head(jobs)}
<1>1. jobs \in Seq(CallbackSet) /\ Len(jobs) \in Nat /\ Len(jobs) > 0
  BY EmptySeq DEF JobsRight
<1>2. /\ jobs' \in Seq(CallbackSet) /\ Len(jobs') = Len(jobs) - 1
      /\ \A i \in 1 .. Len(jobs) - 1 : jobs'[i] = jobs[i + 1]
      /\ Head(jobs) \in CallbackSet /\ Head(jobs) = jobs[1]
  BY <1>1, HeadTailProperties
<1>3. DOMAIN jobs = 1 .. Len(jobs) /\ DOMAIN jobs' = 1 .. Len(jobs) - 1
  BY <1>1, <1>2
<1>4. \A i, k \in 1 .. Len(jobs) : jobs[i] = jobs[k] => i = k
  BY <1>3 DEF JobsRight, IsInjective
<1>5. IsInjective(jobs')
  <2>1. \A i, k \in 1 .. Len(jobs) - 1 : jobs'[i] = jobs'[k] => i = k
    BY <1>4, <1>1, <1>2
  <2> QED BY <2>1, <1>3 DEF IsInjective
<1>6. ASSUME NEW b PROVE b \in ToSet(jobs') <=> b \in ToSet(jobs) \ {Head(jobs)}
  <2>1. ASSUME b \in ToSet(jobs') PROVE b \in ToSet(jobs) \ {Head(jobs)}
    <3>1. PICK i \in 1 .. Len(jobs) - 1 : b = jobs'[i]
      BY <2>1, <1>3 DEF ToSet
    <3>2. b = jobs[i + 1] /\ i + 1 \in 1 .. Len(jobs) /\ i + 1 # 1
      BY <3>1, <1>1, <1>2
    <3> QED BY <3>2, <1>1, <1>2, <1>3, <1>4 DEF ToSet
  <2>2. ASSUME b \in ToSet(jobs) \ {Head(jobs)} PROVE b \in ToSet(jobs')
    <3>1. PICK i \in 1 .. Len(jobs) : b = jobs[i]
      BY <2>2, <1>3 DEF ToSet
    <3>2. i # 1
      BY <3>1, <2>2, <1>2
    <3>3. i - 1 \in 1 .. Len(jobs) - 1 /\ jobs'[i - 1] = jobs[i]
      BY <3>2, <1>1, <1>2
    <3> QED BY <3>1, <3>3, <1>3 DEF ToSet
  <2> QED BY <2>1, <2>2
<1>7. Head(jobs) \in ToSet(jobs)
  BY <1>1, <1>2, <1>3 DEF ToSet
<1> QED BY <1>2, <1>5, <1>6, <1>7 DEF JobsRight

LEMMA EnqueueForeignKeeps ==
    ASSUME PoolInv, EnqueueForeign
    PROVE  PoolInv'
<1> USE DEF PoolInv
<1>1. /\ Foreign \notin ToSet(jobs) /\ jobs' = Append(jobs, Foreign)
      /\ UNCHANGED <<registryVars, d_lock, counterVars, queueVars, enabled, refused,
                     returnVars, waitVars, scene, held>>
  BY DEF EnqueueForeign
<1>2. JobsRight' /\ ToSet(jobs') = ToSet(jobs) \cup {Foreign}
  BY <1>1, AppendJob, ForeignAside
<1>3. \A q \in Queue : JobsAt(q)' = JobsAt(q)
  BY <1>2, ForeignAside DEF JobsAt
<1>4. NoMove /\ at' = at /\ d_batch' = d_batch
  BY <1>1 DEF NoMove, returnVars
<1>5. SameQueues
  <2>1. \A q \in Queue, w \in Worker : Phase(w, q)' = Phase(w, q)
                                       /\ SignalAt(w, q)' = SignalAt(w, q)
    BY <1>4 DEF Phase, SignalAt, Serving
  <2>2. Registered' = Registered /\ \A q \in Queue : Pausers(q)' = Pausers(q)
    BY <1>1, <1>4 DEF Registered, registryVars, Pausers, NoMove
  <2> QED BY <2>1, <2>2, <1>1, <1>3 DEF SameQueues, SameQueue, queueVars, registryVars,
            IsDeleting
<1>6. CallTypes' /\ BatchesRight' /\ CallsRight'
  BY <1>1, <1>4 DEF CallTypes, BatchesRight, CallsRight, NoMove, Types, scene
<1>7. /\ QueuesRight' /\ IdsRight' /\ PausesRight' /\ JobsCounted'
      /\ StoppingRight' /\ QueueTypes' /\ RegistryTypes'
      /\ ActiveOnes' = ActiveOnes
      /\ \A u \in Thread : Awaited(u)' = Awaited(u)
  BY <1>1, <1>4, <1>5, AsideKeeps DEF counterVars
<1>8. OtherTypes'
  BY <1>1 DEF OtherTypes, Types, counterVars, waitVars, scene
<1>9. ActiveCounted' /\ LatchesRight'
  <2>1. CountingDown' = CountingDown /\ \A u \in Thread : Arriving(u)' = Arriving(u)
    BY <1>4 DEF CountingDown, Arriving
  <2>2. ActiveCounted'
    BY <2>1, <1>1, <1>7 DEF ActiveCounted, counterVars
  <2>3. LatchesRight'
    BY <2>1, <1>1, <1>4, <1>7, LatchesKeep DEF waitVars, NoMove
  <2> QED BY <2>2, <2>3
<1> QED BY <1>2, <1>6, <1>7, <1>8, <1>9 DEF Types

LEMMA ForeignReturnsKeeps ==
    ASSUME PoolInv, NEW w \in Worker, ForeignReturns(w)
    PROVE  PoolInv'
<1> USE DEF PoolInv
<1>1. /\ at[w].pc = "foreign" /\ at' = [at EXCEPT ![w] = Idle]
      /\ UNCHANGED <<registryVars, d_lock, counterVars, queueVars, poolVars, d_batch,
                     pc, ptr, step, waitVars, scene, held>>
  BY DEF ForeignReturns
<1>2. JobsRight' /\ \A q \in Queue : JobsAt(q)' = JobsAt(q)
  BY <1>1 DEF poolVars, JobsRight, JobsAt
<1>3. Idle.pc = "idle" /\ Idle.queue = 0 /\ NoMove
  BY <1>1 DEF Idle, NoMove
<1>4. SameQueues
  BY <1>1, <1>2, <1>3, AsidePhases
<1>5. CallTypes' /\ BatchesRight' /\ CallsRight'
  BY <1>1, <1>3, IdleWork, WorkerMoves DEF scene
<1>6. /\ QueuesRight' /\ IdsRight' /\ PausesRight' /\ JobsCounted'
      /\ StoppingRight' /\ QueueTypes' /\ RegistryTypes'
      /\ ActiveOnes' = ActiveOnes
      /\ \A u \in Thread : Awaited(u)' = Awaited(u)
  BY <1>1, <1>3, <1>4, AsideKeeps DEF counterVars, poolVars
<1>7. OtherTypes'
  BY <1>1 DEF OtherTypes, Types, counterVars, waitVars, scene, poolVars
<1>8. ActiveCounted' /\ LatchesRight'
  <2>0. /\ \A v \in Worker : v # w => at'[v] = at[v]
        /\ at'[w].pc = "idle"
    BY <1>1, <1>3 DEF Types, CallTypes
  <2>1. CountingDown' = CountingDown /\ \A u \in Thread : Arriving(u)' = Arriving(u)
    BY <2>0, <1>1 DEF CountingDown, Arriving
  <2>2. ActiveCounted'
    BY <2>1, <1>1, <1>6 DEF ActiveCounted, counterVars
  <2>3. LatchesRight'
    <3>1. \A v \in Worker : at'[v].pc = "arrive" =>
              at[v].pc = "arrive" /\ at'[v].signal = at[v].signal
      BY <2>0
    <3> QED BY <3>1, <2>1, <1>1, <1>6, LatchesKeep DEF waitVars
  <2> QED BY <2>2, <2>3
<1> QED BY <1>2, <1>5, <1>6, <1>7, <1>8 DEF Types

LEMMA SpuriousWakeupKeeps ==
    ASSUME PoolInv, NEW t \in Thread, SpuriousWakeup(t)
    PROVE  PoolInv'
<1> USE DEF PoolInv
<1>1. /\ woken' = woken \cup {t}
      /\ UNCHANGED <<registryVars, d_lock, counterVars, queueVars, poolVars,
                     returnVars, latch, scene, held>>
  BY DEF SpuriousWakeup
<1>2. NoMove /\ at' = at /\ d_batch' = d_batch
  BY <1>1 DEF NoMove, returnVars
<1>3. JobsRight' /\ \A q \in Queue : JobsAt(q)' = JobsAt(q)
  BY <1>1 DEF poolVars, JobsRight, JobsAt
<1>4. SameQueues
  <2>1. \A q \in Queue, w \in Worker : Phase(w, q)' = Phase(w, q)
                                       /\ SignalAt(w, q)' = SignalAt(w, q)
    BY <1>2 DEF Phase, SignalAt, Serving
  <2>2. Registered' = Registered /\ \A q \in Queue : Pausers(q)' = Pausers(q)
    BY <1>1, <1>2 DEF Registered, registryVars, Pausers, NoMove
  <2> QED BY <2>1, <2>2, <1>1, <1>3 DEF SameQueues, SameQueue, queueVars, registryVars,
            IsDeleting
<1>6. CallTypes' /\ BatchesRight' /\ CallsRight'
  BY <1>1, <1>2 DEF CallTypes, BatchesRight, CallsRight, NoMove, Types, scene
<1>7. /\ QueuesRight' /\ IdsRight' /\ PausesRight' /\ JobsCounted'
      /\ StoppingRight' /\ QueueTypes' /\ RegistryTypes'
      /\ ActiveOnes' = ActiveOnes
      /\ \A u \in Thread : Awaited(u)' = Awaited(u)
  BY <1>1, <1>2, <1>4, AsideKeeps DEF counterVars, poolVars
<1>8. OtherTypes'
  BY <1>1 DEF OtherTypes, Types, counterVars, poolVars, scene
<1>9. ActiveCounted' /\ LatchesRight'
  <2>1. CountingDown' = CountingDown /\ \A u \in Thread : Arriving(u)' = Arriving(u)
    BY <1>2 DEF CountingDown, Arriving
  <2>2. ActiveCounted'
    BY <2>1, <1>1, <1>7 DEF ActiveCounted, counterVars
  <2>3. LatchesRight'
    BY <2>1, <1>1, <1>2, <1>7, LatchesKeep DEF NoMove
  <2> QED BY <2>2, <2>3
<1> QED BY <1>3, <1>6, <1>7, <1>8, <1>9 DEF Types

-----------------------------------------------------------------------------
(* What a step that concerns one queue leaves of the others *)

LEMMA CallbackKinds ==
    ASSUME NEW q \in Queue
    PROVE  /\ Callback(q) \in CallbackSet /\ Callback(q).queue = q
           /\ Callback(q) \notin Deletions(q)
           /\ \A b \in Deletions(q) : b \in CallbackSet /\ b.queue = q
           /\ \A b \in CallbackSet : b.queue = q => b = Callback(q) \/ b \in Deletions(q)
<1>1. Callback(q) \in CallbackSet /\ Callback(q).queue = q
  BY DEF CallbackSet, Callback
<1>2. \A b \in Deletions(q) : b \in CallbackSet /\ b.queue = q /\ b.run = "delete"
  BY DEF CallbackSet, Deletions, Deletion
<1>3. Callback(q).run = "execute"
  BY DEF Callback
<1>4. ASSUME NEW b \in CallbackSet, b.queue = q
      PROVE  b = Callback(q) \/ b \in Deletions(q)
  <2>1. b # Foreign
    BY <1>4, ForeignAside
  <2>2. ASSUME NEW p \in Queue, b = Callback(p) PROVE b = Callback(q)
    BY <2>2, <1>4 DEF Callback
  <2>3. ASSUME NEW p \in Queue, b \in Deletions(p) PROVE b \in Deletions(q)
    BY <2>3, <1>4 DEF Deletions, Deletion
  <2> QED BY <2>1, <2>2, <2>3 DEF CallbackSet
<1> QED BY <1>1, <1>2, <1>3, <1>4

LEMMA QueueKinds ==
    ASSUME CallTypes, JobsRight, NEW q \in Queue
    PROVE  /\ \A b \in JobsAt(q) : b = Callback(q) \/ b \in Deletions(q)
           /\ \A w \in Worker :
                 Phase(w, q) \in {"none", "execute", "batch", "delete", "release"}
<1>1. \A b \in ToSet(jobs) : b \in CallbackSet
  BY DEF JobsRight, ToSet
<1>2. \A b \in JobsAt(q) : b = Callback(q) \/ b \in Deletions(q)
  BY <1>1, CallbackKinds DEF JobsAt
<1>3. ASSUME NEW w \in Worker
      PROVE  Phase(w, q) \in {"none", "execute", "batch", "delete", "release"}
  <2>1. at[w].pc \in WorkerPC
    BY DEF CallTypes, WorkSet
  <2>2. at[w].pc = "foreign" => at[w].queue # q
    BY Constants DEF CallTypes
  <2> QED BY <2>1, <2>2 DEF Phase, Serving, WorkerPC
<1> QED BY <1>2, <1>3

\* A queue that is not active has nothing in the thread pool; and an active one
\* has.
Unplaced(q) == JobsAt(q) = {} /\ \A w \in Worker : Phase(w, q) = "none"

LEMMA ActivePlaced ==
    ASSUME CallTypes, JobsRight, NEW q \in Queue, StateRight(q)
    PROVE  Active(q) <=> ~Unplaced(q)
<1>1. /\ \A b \in JobsAt(q) : b = Callback(q) \/ b \in Deletions(q)
      /\ \A w \in Worker :
            Phase(w, q) \in {"none", "execute", "batch", "delete", "release"}
  BY QueueKinds
<1>2. HasCallback(q) \/ HasDeletion(q) <=> ~Unplaced(q)
  BY <1>1 DEF HasCallback, HasDeletion, Unplaced
<1> QED BY <1>2 DEF StateRight, Active

LEMMA SubmitOne ==
    ASSUME JobsRight, refused = FALSE, enabled, NEW b \in CallbackSet,
           b \notin ToSet(jobs), Submit(<<b>>)
    PROVE  /\ JobsRight' /\ enabled' = enabled /\ refused' = refused
           /\ JobsAt(b.queue)' = JobsAt(b.queue) \cup {b}
           /\ \A q \in Queue : q # b.queue => JobsAt(q)' = JobsAt(q)
<1>1. jobs' = jobs \o <<b>> /\ enabled' = enabled /\ refused' = refused
  BY DEF Submit
<1>2. jobs' = Append(jobs, b)
  BY <1>1, AppendIsConcat DEF JobsRight
<1>3. JobsRight' /\ ToSet(jobs') = ToSet(jobs) \cup {b}
  BY <1>2, AppendJob
<1> QED BY <1>1, <1>3 DEF JobsAt

OtherQueuesSame(p) == \A q \in Queue \ {p} : SameQueue(q)

LEMMA OneQueueChanges ==
    ASSUME PoolInv, NEW p \in Queue, OtherQueuesSame(p), QueueRight(p)'
    PROVE  /\ QueuesRight'
           /\ (Active(p)' <=> Active(p)) => ActiveOnes' = ActiveOnes
           /\ Active(p)' /\ ~Active(p) =>
                 Cardinality(ActiveOnes') = Cardinality(ActiveOnes) + 1
           /\ ~Active(p)' /\ Active(p) =>
                 Cardinality(ActiveOnes') = Cardinality(ActiveOnes) - 1
           /\ \A t \in Thread : \A q \in Queue \ {p} :
                 DeletionFor(q, t)' <=> DeletionFor(q, t)
           /\ \A t \in Thread :
                 (DeletionFor(p, t)' <=> DeletionFor(p, t)) => Awaited(t)' = Awaited(t)
<1>1. \A q \in Queue \ {p} : SameQueue(q)
  BY DEF OtherQueuesSame
<1>2. QueuesRight'
  <2>1. \A q \in Queue \ {p} : QueueRight(q)'
    BY <1>1, SameQueueKeeps DEF PoolInv, QueuesRight
  <2> QED BY <2>1 DEF QueuesRight
<1>3. \A q \in Queue \ {p} : Active(q)' <=> Active(q)
  BY <1>1, SameQueueActive
<1>4. \A t \in Thread : \A q \in Queue \ {p} : DeletionFor(q, t)' <=> DeletionFor(q, t)
  BY <1>1 DEF SameQueue, DeletionFor, IsScheduled, Deletion
<1>5. IsFiniteSet(ActiveOnes)
  BY Constants, FS_Subset DEF ActiveOnes
<1>6. (Active(p)' <=> Active(p)) => ActiveOnes' = ActiveOnes
  BY <1>3 DEF ActiveOnes
<1>7. ASSUME Active(p)', ~Active(p)
      PROVE  Cardinality(ActiveOnes') = Cardinality(ActiveOnes) + 1
  <2>1. ActiveOnes' = ActiveOnes \cup {p} /\ p \notin ActiveOnes
    BY <1>3, <1>7 DEF ActiveOnes
  <2> QED BY <2>1, <1>5, FS_AddElement
<1>8. ASSUME ~Active(p)', Active(p)
      PROVE  Cardinality(ActiveOnes') = Cardinality(ActiveOnes) - 1
  <2>1. ActiveOnes' = ActiveOnes \ {p} /\ p \in ActiveOnes
    BY <1>3, <1>8 DEF ActiveOnes
  <2> QED BY <2>1, <1>5, FS_RemoveElement
<1>9. ASSUME NEW t \in Thread, DeletionFor(p, t)' <=> DeletionFor(p, t)
      PROVE  Awaited(t)' = Awaited(t)
  BY <1>4, <1>9 DEF Awaited
<1> QED BY <1>2, <1>4, <1>6, <1>7, <1>8, <1>9

-----------------------------------------------------------------------------
(* The number of jobs in the queues *)

AreLists(list) == list \in [Queue -> Seq(Job \cup CallbackSet)]
PairsOf(list, Qs) == UNION {{q} \X DOMAIN list[q] : q \in Qs}
Kept     == {q \in Queue : ~IsDeleting(q)}
Row(list, Qs, q) == IF q \in Qs THEN Len(list[q]) ELSE 0
Share(q) == Row(d_list, Kept, q)

LEMMA RowSize ==
    ASSUME NEW x, NEW n \in Nat
    PROVE  IsFiniteSet({x} \X (1 .. n)) /\ Cardinality({x} \X (1 .. n)) = n
<1>1. IsFiniteSet(1 .. n) /\ Cardinality(1 .. n) = n
  <2>1. 1 \in Int /\ n \in Int
    OBVIOUS
  <2>2. IsFiniteSet(1 .. n) /\ Cardinality(1 .. n) = IF 1 > n THEN 0 ELSE n - 1 + 1
    BY <2>1, FS_Interval
  <2> QED BY <2>2
<1>2. IsFiniteSet({x}) /\ Cardinality({x}) = 1
  BY FS_Singleton
<1>3. /\ IsFiniteSet({x} \X (1 .. n))
      /\ Cardinality({x} \X (1 .. n)) = Cardinality({x}) * Cardinality(1 .. n)
  BY <1>1, <1>2, FS_Product
<1>4. 1 * n = n
  OBVIOUS
<1> QED BY <1>1, <1>2, <1>3, <1>4

LEMMA PairsFinite ==
    ASSUME NEW list, AreLists(list), NEW Qs \in SUBSET Queue
    PROVE  IsFiniteSet(PairsOf(list, Qs)) /\ \A x \in PairsOf(list, Qs) : x[1] \in Qs
<1> DEFINE f == [q \in Qs |-> {q} \X DOMAIN list[q]]
           T == {{q} \X DOMAIN list[q] : q \in Qs}
<1>1. IsFiniteSet(Qs)
  BY Constants, FS_Subset
<1>2. f \in Surjection(Qs, T)
  BY DEF Surjection
<1>3. IsFiniteSet(T)
  BY <1>1, <1>2, FS_Surjection
<1>4. ASSUME NEW q \in Qs PROVE IsFiniteSet({q} \X DOMAIN list[q])
  <2>1. DOMAIN list[q] = 1 .. Len(list[q]) /\ Len(list[q]) \in Nat
    BY DEF AreLists
  <2> QED BY <2>1, RowSize
<1>5. IsFiniteSet(UNION T)
  BY <1>3, <1>4, FS_UNION
<1>6. \A x \in UNION T : x[1] \in Qs
  OBVIOUS
<1> QED BY <1>5, <1>6 DEF PairsOf

LEMMA PairsSplit ==
    ASSUME NEW list, AreLists(list),
           NEW Ps \in SUBSET Queue, NEW Qs \in SUBSET Queue, Ps \cap Qs = {}
    PROVE  Cardinality(PairsOf(list, Ps \cup Qs))
           = Cardinality(PairsOf(list, Ps)) + Cardinality(PairsOf(list, Qs))
<1>1. PairsOf(list, Ps \cup Qs) = PairsOf(list, Ps) \cup PairsOf(list, Qs)
  BY DEF PairsOf
<1>2. /\ IsFiniteSet(PairsOf(list, Ps)) /\ IsFiniteSet(PairsOf(list, Qs))
      /\ PairsOf(list, Ps) \cap PairsOf(list, Qs) = {}
  BY PairsFinite
<1>3. Cardinality(PairsOf(list, Ps) \cup PairsOf(list, Qs))
      = Cardinality(PairsOf(list, Ps)) + Cardinality(PairsOf(list, Qs)) - Cardinality({})
  BY <1>2, FS_Union
<1>4. /\ Cardinality(PairsOf(list, Ps)) \in Nat /\ Cardinality(PairsOf(list, Qs)) \in Nat
      /\ Cardinality({}) = 0
  BY <1>2, FS_CardinalityType, FS_EmptySet
<1>5. Cardinality(PairsOf(list, Ps) \cup PairsOf(list, Qs))
      = Cardinality(PairsOf(list, Ps)) + Cardinality(PairsOf(list, Qs))
  BY <1>3, <1>4
<1> QED BY <1>1, <1>5, Zenon

LEMMA PairsShared ==
    ASSUME NEW list, AreLists(list), NEW Qs \in SUBSET Queue, NEW p \in Queue
    PROVE  Cardinality(PairsOf(list, Qs))
           = Cardinality(PairsOf(list, Qs \ {p}))
             + Row(list, Qs, p)
<1> USE DEF Row
<1>1. CASE p \notin Qs
  <2>1. PairsOf(list, Qs \ {p}) = PairsOf(list, Qs)
    BY <1>1 DEF PairsOf
  <2>2. Cardinality(PairsOf(list, Qs)) \in Nat
    BY PairsFinite, FS_CardinalityType
  <2>3. Cardinality(PairsOf(list, Qs)) = Cardinality(PairsOf(list, Qs)) + 0
    BY <2>2
  <2> QED BY <2>1, <2>3, <1>1, Zenon
<1>2. CASE p \in Qs
  <2>0. /\ Qs \ {p} \in SUBSET Queue /\ {p} \in SUBSET Queue
        /\ (Qs \ {p}) \cap {p} = {} /\ Len(list[p]) \in Nat
    BY DEF AreLists
  <2>1. Cardinality(PairsOf(list, (Qs \ {p}) \cup {p}))
        = Cardinality(PairsOf(list, Qs \ {p})) + Cardinality(PairsOf(list, {p}))
    BY <2>0, PairsSplit, Zenon
  <2>2. PairsOf(list, {p}) = {p} \X (1 .. Len(list[p]))
    BY DEF PairsOf, AreLists
  <2>3. Cardinality(PairsOf(list, {p})) = Len(list[p])
    BY <2>0, <2>2, RowSize, Zenon
  <2>4. (Qs \ {p}) \cup {p} = Qs
    BY <1>2
  <2> QED BY <2>1, <2>3, <2>4, <1>2, Zenon
<1> QED BY <1>1, <1>2

LEMMA OneQueueJobs ==
    ASSUME NEW p \in Queue, OtherQueuesSame(p), QueueTypes, QueueTypes'
    PROVE  /\ Cardinality(JobsIn') - Share(p)' = Cardinality(JobsIn) - Share(p)
           /\ Cardinality(JobsIn) \in Int /\ Cardinality(JobsIn') \in Int
           /\ Share(p) \in Nat /\ Share(p)' \in Nat
<1>0. /\ AreLists(d_list) /\ AreLists(d_list')
      /\ Kept \in SUBSET Queue /\ Kept' \in SUBSET Queue
  BY DEF QueueTypes, Kept, CallbackSet, Deletions, AreLists
<1>1. PairsOf(d_list', Kept' \ {p}) = PairsOf(d_list, Kept \ {p})
  <2>1. Kept' \ {p} = Kept \ {p}
    BY DEF OtherQueuesSame, SameQueue, Kept
  <2>2. \A q \in Kept \ {p} : d_list'[q] = d_list[q]
    BY DEF OtherQueuesSame, SameQueue, Kept
  <2> QED BY <2>1, <2>2 DEF PairsOf
<1>2. /\ JobsIn = PairsOf(d_list, Kept)
      /\ JobsIn' = PairsOf(d_list', Kept')
  BY DEF JobsIn, PairsOf, Kept
<1>3. Cardinality(JobsIn) = Cardinality(PairsOf(d_list, Kept \ {p})) + Share(p)
  <2>1. Cardinality(PairsOf(d_list, Kept)) = Cardinality(PairsOf(d_list, Kept \ {p}))
                                             + Row(d_list, Kept, p)
    BY <1>0, PairsShared, Zenon
  <2> QED BY <1>2, <2>1 DEF Share
<1>4. Cardinality(JobsIn') = Cardinality(PairsOf(d_list', Kept' \ {p})) + Share(p)'
  <2>1. Cardinality(PairsOf(d_list', Kept'))
        = Cardinality(PairsOf(d_list', Kept' \ {p}))
          + Row(d_list', Kept', p)
    BY <1>0, PairsShared, Zenon
  <2> QED BY <1>2, <2>1 DEF Share
<1>5. Cardinality(PairsOf(d_list, Kept \ {p})) \in Nat
  <2>1. IsFiniteSet(PairsOf(d_list, Kept \ {p}))
    BY <1>0, PairsFinite
  <2> QED BY <2>1, FS_CardinalityType
<1>6. Share(p) \in Nat /\ Share(p)' \in Nat
  BY <1>0 DEF Share, Row, AreLists
<1> QED BY <1>1, <1>3, <1>4, <1>5, <1>6

\* Nobody waits for a queue that is not being deleted.
LEMMA NotDeleting ==
    \A q \in Queue : CallTypes /\ JobsRight /\ StateRight(q) /\ ~IsDeleting(q) =>
        /\ \A u \in Thread : ~DeletionFor(q, u)
        /\ JobsAt(q) \subseteq {Callback(q)}
        /\ \A w \in Worker : Phase(w, q) \in {"none", "execute", "batch"}
<1> SUFFICES ASSUME NEW q \in Queue, CallTypes, JobsRight, StateRight(q), ~IsDeleting(q)
             PROVE  /\ \A u \in Thread : ~DeletionFor(q, u)
                    /\ JobsAt(q) \subseteq {Callback(q)}
                    /\ \A w \in Worker : Phase(w, q) \in {"none", "execute", "batch"}
  OBVIOUS
<1>1. /\ JobsAt(q) \cap Deletions(q) = {}
      /\ \A w \in Worker : Phase(w, q) \notin {"delete", "release"}
  BY DEF StateRight, HasDeletion
<1>2. \A u \in Thread : Deletion(q, u) \in Deletions(q)
  BY DEF Deletions
<1>3. /\ \A b \in JobsAt(q) : b = Callback(q) \/ b \in Deletions(q)
      /\ \A w \in Worker :
            Phase(w, q) \in {"none", "execute", "batch", "delete", "release"}
  BY QueueKinds
<1>4. \A u \in Thread : ~DeletionFor(q, u)
  BY <1>1, <1>2 DEF DeletionFor
<1> QED BY <1>1, <1>3, <1>4

LEMMA KeptQueueChanges ==
    ASSUME PoolInv, NEW p \in Queue, OtherQueuesSame(p), QueueRight(p)', CallTypes',
           JobsRight', ~IsDeleting(p), ~IsDeleting(p)'
    PROVE  /\ QueuesRight'
           /\ (Active(p)' <=> Active(p)) => ActiveOnes' = ActiveOnes
           /\ Active(p)' /\ ~Active(p) =>
                 Cardinality(ActiveOnes') = Cardinality(ActiveOnes) + 1
           /\ ~Active(p)' /\ Active(p) =>
                 Cardinality(ActiveOnes') = Cardinality(ActiveOnes) - 1
           /\ \A t \in Thread : Awaited(t)' = Awaited(t)
<1>1. \A t \in Thread : ~DeletionFor(p, t)
  BY NotDeleting DEF PoolInv, Types, QueuesRight, QueueRight
<1>2. (\A q \in Queue : CallTypes /\ JobsRight /\ StateRight(q) /\ ~IsDeleting(q) =>
        /\ \A u \in Thread : ~DeletionFor(q, u)
        /\ JobsAt(q) \subseteq {Callback(q)}
        /\ \A w \in Worker : Phase(w, q) \in {"none", "execute", "batch"})'
  BY NotDeleting, PTL
<1>3. \A t \in Thread : ~DeletionFor(p, t)'
  BY <1>2 DEF QueueRight
<1> QED BY <1>1, <1>3, OneQueueChanges

LEMMA PausesKeep ==
    ASSUME PoolInv, program' = program,
           \A u \in Thread : ptr'[u] = ptr[u] \/ ptr'[u] = 0,
           \A q \in Queue : \/ d_runState'[q] \in {"NOT_SCHEDULED", "SCHEDULED"}
                            \/ IsDeleting(q)'
                            \/ d_runState'[q] = d_runState[q]
                               /\ (IsDeleting(q) => IsDeleting(q)')
    PROVE  PausesRight'
<1>1. MakesCall(program, "pauseQueue")' <=> MakesCall(program, "pauseQueue")
  BY DEF MakesCall, CallsOf
<1> QED BY <1>1 DEF PoolInv, PausesRight

\* A queue that is not active gets its callback.
LEMMA ScheduledRight ==
    ASSUME PoolInv, NEW p \in Queue, ~Active(p), p \notin free, p \in Registered,
           JobsAt(p)' = JobsAt(p) \cup {Callback(p)},
           \A w \in Worker : Phase(w, p)' = Phase(w, p),
           Pausers(p)' = Pausers(p), d_pauseCount'[p] = d_pauseCount[p],
           d_runState'[p] = "SCHEDULED", held'[p] = "no", ~IsDeleting(p)',
           d_list'[p] \in Seq(Job), d_list'[p] # <<>>,
           p \notin free', (p \in Registered)'
    PROVE  QueueRight(p)' /\ Active(p)'
<1>1. QueueRight(p)
  BY DEF PoolInv, QueuesRight
<1>2. JobsAt(p)' = {Callback(p)} /\ \A w \in Worker : Phase(w, p)' = "none"
  BY <1>1, ActivePlaced DEF PoolInv, Types, QueueRight, Unplaced
<1>3. Callback(p)' = Callback(p) /\ Deletions(p)' = Deletions(p)
      /\ Callback(p) \notin Deletions(p)
  BY CallbackKinds DEF Callback, Deletions, Deletion
<1>4. OnePlace(p)'
  BY <1>2 DEF OnePlace
<1>5. HasCallback(p)' /\ ~HasDeletion(p)' /\ IsScheduled(p)'
  BY <1>2, <1>3 DEF HasCallback, HasDeletion, IsScheduled
<1>6. StateRight(p)'
  BY <1>2, <1>5 DEF StateRight
<1>7. ListRight(p)' /\ KnownRight(p)'
  BY <1>2 DEF ListRight, KnownRight
<1>8. PauseRight(p)'
  BY <1>1, <1>2 DEF PauseRight, QueueRight
<1> QED BY <1>4, <1>5, <1>6, <1>7, <1>8 DEF QueueRight, Active

LEMMA SameWorkRegistry ==
    ASSUME PoolInv, SameWork, NEW p \in Queue,
           UNCHANGED <<free, d_queueRegistry>>,
           \A q \in Queue \ {p} : /\ JobsAt(q)' = JobsAt(q) /\ Pausers(q)' = Pausers(q)
                                  /\ d_list'[q] = d_list[q]
                                  /\ d_runState'[q] = d_runState[q]
                                  /\ d_pauseCount'[q] = d_pauseCount[q]
                                  /\ d_processor'[q] = d_processor[q]
                                  /\ held'[q] = held[q]
                                  /\ (IsDeleting(q)' <=> IsDeleting(q))
    PROVE  OtherQueuesSame(p) /\ Registered' = Registered
BY SameWorkPhases DEF OtherQueuesSame, SameQueue, Registered

LEMMA PushKeeps ==
    ASSUME PoolInv, NEW t \in Thread, Push(t)
    PROVE  PoolInv'
<1> USE DEF PoolInv
<1>1. PICK o \in Pushes :
        /\ Accepts(t, o) /\ Goto(t, "count") /\ ReadLock(t)
        /\ UNCHANGED <<registryVars, d_numExecuted, d_numEnqueued, d_numDeleted,
                       d_batchSize, d_enqueueState, d_pauseCount, d_processor,
                       ptr, waitVars, scene, held>>
        /\ d_list' = [d_list EXCEPT ![QueueOf(t)] =
                        IF o = "enqueueJob" THEN Append(@, NextCall(t).job)
                        ELSE <<NextCall(t).job>> \o @]
  BY DEF Push, Pushes
<1>2. PICK p \in Queue : p = QueueOf(t)
  BY <1>1, AcceptsQueue
<1>3. /\ p \in Registered /\ p \notin free /\ ~IsDeleting(p)
      /\ d_state = "RUNNING" /\ enabled /\ MayCall(t) /\ pc[t] = "idle"
      /\ NextCall(t).op = o
  BY <1>1, <1>2, AcceptsQueue
<1>4. PICK j \in Job : j = NextCall(t).job
  BY <1>3, NextCallType DEF Calls
<1>5. d_list[p] \in Seq(Job) /\ Len(d_list[p]) \in Nat
  BY <1>3 DEF QueuesRight, QueueRight, ListRight
<1>6. PICK list \in Seq(Job) : /\ d_list' = [d_list EXCEPT ![p] = list]
                               /\ Len(list) = Len(d_list[p]) + 1 /\ list # <<>>
  <2>1. CASE o = "enqueueJob"
    <3>1. /\ Append(d_list[p], j) \in Seq(Job) /\ Append(d_list[p], j) # <<>>
          /\ Len(Append(d_list[p], j)) = Len(d_list[p]) + 1
      BY <1>5, AppendProperties
    <3>2. d_list' = [d_list EXCEPT ![p] = Append(d_list[p], j)]
      BY <2>1, <1>1, <1>2, <1>4
    <3> QED BY <3>1, <3>2
  <2>2. CASE o # "enqueueJob"
    <3>1. <<j>> \in Seq(Job) /\ Len(<<j>>) = 1
      OBVIOUS
    <3>2. <<j>> \o d_list[p] \in Seq(Job) /\ Len(<<j>> \o d_list[p]) = 1 + Len(d_list[p])
      BY <3>1, <1>5, ConcatProperties
    <3>3. <<j>> \o d_list[p] # <<>> /\ 1 + Len(d_list[p]) = Len(d_list[p]) + 1
      BY <3>2, <1>5
    <3> QED BY <3>2, <3>3, <2>2, <1>1, <1>2, <1>4
  <2> QED BY <2>1, <2>2
<1>7. \/ NeedsCallback(p) /\ Schedule(p)
      \/ ~NeedsCallback(p) /\ UNCHANGED <<d_runState, d_numActiveQueues, poolVars>>
  BY <1>2 DEF Push
<1>8. /\ MoveRight /\ SameWork /\ pc' = [pc EXCEPT ![t] = "count"] /\ step' = step
      /\ ptr' = ptr /\ program' = program
  <2>1. "count" \in CallPC /\ program' = program /\ ptr' = ptr
        /\ ptr' \in [Thread -> Queue \cup {0}] /\ pc' = [pc EXCEPT ![t] = "count"]
    BY <1>1 DEF CallPC, scene, Types, CallTypes, Goto
  <2>2. \A u \in Thread : ptr'[u] # 0 <=> pc'[u] \in {"pause_wait", "pause_sleep"}
    BY <2>1, <1>3 DEF CallsRight, Types, CallTypes
  <2> QED BY <2>1, <2>2, <1>1, <1>3, GotoMoves DEF Types
<1>9. /\ JobsRight' /\ enabled' = enabled /\ refused' = refused
      /\ \A q \in Queue : q # p => JobsAt(q)' = JobsAt(q)
      /\ JobsAt(p)' = IF NeedsCallback(p) THEN JobsAt(p) \cup {Callback(p)} ELSE JobsAt(p)
  <2>1. CASE NeedsCallback(p)
    <3>1. ~Active(p) /\ QueueRight(p)
      BY <2>1, <1>3 DEF NeedsCallback, Active, IsScheduled, QueuesRight
    <3>2. JobsAt(p) = {}
      BY <3>1, ActivePlaced DEF Unplaced, Types, QueueRight
    <3>3. Callback(p) \notin ToSet(jobs)
      BY <3>2, CallbackKinds DEF JobsAt
    <3> QED BY <2>1, <3>3, <1>3, <1>7, SubmitOne, CallbackKinds DEF Schedule, StoppingRight
  <2>2. CASE ~NeedsCallback(p)
    BY <2>2, <1>7 DEF poolVars, JobsRight, JobsAt
  <2> QED BY <2>1, <2>2
<1>10. OtherQueuesSame(p) /\ Registered' = Registered
  <2>1. UNCHANGED <<free, d_queueRegistry, d_pauseCount, d_processor, held,
                    d_enqueueState>>
    BY <1>1 DEF registryVars
  <2>2. \A q \in Queue \ {p} : d_list'[q] = d_list[q] /\ d_runState'[q] = d_runState[q]
    BY <1>6, <1>7 DEF Schedule, Types, QueueTypes
  <2>3. \A q \in Queue : Pausers(q)' = Pausers(q)
    BY <1>8 DEF Pausers
  <2> QED BY <1>8, <1>9, <2>1, <2>2, <2>3, SameWorkRegistry DEF IsDeleting
<1>11. /\ QueueRight(p)' /\ ~IsDeleting(p)'
       /\ Active(p)' <=> Active(p) \/ NeedsCallback(p)
       /\ NeedsCallback(p) => ~Active(p)
  <2>0. QueueRight(p)
    BY DEF QueuesRight
  <2>1. /\ ~IsDeleting(p)' /\ p \notin free' /\ (p \in Registered)'
        /\ d_pauseCount'[p] = d_pauseCount[p] /\ held'[p] = held[p]
        /\ d_processor'[p] = d_processor[p] /\ Pausers(p)' = Pausers(p)
        /\ d_list'[p] = list
    BY <1>1, <1>3, <1>6, <1>8, <1>10
       DEF registryVars, IsDeleting, Pausers, Types, QueueTypes
  <2>2. \A w \in Worker : Phase(w, p)' = Phase(w, p)
    BY <1>8, SameWorkPhases
  <2>3. CASE NeedsCallback(p)
    <3>1. ~Active(p) /\ held[p] = "no"
      BY <2>3, <1>3, <2>0 DEF NeedsCallback, Active, IsScheduled, QueueRight, PauseRight
    <3>2. d_runState'[p] = "SCHEDULED"
      BY <2>3, <1>7 DEF Schedule, Types, QueueTypes
    <3> QED BY <3>1, <3>2, <2>1, <2>2, <2>3, <1>3, <1>6, <1>9, ScheduledRight
  <2>4. CASE ~NeedsCallback(p)
    <3>1. d_runState'[p] = d_runState[p] /\ JobsAt(p)' = JobsAt(p)
      BY <2>4, <1>7, <1>9
    <3>2. Callback(p)' = Callback(p) /\ Deletions(p)' = Deletions(p)
      BY DEF Callback, Deletions, Deletion
    <3>3. OnePlace(p)' /\ StateRight(p)'
      BY <3>1, <3>2, <2>0, <2>1, <2>2, <1>3
         DEF QueueRight, OnePlace, StateRight, HasCallback, HasDeletion, IsScheduled
    <3>4. ListRight(p)' /\ KnownRight(p)' /\ PauseRight(p)'
      BY <3>1, <2>0, <2>1, <2>2, <2>4, <1>6
         DEF QueueRight, ListRight, KnownRight, PauseRight, NeedsCallback
    <3>5. Active(p)' <=> Active(p)
      BY <3>1, <2>1, <1>3 DEF Active, IsScheduled
    <3> QED BY <3>3, <3>4, <3>5, <2>1, <2>4 DEF QueueRight
  <2> QED BY <2>3, <2>4
<1>12. /\ QueuesRight' /\ \A u \in Thread : Awaited(u)' = Awaited(u)
       /\ ~NeedsCallback(p) => ActiveOnes' = ActiveOnes
       /\ NeedsCallback(p) => Cardinality(ActiveOnes') = Cardinality(ActiveOnes) + 1
  BY <1>3, <1>8, <1>9, <1>10, <1>11, KeptQueueChanges DEF MoveRight
<1>13. QueueTypes' /\ RegistryTypes' /\ OtherTypes' /\ d_lock'.writer = d_lock.writer
  <2>1. QueueTypes'
    <3>1. d_list' \in [Queue -> Seq(Job \cup CallbackSet)]
      BY <1>6 DEF Types, QueueTypes
    <3>2. d_runState' \in [Queue -> {"NOT_SCHEDULED", "SCHEDULED", "PAUSING", "PAUSED"}]
      BY <1>7 DEF Types, QueueTypes, Schedule
    <3> QED BY <1>1, <3>1, <3>2 DEF Types, QueueTypes
  <2>2. d_lock' \in [readers : SUBSET Thread, writer : Thread \cup {None}]
        /\ d_lock'.writer = d_lock.writer
    BY <1>1, LocksKeep DEF Types
  <2>3. RegistryTypes'
    BY <2>2, <1>1 DEF Types, RegistryTypes, registryVars
  <2>4. d_numActiveQueues' \in Int
    BY <1>7 DEF Schedule, Types, OtherTypes
  <2>5. OtherTypes'
    BY <2>4, <1>1, <1>8, <1>9 DEF Types, OtherTypes, waitVars, scene
  <2> QED BY <2>1, <2>2, <2>3, <2>5
<1>14. IdsRight' /\ PausesRight'
  <2>1. IdsRight'
    BY <1>1 DEF IdsRight, registryVars
  <2>2. \A q \in Queue : d_runState'[q] = "SCHEDULED" \/ d_runState'[q] = d_runState[q]
    BY <1>7 DEF Schedule, Types, QueueTypes
  <2>3. \A q \in Queue : IsDeleting(q)' <=> IsDeleting(q)
    BY <1>1 DEF IsDeleting
  <2> QED BY <2>1, <2>2, <2>3, <1>8, PausesKeep
<1>15. LatchesRight'
  <2>1. \A u \in Thread : Arriving(u)' = Arriving(u)
    BY <1>8, SameWorkPhases
  <2>2. \A u \in Thread : pc'[u] \notin {"latch", "shutdown_latch"} =>
              pc[u] \notin {"latch", "shutdown_latch"} \/ latch[u] = 0
    BY <1>3, <1>8 DEF Types, CallTypes
  <2>3. latch' = latch
    BY <1>1 DEF waitVars
  <2>4. \A w \in Worker : at'[w].pc = "arrive" =>
              at[w].pc = "arrive" /\ at'[w].signal = at[w].signal
    BY <1>8 DEF SameWork
  <2> QED BY <1>12, <2>1, <2>2, <2>3, <2>4, LatchesKeep
<1>16. ActiveCounted'
  <2>1. CountingDown' = CountingDown
    BY <1>8, SameWorkPhases
  <2>2. /\ NeedsCallback(p) => d_numActiveQueues' = d_numActiveQueues + 1
        /\ ~NeedsCallback(p) => d_numActiveQueues' = d_numActiveQueues
    BY <1>7 DEF Schedule
  <2>3. Cardinality(ActiveOnes) \in Nat /\ Cardinality(CountingDown) \in Nat
    BY Constants, FS_Subset, FS_CardinalityType DEF ActiveOnes, CountingDown
  <2> QED BY <2>1, <2>2, <2>3, <1>12 DEF ActiveCounted
<1>17. StoppingRight'
  <2>1. \A u \in Thread : pc'[u] \in StopPC => pc[u] \in StopPC
    BY <1>8 DEF StopPC, Types, CallTypes
  <2> QED BY <2>1, <1>1, <1>3, <1>9, RunningStops DEF registryVars
<1>18. JobsCounted'
  <2>1. Share(p) = Len(d_list[p]) /\ Share(p)' = Len(d_list[p]) + 1
    BY <1>3, <1>6, <1>11 DEF Share, Row, Kept, Types, QueueTypes
  <2>2. /\ Cardinality(JobsIn') - Share(p)' = Cardinality(JobsIn) - Share(p)
        /\ Cardinality(JobsIn) \in Int /\ Cardinality(JobsIn') \in Int
    BY <1>10, <1>13, OneQueueJobs DEF Types
  <2>3. Uncounted' = Uncounted \cup {t} /\ t \notin Uncounted
    BY <1>3, <1>8 DEF Uncounted, Types, CallTypes
  <2>4. IsFiniteSet(Uncounted)
    BY Constants, FS_Subset DEF Uncounted
  <2>5. /\ Cardinality(Uncounted') = Cardinality(Uncounted) + 1
        /\ Cardinality(Uncounted) \in Nat
    BY <2>3, <2>4, FS_AddElement, FS_CardinalityType
  <2>6. Cardinality(JobsIn') = Cardinality(JobsIn) + 1
    BY <2>1, <2>2, <1>5
  <2>7. UNCHANGED <<reported, d_numEnqueued, d_numExecuted, d_numDeleted>>
    BY <1>1 DEF scene
  <2>8. /\ reported \in Int
        /\ d_numEnqueued \in Nat /\ d_numExecuted \in Nat /\ d_numDeleted \in Nat
    BY DEF Types, OtherTypes
  <2> QED BY <2>2, <2>5, <2>6, <2>7, <2>8 DEF JobsCounted
<1> QED BY <1>8, <1>9, <1>12, <1>13, <1>14, <1>15, <1>16, <1>17, <1>18
           DEF MoveRight, Types

\* Parts of the invariant after a thread's move that concerns one queue.
LEMMA MoveLatches ==
    ASSUME PoolInv, NEW t \in Thread, SameWork, latch' = latch,
           \A u \in Thread : Awaited(u)' = Awaited(u),
           NEW place, pc' = [pc EXCEPT ![t] = place],
           pc[t] \notin {"latch", "shutdown_latch"}
    PROVE  LatchesRight'
<1>1. \A u \in Thread : Arriving(u)' = Arriving(u)
  BY SameWorkPhases
<1>2. \A u \in Thread : pc'[u] \notin {"latch", "shutdown_latch"} =>
          pc[u] \notin {"latch", "shutdown_latch"} \/ latch[u] = 0
  BY DEF PoolInv, Types, CallTypes
<1>3. \A w \in Worker : at'[w].pc = "arrive" =>
          at[w].pc = "arrive" /\ at'[w].signal = at[w].signal
  BY DEF SameWork
<1> QED BY <1>1, <1>2, <1>3, LatchesKeep DEF PoolInv

LEMMA CountersKeep ==
    ASSUME PoolInv, Cardinality(JobsIn') = Cardinality(JobsIn), Uncounted' = Uncounted,
           UNCHANGED <<d_numExecuted, d_numEnqueued, d_numDeleted, reported>>
    PROVE  JobsCounted'
BY DEF PoolInv, JobsCounted

LEMMA ActiveSizes ==
    /\ Cardinality(ActiveOnes) \in Nat /\ IsFiniteSet(ActiveOnes)
    /\ Cardinality(CountingDown) \in Nat /\ IsFiniteSet(CountingDown)
BY Constants, FS_Subset, FS_CardinalityType DEF ActiveOnes, CountingDown

LEMMA InitiatePauseKeeps ==
    ASSUME PoolInv, NEW t \in Thread, initiatePause(t)
    PROVE  PoolInv'
<1> USE DEF PoolInv
<1>1. PICK p \in Queue : p = QueueOf(t)
  BY AcceptsQueue DEF initiatePause
<1>2. /\ Accepts(t, "pauseQueue")
      /\ d_runState' = [d_runState EXCEPT
                          ![p] = IF @ = "NOT_SCHEDULED" THEN "PAUSED" ELSE "PAUSING"]
      /\ d_pauseCount' = [d_pauseCount EXCEPT ![p] = @ + 1]
      /\ held' = [held EXCEPT ![p] = "asked"]
      /\ ptr' = [ptr EXCEPT ![t] = p]
      /\ Goto(t, "pause_wait")
      /\ UNCHANGED <<registryVars, d_lock, counterVars, d_list, d_batchSize,
                     d_enqueueState, d_processor, poolVars, waitVars, scene>>
  BY <1>1 DEF initiatePause
<1>3. /\ p \in Registered /\ p \notin free /\ ~IsDeleting(p)
      /\ d_state = "RUNNING" /\ enabled /\ MayCall(t) /\ pc[t] = "idle"
      /\ NextCall(t).op = "pauseQueue"
  BY <1>1, <1>2, AcceptsQueue
<1>4. d_runState[p] \in {"NOT_SCHEDULED", "SCHEDULED"}
  <2>1. d_runState[p] \notin {"PAUSING", "PAUSED"}
    BY <1>1, <1>2, <1>3 DEF Accepts, Rejects, QueueOf
  <2> QED BY <2>1 DEF Types, QueueTypes
<1>5. /\ MoveRight /\ SameWork /\ pc' = [pc EXCEPT ![t] = "pause_wait"] /\ step' = step
      /\ program' = program
  <2>1. "pause_wait" \in CallPC /\ program' = program
        /\ ptr' \in [Thread -> Queue \cup {0}] /\ pc' = [pc EXCEPT ![t] = "pause_wait"]
    BY <1>2 DEF CallPC, scene, Types, CallTypes, Goto
  <2>2. \A u \in Thread : ptr'[u] # 0 <=> pc'[u] \in {"pause_wait", "pause_sleep"}
    BY <2>1, <1>2, <1>3, Constants DEF CallsRight, Types, CallTypes
  <2> QED BY <2>1, <2>2, <1>2, <1>3, GotoMoves DEF Types
<1>6. ptr[t] = 0 /\ \A u \in Thread : u # t => ptr'[u] = ptr[u]
  BY <1>2, <1>3 DEF CallsRight, Types, CallTypes
<1>7. /\ Pausers(p)' = Pausers(p) \cup {t} /\ t \notin Pausers(p)
      /\ \A q \in Queue : q # p => Pausers(q)' = Pausers(q)
  BY <1>2, <1>6, Constants DEF Pausers, Types, CallTypes
<1>8. \A q \in Queue : JobsAt(q)' = JobsAt(q)
  BY <1>2 DEF poolVars, JobsAt
<1>9. OtherQueuesSame(p) /\ Registered' = Registered
  <2>1. UNCHANGED <<free, d_queueRegistry, d_list, d_processor, d_enqueueState>>
    BY <1>2 DEF registryVars
  <2>2. \A q \in Queue \ {p} : /\ d_runState'[q] = d_runState[q]
                               /\ d_pauseCount'[q] = d_pauseCount[q]
                               /\ held'[q] = held[q]
    BY <1>2 DEF Types, QueueTypes
  <2> QED BY <1>5, <1>7, <1>8, <2>1, <2>2, SameWorkRegistry DEF IsDeleting
<1>10. /\ QueueRight(p)' /\ ~IsDeleting(p)'
       /\ Active(p)' <=> Active(p)
  <2>0. QueueRight(p)
    BY DEF QueuesRight
  <2>1. /\ ~IsDeleting(p)' /\ p \notin free' /\ (p \in Registered)'
        /\ d_pauseCount'[p] = d_pauseCount[p] + 1 /\ held'[p] = "asked"
        /\ d_processor'[p] = d_processor[p] /\ d_list'[p] = d_list[p]
        /\ d_runState'[p] = IF d_runState[p] = "NOT_SCHEDULED" THEN "PAUSED"
                            ELSE "PAUSING"
    BY <1>2, <1>3, <1>9 DEF registryVars, IsDeleting, Types, QueueTypes
  <2>2. \A w \in Worker : Phase(w, p)' = Phase(w, p)
    BY <1>5, SameWorkPhases
  <2>3. IsScheduled(p)' <=> IsScheduled(p)
    BY <2>1, <1>4 DEF IsScheduled
  <2>4. Callback(p)' = Callback(p) /\ Deletions(p)' = Deletions(p)
    BY DEF Callback, Deletions, Deletion
  <2>5. OnePlace(p)' /\ StateRight(p)'
    BY <2>0, <2>1, <2>2, <2>3, <2>4, <1>3, <1>8
       DEF QueueRight, OnePlace, StateRight, HasCallback, HasDeletion
  <2>6. ListRight(p)' /\ KnownRight(p)'
    BY <2>0, <2>1, <2>2, <2>4, <1>3, <1>8 DEF QueueRight, ListRight, KnownRight
  <2>7. PauseRight(p)'
    <3>1. IsFiniteSet(Pausers(p))
      BY Constants, FS_Subset DEF Pausers
    <3>2. Cardinality(Pausers(p)') = Cardinality(Pausers(p)) + 1
      BY <3>1, <1>7, FS_AddElement
    <3>3. \A w \in Worker : Phase(w, p)' # "release"
      BY <2>0, <2>2, <1>3, NotDeleting DEF Types, QueueRight
    <3> QED BY <3>2, <3>3, <2>0, <2>1 DEF PauseRight, QueueRight
  <2> QED BY <2>1, <2>3, <2>5, <2>6, <2>7, <1>3 DEF QueueRight, Active
<1>11. JobsRight'
  BY <1>2 DEF poolVars, JobsRight
<1>12. /\ QueuesRight' /\ \A u \in Thread : Awaited(u)' = Awaited(u)
       /\ ActiveOnes' = ActiveOnes
  BY <1>3, <1>5, <1>9, <1>10, <1>11, KeptQueueChanges DEF MoveRight
<1>13. QueueTypes' /\ RegistryTypes' /\ OtherTypes'
  <2>1. QueueTypes'
    BY <1>2 DEF Types, QueueTypes
  <2>2. RegistryTypes'
    BY <1>2 DEF Types, RegistryTypes, registryVars
  <2>3. OtherTypes'
    BY <1>2 DEF Types, OtherTypes, waitVars, scene, counterVars, poolVars
  <2> QED BY <2>1, <2>2, <2>3
<1>14. IdsRight' /\ PausesRight'
  <2>1. IdsRight'
    BY <1>2 DEF IdsRight, registryVars
  <2>2. MakesCall(program, "pauseQueue")'
    BY <1>3, <1>5, NextCallType DEF MakesCall, CallsOf
  <2> QED BY <2>1, <2>2 DEF PausesRight
<1>15. LatchesRight'
  BY <1>2, <1>3, <1>5, <1>12, MoveLatches DEF waitVars
<1>16. ActiveCounted'
  BY <1>2, <1>5, <1>12, SameWorkPhases DEF ActiveCounted, counterVars
<1>17. StoppingRight'
  <2>1. \A u \in Thread : pc'[u] \in StopPC => pc[u] \in StopPC
    BY <1>5 DEF StopPC, Types, CallTypes
  <2> QED BY <2>1, <1>2, <1>3, RunningStops DEF registryVars, poolVars
<1>18. JobsCounted'
  <2>1. JobsIn' = JobsIn
    BY <1>2 DEF JobsIn, IsDeleting
  <2>2. Uncounted' = Uncounted
    BY <1>3, <1>5 DEF Uncounted, Types, CallTypes
  <2> QED BY <2>1, <2>2, <1>2, SameCounters DEF counterVars, scene
<1> QED BY <1>5, <1>11, <1>12, <1>13, <1>14, <1>15, <1>16, <1>17, <1>18
           DEF MoveRight, Types

\* A queue of which only the pauses change.
SamePlace(q) ==
    /\ JobsAt(q)' = JobsAt(q)
    /\ \A w \in Worker : Phase(w, q)' = Phase(w, q) /\ SignalAt(w, q)' = SignalAt(w, q)
    /\ d_list'[q] = d_list[q] /\ d_runState'[q] = d_runState[q]
    /\ d_processor'[q] = d_processor[q]
    /\ IsDeleting(q)' <=> IsDeleting(q)
    /\ (q \in free)' <=> q \in free
    /\ (q \in Registered)' <=> q \in Registered

LEMMA SamePlaceKeeps ==
    ASSUME NEW q \in Queue, QueueRight(q), SamePlace(q), PauseRight(q)'
    PROVE  QueueRight(q)' /\ (Active(q)' <=> Active(q))
<1>1. OnePlace(q)'
  BY DEF SamePlace, QueueRight, OnePlace
<1>2. HasCallback(q)' <=> HasCallback(q)
  BY DEF SamePlace, HasCallback, Callback
<1>3. HasDeletion(q)' <=> HasDeletion(q)
  BY DEF SamePlace, HasDeletion, Deletions, Deletion
<1>4. StateRight(q)'
  BY <1>2, <1>3 DEF SamePlace, QueueRight, StateRight, IsScheduled
<1>5. ListRight(q)'
  BY DEF SamePlace, QueueRight, ListRight, IsScheduled, Callback, Deletions, Deletion
<1>6. KnownRight(q)'
  BY DEF SamePlace, QueueRight, KnownRight
<1>7. Active(q)' <=> Active(q)
  BY DEF SamePlace, Active, IsScheduled
<1> QED BY <1>1, <1>4, <1>5, <1>6, <1>7 DEF QueueRight

LEMMA SamePlaceAwaited ==
    ASSUME NEW q \in Queue, SamePlace(q), NEW t \in Thread
    PROVE  DeletionFor(q, t)' <=> DeletionFor(q, t)
BY DEF SamePlace, DeletionFor, IsScheduled, Deletion

\* A pausing thread goes to sleep.
LEMMA SleepKeeps ==
    ASSUME PoolInv, NEW t \in Thread, pc[t] \in {"pause_wait", "pause_sleep"},
           woken' = woken \ {t}, Goto(t, "pause_sleep"),
           UNCHANGED <<ptr, d_pauseCount, held>>,
           UNCHANGED <<registryVars, d_lock, counterVars, d_list, d_batchSize,
                       d_enqueueState, d_runState, d_processor, poolVars, latch,
                       scene>>
    PROVE  PoolInv'
<1> USE DEF PoolInv
<1>1. /\ MoveRight /\ pc' = [pc EXCEPT ![t] = "pause_sleep"] /\ step' = step
      /\ program' = program
  <2>1. "pause_sleep" \in CallPC /\ program' = program /\ MayCall(t)
        /\ ptr' \in [Thread -> Queue \cup {0}] /\ pc' = [pc EXCEPT ![t] = "pause_sleep"]
    BY InCall DEF CallPC, scene, Types, CallTypes, Goto
  <2>2. \A u \in Thread : ptr'[u] # 0 <=> pc'[u] \in {"pause_wait", "pause_sleep"}
    BY <2>1 DEF CallsRight, Types, CallTypes
  <2> QED BY <2>1, <2>2, GotoMoves DEF Types
<1>2. QuietQueues /\ QuietRest
  BY DEF QuietQueues, QuietRest, registryVars, counterVars, poolVars, scene,
         IsDeleting, Pausers
<1>3. "pause_sleep" \in CallPC \ StopPC /\ pc[t] \notin StopPC /\ pc[t] # "latch"
  BY DEF CallPC, StopPC
<1>4. QueuesAndCalls' /\ JobsRight' /\ JobsIn' = JobsIn
  BY <1>1, <1>2, <1>3, QuietMoves
<1>5. Uncounted' = Uncounted
  BY <1>1 DEF Uncounted, Types, CallTypes
<1>6. JobsCounted'
  BY <1>4, <1>5, SameCounters DEF counterVars, scene
<1>7. QueueTypes' /\ RegistryTypes' /\ OtherTypes'
  <2>1. QueueTypes'
    BY DEF Types, QueueTypes
  <2>2. RegistryTypes'
    BY DEF Types, RegistryTypes, registryVars
  <2>3. OtherTypes'
    BY DEF Types, OtherTypes, counterVars, poolVars, scene
  <2> QED BY <2>1, <2>2, <2>3
<1> QED BY <1>1, <1>4, <1>6, <1>7, PartsKeep DEF MoveRight

\* It has seen the queue at rest, and returns.
LEMMA PausedKeeps ==
    ASSUME PoolInv, NEW t \in Thread, pc[t] \in {"pause_wait", "pause_sleep"},
           NEW p \in Queue, p = ptr[t], woken' = woken \ {t},
           \/ d_runState[p] # "PAUSING"
           \/ d_processor[p] \in {t, None},
           d_pauseCount' = [d_pauseCount EXCEPT ![p] = @ - 1],
           held' = [held EXCEPT ![p] = IF @ = "asked" /\ d_processor[p] # t
                                       THEN "yes" ELSE @],
           Return(t),
           UNCHANGED <<registryVars, d_lock, counterVars, d_list, d_batchSize,
                       d_enqueueState, d_runState, d_processor, poolVars, latch,
                       scene>>
    PROVE  PoolInv'
<1> USE DEF PoolInv
<1>1. /\ MoveRight /\ SameWork
      /\ pc' = [pc EXCEPT ![t] = "idle"] /\ ptr' = [ptr EXCEPT ![t] = 0]
      /\ \A c \in Client \ {t} : step'[c] = step[c]
      /\ program' = program
  <2>1. MayCall(t) /\ program' = program
    BY InCall DEF scene
  <2> QED BY <2>1, ReturnMoves DEF Types, MoveRight
<1>2. /\ Pausers(p)' = Pausers(p) \ {t} /\ t \in Pausers(p)
      /\ \A q \in Queue : q # p => Pausers(q)' = Pausers(q)
  BY <1>1, Constants DEF Pausers, Types, CallTypes
<1>3. \A q \in Queue : JobsAt(q)' = JobsAt(q)
  BY DEF poolVars, JobsAt
<1>4. OtherQueuesSame(p) /\ Registered' = Registered
  <2>1. UNCHANGED <<free, d_queueRegistry>>
    BY DEF registryVars
  <2>2. \A q \in Queue \ {p} : d_pauseCount'[q] = d_pauseCount[q] /\ held'[q] = held[q]
    BY DEF Types, QueueTypes
  <2> QED BY <1>1, <1>2, <1>3, <2>1, <2>2, SameWorkRegistry DEF IsDeleting
<1>5. QueueRight(p)
  BY DEF QueuesRight
<1>6. SamePlace(p)
  BY <1>1, <1>3, <1>4, SameWorkPhases DEF SamePlace, registryVars, IsDeleting
<1>7. \A w \in Worker : Phase(w, p)' = Phase(w, p)
  BY <1>6 DEF SamePlace
<1>8. PauseRight(p)'
  <2>1. IsFiniteSet(Pausers(p))
    BY Constants, FS_Subset DEF Pausers
  <2>2. Cardinality(Pausers(p)') = Cardinality(Pausers(p)) - 1
    BY <2>1, <1>2, FS_RemoveElement
  <2>3. p \notin free /\ \A w \in Worker : Phase(w, p) # "release"
    BY <1>2, <1>5 DEF QueueRight, PauseRight
  <2>4. /\ d_pauseCount'[p] = d_pauseCount[p] - 1
        /\ held'[p] = IF held[p] = "asked" /\ d_processor[p] # t THEN "yes" ELSE held[p]
    BY DEF Types, QueueTypes
  <2>5. d_pauseCount'[p] = Cardinality(Pausers(p)')
    BY <2>2, <2>4, <1>5 DEF QueueRight, PauseRight
  <2>6. held'[p] # "no" => d_runState'[p] \in {"PAUSING", "PAUSED"}
    BY <2>4, <1>5 DEF QueueRight, PauseRight
  <2>7. ASSUME held'[p] = "yes", NEW w \in Worker, Phase(w, p) = "batch"
        PROVE  FALSE
    <3>1. d_processor[p] = w
      BY <2>7, <1>5 DEF QueueRight, StateRight
    <3>2. held[p] = "asked" /\ w # t
      BY <3>1, <2>4, <2>7, <1>5 DEF QueueRight, PauseRight
    <3>3. IsScheduled(p)
      BY <2>7, <1>5 DEF QueueRight, StateRight, HasCallback
    <3>4. d_runState[p] = "PAUSING"
      BY <3>2, <3>3, <1>5 DEF QueueRight, PauseRight, IsScheduled
    <3> QED BY <3>1, <3>2, <3>4, Constants
  <2>8. p \notin free'
    BY <2>3 DEF registryVars
  <2> QED BY <2>3, <2>5, <2>6, <2>7, <2>8, <1>7 DEF PauseRight
<1>9. QueueRight(p)' /\ (Active(p)' <=> Active(p))
  BY <1>5, <1>6, <1>8, SamePlaceKeeps
<1>10. /\ QueuesRight' /\ \A u \in Thread : Awaited(u)' = Awaited(u)
       /\ ActiveOnes' = ActiveOnes
  BY <1>4, <1>6, <1>9, SamePlaceAwaited, OneQueueChanges
<1>11. JobsRight'
  BY DEF poolVars, JobsRight
<1>12. QueueTypes' /\ RegistryTypes' /\ OtherTypes'
  <2>1. QueueTypes'
    BY DEF Types, QueueTypes
  <2>2. RegistryTypes'
    BY DEF Types, RegistryTypes, registryVars
  <2>3. OtherTypes'
    BY DEF Types, OtherTypes, counterVars, poolVars, scene
  <2> QED BY <2>1, <2>2, <2>3
<1>13. IdsRight' /\ PausesRight'
  <2>1. IdsRight'
    BY DEF IdsRight, registryVars
  <2>2. \A u \in Thread : ptr'[u] = ptr[u] \/ ptr'[u] = 0
    BY <1>1 DEF Types, CallTypes
  <2>3. \A q \in Queue : IsDeleting(q)' <=> IsDeleting(q)
    BY DEF IsDeleting
  <2> QED BY <2>1, <2>2, <2>3, <1>1, PausesKeep
<1>14. LatchesRight'
  BY <1>1, <1>10, MoveLatches
<1>15. ActiveCounted'
  BY <1>1, <1>10, SameWorkPhases DEF ActiveCounted, counterVars
<1>16. StoppingRight'
  <2>1. \A u \in Thread : \/ pc'[u] = pc[u]
                          \/ pc[u] \notin StopPC /\ pc'[u] \notin StopPC
    BY <1>1 DEF StopPC, Types, CallTypes
  <2>2. \A c \in Client : pc[c] \in StopPC => step'[c] = step[c]
    BY <1>1 DEF StopPC
  <2>3. \A u \in Thread : ptr'[u] # 0 =>
           ptr'[u] = ptr[u]
           /\ (IsDeleting(ptr[u]) => d_enqueueState'[ptr[u]] = "DELETING")
    BY <1>1 DEF Types, CallTypes, IsDeleting
  <2>4. UNCHANGED <<program, d_state, enabled, refused, d_threadPoolIsOwned>>
        /\ d_lock'.writer = d_lock.writer /\ d_runState' = d_runState
    BY DEF registryVars, scene, poolVars
  <2> QED BY <2>1, <2>2, <2>3, <2>4, <1>4, <1>10, StopsKeep
<1>17. JobsCounted'
  <2>1. JobsIn' = JobsIn
    BY DEF JobsIn, IsDeleting
  <2>2. Uncounted' = Uncounted
    BY <1>1 DEF Uncounted, Types, CallTypes
  <2> QED BY <2>1, <2>2, SameCounters DEF counterVars, scene
<1> QED BY <1>1, <1>10, <1>11, <1>12, <1>13, <1>14, <1>15, <1>16, <1>17
           DEF MoveRight, Types

LEMMA WaitWhilePausingKeeps ==
    ASSUME PoolInv, NEW t \in Thread, waitWhilePausing(t)
    PROVE  PoolInv'
<1>1. pc[t] \in {"pause_wait", "pause_sleep"}
  BY DEF waitWhilePausing
<1>2. PICK p \in Queue : p = ptr[t]
  BY <1>1 DEF PoolInv, CallsRight, Types, CallTypes
<1>3. CASE Goto(t, "pause_sleep") /\ UNCHANGED <<ptr, d_pauseCount, held>>
  BY <1>1, <1>3, SleepKeeps DEF waitWhilePausing
<1>4. CASE ~(Goto(t, "pause_sleep") /\ UNCHANGED <<ptr, d_pauseCount, held>>)
  <2>1. /\ \/ d_runState[p] # "PAUSING"
           \/ d_processor[p] \in {t, None}
        /\ d_pauseCount' = [d_pauseCount EXCEPT ![p] = @ - 1]
        /\ held' = [held EXCEPT ![p] = IF @ = "asked" /\ d_processor[p] # t
                                       THEN "yes" ELSE @]
        /\ Return(t) /\ woken' = woken \ {t}
        /\ UNCHANGED <<registryVars, d_lock, counterVars, d_list, d_batchSize,
                       d_enqueueState, d_runState, d_processor, poolVars, latch,
                       scene>>
    BY <1>2, <1>4 DEF waitWhilePausing
  <2> QED BY <1>1, <1>2, <2>1, PausedKeeps
<1> QED BY <1>3, <1>4

LEMMA ResumeKeeps ==
    ASSUME PoolInv, NEW t \in Thread, resume(t)
    PROVE  PoolInv'
<1> USE DEF PoolInv
<1>1. PICK p \in Queue : p = QueueOf(t)
  BY AcceptsQueue DEF resume
<1>2. /\ Accepts(t, "resumeQueue")
      /\ held' = [held EXCEPT ![p] = "no"]
      /\ Return(t)
      /\ UNCHANGED <<registryVars, d_lock, d_numExecuted, d_numEnqueued,
                     d_numDeleted, d_list, d_batchSize, d_enqueueState,
                     d_pauseCount, d_processor, latch, scene>>
      /\ woken' \subseteq Thread
  BY <1>1 DEF resume, Broadcast, Types, OtherTypes
<1>3. \/ /\ d_runState[p] = "PAUSING"
         /\ d_runState' = [d_runState EXCEPT ![p] = "SCHEDULED"]
         /\ UNCHANGED <<d_numActiveQueues, poolVars>>
      \/ d_runState[p] = "PAUSED" /\ d_list[p] # <<>> /\ Schedule(p)
      \/ /\ d_runState[p] = "PAUSED" /\ d_list[p] = <<>>
         /\ d_runState' = [d_runState EXCEPT ![p] = "NOT_SCHEDULED"]
         /\ UNCHANGED <<d_numActiveQueues, poolVars>>
  BY <1>1 DEF resume
<1>4. /\ p \in Registered /\ p \notin free /\ ~IsDeleting(p)
      /\ d_state = "RUNNING" /\ enabled /\ MayCall(t) /\ pc[t] = "idle"
  BY <1>1, <1>2, AcceptsQueue
<1>5. /\ MoveRight /\ SameWork /\ pc' = [pc EXCEPT ![t] = "idle"] /\ ptr' = ptr
      /\ program' = program
  <2>1. program' = program /\ ptr[t] = 0
    BY <1>2, <1>4 DEF scene, CallsRight
  <2> QED BY <2>1, <1>2, <1>4, ReturnMoves DEF Types, MoveRight, CallTypes
<1>6. /\ JobsRight' /\ enabled' = enabled /\ refused' = refused
      /\ \A q \in Queue : q # p => JobsAt(q)' = JobsAt(q)
      /\ Schedule(p) /\ d_runState[p] = "PAUSED" /\ d_list[p] # <<>> =>
            JobsAt(p)' = JobsAt(p) \cup {Callback(p)}
      /\ UNCHANGED poolVars => JobsAt(p)' = JobsAt(p)
  <2>1. CASE d_runState[p] = "PAUSED" /\ d_list[p] # <<>>
    <3>1. ~Active(p) /\ QueueRight(p)
      BY <2>1, <1>4 DEF Active, IsScheduled, QueuesRight
    <3>2. JobsAt(p) = {}
      BY <3>1, ActivePlaced DEF Unplaced, Types, QueueRight
    <3>3. Callback(p) \notin ToSet(jobs)
      BY <3>2, CallbackKinds DEF JobsAt
    <3>4. UNCHANGED poolVars => JobsAt(p)' = JobsAt(p)
      BY DEF poolVars, JobsAt
    <3>5. Submit(<<Callback(p)>>) /\ refused = FALSE
      BY <2>1, <1>3 DEF Schedule, StoppingRight
    <3>6. Callback(p) \in CallbackSet /\ Callback(p).queue = p
      BY CallbackKinds
    <3>7. /\ JobsRight' /\ enabled' = enabled /\ refused' = refused
          /\ JobsAt(Callback(p).queue)' = JobsAt(Callback(p).queue) \cup {Callback(p)}
          /\ \A q \in Queue : q # Callback(p).queue => JobsAt(q)' = JobsAt(q)
      BY <3>3, <3>5, <3>6, <1>4, SubmitOne
    <3>8. JobsAt(p)' = JobsAt(p) \cup {Callback(p)}
      BY <3>3, <3>5, <3>6, <1>4, SubmitOne
    <3> QED BY <3>4, <3>6, <3>7, <3>8
  <2>2. CASE UNCHANGED poolVars /\ ~(d_runState[p] = "PAUSED" /\ d_list[p] # <<>>)
    BY <2>2 DEF poolVars, JobsRight, JobsAt
  <2> QED BY <2>1, <2>2, <1>3
<1>7. OtherQueuesSame(p) /\ Registered' = Registered
  <2>1. UNCHANGED <<free, d_queueRegistry, d_list, d_pauseCount, d_processor,
                    d_enqueueState>>
    BY <1>2 DEF registryVars
  <2>2. \A q \in Queue \ {p} : held'[q] = held[q] /\ d_runState'[q] = d_runState[q]
    BY <1>2, <1>3 DEF Schedule, Types, QueueTypes
  <2>3. \A q \in Queue : Pausers(q)' = Pausers(q)
    BY <1>5 DEF Pausers
  <2> QED BY <1>5, <1>6, <2>1, <2>2, <2>3, SameWorkRegistry DEF IsDeleting
<1>8. QueueRight(p)
  BY DEF QueuesRight
<1>9. /\ ~IsDeleting(p)' /\ p \notin free' /\ (p \in Registered)'
      /\ d_pauseCount'[p] = d_pauseCount[p] /\ held'[p] = "no"
      /\ d_processor'[p] = d_processor[p] /\ Pausers(p)' = Pausers(p)
      /\ d_list'[p] = d_list[p]
  BY <1>2, <1>4, <1>5, <1>7 DEF registryVars, IsDeleting, Pausers, Types, QueueTypes
<1>10. \A w \in Worker : Phase(w, p)' = Phase(w, p)
  BY <1>5, SameWorkPhases
<1>11. Callback(p)' = Callback(p) /\ Deletions(p)' = Deletions(p)
  BY DEF Callback, Deletions, Deletion
<1>12. ASSUME d_runState[p] = "PAUSED" /\ d_list[p] # <<>> /\ Schedule(p)
       PROVE  QueueRight(p)' /\ ~Active(p) /\ Active(p)'
  <2>1. ~Active(p) /\ d_runState'[p] = "SCHEDULED"
    BY <1>4, <1>12 DEF Active, IsScheduled, Schedule, Types, QueueTypes
  <2>2. d_list[p] \in Seq(Job)
    BY <1>4, <1>8 DEF QueueRight, ListRight
  <2>3. QueueRight(p)' /\ Active(p)'
    BY <2>1, <2>2, <1>4, <1>6, <1>9, <1>10, <1>12, ScheduledRight
  <2> QED BY <2>1, <2>3
<1>13. ASSUME ~(d_runState[p] = "PAUSED" /\ d_list[p] # <<>> /\ Schedule(p))
       PROVE  QueueRight(p)' /\ (Active(p)' <=> Active(p))
  <2>1. /\ JobsAt(p)' = JobsAt(p)
        /\ \/ d_runState[p] = "PAUSING" /\ d_runState'[p] = "SCHEDULED"
           \/ /\ d_runState[p] = "PAUSED" /\ d_list[p] = <<>>
              /\ d_runState'[p] = "NOT_SCHEDULED"
    BY <1>3, <1>6, <1>13 DEF Types, QueueTypes
  <2>2. IsScheduled(p)' <=> IsScheduled(p)
    BY <2>1 DEF IsScheduled
  <2>3. OnePlace(p)' /\ StateRight(p)'
    BY <2>1, <2>2, <1>4, <1>8, <1>9, <1>10, <1>11
       DEF QueueRight, OnePlace, StateRight, HasCallback, HasDeletion
  <2>4. ListRight(p)' /\ KnownRight(p)' /\ PauseRight(p)'
    BY <2>1, <1>4, <1>8, <1>9, <1>10, <1>11
       DEF QueueRight, ListRight, KnownRight, PauseRight
  <2>5. Active(p)' <=> Active(p)
    BY <2>2, <1>4, <1>9 DEF Active
  <2> QED BY <2>3, <2>4, <2>5 DEF QueueRight
<1>14. /\ QueuesRight' /\ \A u \in Thread : Awaited(u)' = Awaited(u)
       /\ ActiveCounted'
  <2>0. QueueRight(p)'
    BY <1>12, <1>13
  <2>1. /\ QueuesRight' /\ \A u \in Thread : Awaited(u)' = Awaited(u)
        /\ (Active(p)' <=> Active(p)) => ActiveOnes' = ActiveOnes
        /\ Active(p)' /\ ~Active(p) =>
              Cardinality(ActiveOnes') = Cardinality(ActiveOnes) + 1
    BY <2>0, <1>4, <1>5, <1>6, <1>7, <1>9, KeptQueueChanges DEF MoveRight
  <2>2. CountingDown' = CountingDown
    BY <1>5, SameWorkPhases
  <2>3. CASE d_runState[p] = "PAUSED" /\ d_list[p] # <<>> /\ Schedule(p)
    <3>1. d_numActiveQueues' = d_numActiveQueues + 1
      BY <2>3 DEF Schedule
    <3> QED BY <3>1, <2>1, <2>2, <2>3, <1>12, ActiveSizes DEF ActiveCounted
  <2>4. CASE ~(d_runState[p] = "PAUSED" /\ d_list[p] # <<>> /\ Schedule(p))
    BY <2>1, <2>2, <2>4, <1>3, <1>13 DEF ActiveCounted
  <2> QED BY <2>1, <2>3, <2>4
<1>15. QueueTypes' /\ RegistryTypes' /\ OtherTypes'
  <2>1. QueueTypes'
    <3>1. d_runState' \in [Queue -> {"NOT_SCHEDULED", "SCHEDULED", "PAUSING", "PAUSED"}]
      BY <1>3 DEF Types, QueueTypes, Schedule
    <3> QED BY <1>2, <3>1 DEF Types, QueueTypes
  <2>2. RegistryTypes'
    BY <1>2 DEF Types, RegistryTypes, registryVars
  <2>3. d_numActiveQueues' \in Int
    BY <1>3 DEF Schedule, Types, OtherTypes
  <2>4. OtherTypes'
    BY <2>3, <1>2, <1>6 DEF Types, OtherTypes, scene
  <2> QED BY <2>1, <2>2, <2>4
<1>16. IdsRight' /\ PausesRight'
  <2>1. IdsRight'
    BY <1>2 DEF IdsRight, registryVars
  <2>2. \A q \in Queue : \/ d_runState'[q] \in {"SCHEDULED", "NOT_SCHEDULED"}
                         \/ d_runState'[q] = d_runState[q]
    BY <1>3 DEF Schedule, Types, QueueTypes
  <2>3. \A q \in Queue : IsDeleting(q)' <=> IsDeleting(q)
    BY <1>2 DEF IsDeleting
  <2> QED BY <2>1, <2>2, <2>3, <1>5, PausesKeep
<1>17. LatchesRight'
  BY <1>2, <1>4, <1>5, <1>14, MoveLatches
<1>18. StoppingRight'
  <2>1. \A u \in Thread : pc'[u] \in StopPC => pc[u] \in StopPC
    BY <1>5 DEF StopPC, Types, CallTypes
  <2> QED BY <2>1, <1>2, <1>4, <1>6, RunningStops DEF registryVars
<1>19. JobsCounted'
  <2>1. JobsIn' = JobsIn
    BY <1>2 DEF JobsIn, IsDeleting
  <2>2. Uncounted' = Uncounted
    BY <1>4, <1>5 DEF Uncounted, Types, CallTypes
  <2> QED BY <2>1, <2>2, <1>2, SameCounters DEF scene
<1> QED BY <1>5, <1>6, <1>14, <1>15, <1>16, <1>17, <1>18, <1>19
           DEF MoveRight, Types

LEMMA CreateQueueKeeps ==
    ASSUME PoolInv, NEW t \in Thread, createQueue(t)
    PROVE  PoolInv'
<1> USE DEF PoolInv
<1>1. PICK p \in free :
        /\ free' = free \ {p}
        /\ d_queueRegistry' =
              [id \in DOMAIN d_queueRegistry \cup {d_nextId} |->
                  IF id = d_nextId THEN p ELSE d_queueRegistry[id]]
  BY DEF createQueue
<1>2. /\ Calling(t, "createQueue") /\ d_nextId' = d_nextId + 1 /\ Return(t)
      /\ UNCHANGED <<d_state, d_lock, counterVars, queueVars, poolVars, waitVars,
                     scene, held>>
  BY DEF createQueue
<1>3. MayCall(t) /\ pc[t] = "idle" /\ p \in Queue
  BY <1>1, <1>2 DEF Calling, Types, RegistryTypes
<1>4. d_nextId \notin DOMAIN d_queueRegistry /\ d_nextId \in Nat \ {0}
  BY DEF Types, RegistryTypes
<1>5. /\ MoveRight /\ SameWork /\ pc' = [pc EXCEPT ![t] = "idle"] /\ ptr' = ptr
      /\ \A c \in Client \ {t} : step'[c] = step[c]
      /\ program' = program
  <2>1. program' = program /\ ptr[t] = 0
    BY <1>2, <1>3 DEF scene, CallsRight
  <2>2. /\ MoveRight
        /\ pc' = [pc EXCEPT ![t] = "idle"] /\ ptr' = [ptr EXCEPT ![t] = 0]
        /\ \A c \in Client \ {t} : step'[c] = step[c]
    BY <2>1, <1>2, <1>3, ReturnMoves DEF Types
  <2>3. ptr' = ptr
    BY <2>1, <2>2 DEF Types, CallTypes
  <2> QED BY <2>1, <2>2, <2>3 DEF MoveRight
<1>6. Registered' = Registered \cup {p}
  <2>1. \A id \in DOMAIN d_queueRegistry : d_queueRegistry'[id] = d_queueRegistry[id]
    BY <1>1, <1>4
  <2>2. d_queueRegistry'[d_nextId] = p
    BY <1>1
  <2>3. DOMAIN d_queueRegistry' = DOMAIN d_queueRegistry \cup {d_nextId}
    BY <1>1
  <2> QED BY <2>1, <2>2, <2>3 DEF Registered
<1>7. /\ UNCHANGED <<jobs, d_list, d_runState, d_pauseCount, d_processor, held,
                     d_enqueueState>>
      /\ \A q \in Queue : JobsAt(q)' = JobsAt(q) /\ Pausers(q)' = Pausers(q)
  BY <1>2, <1>5 DEF queueVars, poolVars, JobsAt, Pausers
<1>8. OtherQueuesSame(p)
  BY <1>1, <1>5, <1>6, <1>7, SameWorkPhases DEF OtherQueuesSame, SameQueue, IsDeleting
<1>9. QueueRight(p)
  BY <1>3 DEF QueuesRight
<1>10. /\ ~IsDeleting(p) /\ ~IsDeleting(p)' /\ p \notin free' /\ (p \in Registered)'
       /\ d_runState[p] = "NOT_SCHEDULED"
  BY <1>1, <1>6, <1>7, <1>9 DEF QueueRight, KnownRight, IsDeleting
<1>11. \A w \in Worker : Phase(w, p)' = Phase(w, p)
  BY <1>3, <1>5, SameWorkPhases
<1>12. QueueRight(p)'
  <2>1. Callback(p)' = Callback(p) /\ Deletions(p)' = Deletions(p)
    BY DEF Callback, Deletions, Deletion
  <2>2. OnePlace(p)' /\ StateRight(p)'
    BY <2>1, <1>3, <1>7, <1>9, <1>10, <1>11
       DEF QueueRight, OnePlace, StateRight, HasCallback, HasDeletion, IsScheduled
  <2>3. ListRight(p)' /\ KnownRight(p)' /\ PauseRight(p)'
    BY <2>1, <1>3, <1>7, <1>9, <1>10, <1>11
       DEF QueueRight, ListRight, KnownRight, PauseRight
  <2> QED BY <2>2, <2>3 DEF QueueRight
<1>13. Active(p)' <=> Active(p)
  BY <1>7 DEF Active, IsScheduled, IsDeleting
<1>14. JobsRight'
  BY <1>7 DEF JobsRight
<1>15. /\ QueuesRight' /\ \A u \in Thread : Awaited(u)' = Awaited(u)
       /\ ActiveOnes' = ActiveOnes
  BY <1>3, <1>5, <1>8, <1>10, <1>12, <1>13, <1>14, KeptQueueChanges DEF MoveRight
<1>16. QueueTypes' /\ RegistryTypes' /\ OtherTypes'
  <2>1. QueueTypes'
    BY <1>2 DEF Types, QueueTypes, queueVars
  <2>2. RegistryTypes'
    <3>1. d_queueRegistry' \in [DOMAIN d_queueRegistry' -> Queue]
      BY <1>1, <1>3 DEF Types, RegistryTypes
    <3>2. DOMAIN d_queueRegistry' \subseteq 1 .. d_nextId' - 1
      BY <1>1, <1>2, <1>4 DEF Types, RegistryTypes
    <3> QED BY <3>1, <3>2, <1>1, <1>2, <1>4 DEF Types, RegistryTypes
  <2>3. OtherTypes'
    BY <1>2 DEF Types, OtherTypes, counterVars, poolVars, waitVars, scene
  <2> QED BY <2>1, <2>2, <2>3
<1>17. IdsRight'
  <2>1. \A id \in DOMAIN d_queueRegistry : d_queueRegistry[id] # p
    BY <1>1, <1>9 DEF QueueRight, KnownRight, Registered
  <2> QED BY <2>1, <1>1, <1>4 DEF IdsRight
<1>18. PausesRight'
  BY <1>5, <1>7, PausesKeep DEF IsDeleting
<1>19. LatchesRight'
  BY <1>2, <1>3, <1>5, <1>15, MoveLatches DEF waitVars
<1>20. ActiveCounted'
  BY <1>2, <1>5, <1>15, SameWorkPhases DEF ActiveCounted, counterVars
<1>21. StoppingRight'
  <2>1. \A u \in Thread : \/ pc'[u] = pc[u]
                          \/ pc[u] \notin StopPC /\ pc'[u] \notin StopPC
    BY <1>3, <1>5 DEF StopPC, Types, CallTypes
  <2>2. \A c \in Client : pc[c] \in StopPC => step'[c] = step[c]
    BY <1>3, <1>5 DEF StopPC
  <2>3. \A u \in Thread : ptr'[u] # 0 =>
           ptr'[u] = ptr[u]
           /\ (IsDeleting(ptr[u]) => d_enqueueState'[ptr[u]] = "DELETING")
    BY <1>5, <1>7 DEF IsDeleting
  <2>4. UNCHANGED <<program, d_state, enabled, refused, d_threadPoolIsOwned>>
        /\ d_lock'.writer = d_lock.writer
    BY <1>2 DEF scene, poolVars
  <2>5. \A q \in Registered' :
              \/ d_runState'[q] = "NOT_SCHEDULED"
              \/ q \in Registered /\ d_runState'[q] = d_runState[q]
    BY <1>6, <1>7, <1>10
  <2> QED BY <2>1, <2>2, <2>3, <2>4, <2>5, <1>15, StopsKeep
<1>22. JobsCounted'
  <2>1. JobsIn' = JobsIn
    BY <1>7 DEF JobsIn, IsDeleting
  <2>2. Uncounted' = Uncounted
    BY <1>3, <1>5 DEF Uncounted, Types, CallTypes
  <2> QED BY <2>1, <2>2, <1>2, SameCounters DEF scene, counterVars
<1> QED BY <1>5, <1>14, <1>15, <1>16, <1>17, <1>18, <1>19, <1>20, <1>21, <1>22
           DEF MoveRight, Types

-----------------------------------------------------------------------------
(* Deleting queues *)

LEMMA SubmitMany ==
    ASSUME JobsRight, refused = FALSE, enabled, NEW n \in Nat,
           NEW s \in Seq(CallbackSet), Len(s) = n,
           \A i, k \in 1 .. n : s[i] = s[k] => i = k,
           \A i \in 1 .. n : s[i] \notin ToSet(jobs), Submit(s)
    PROVE  /\ JobsRight' /\ enabled' = enabled /\ refused' = refused
           /\ ToSet(jobs') = ToSet(jobs) \cup {s[i] : i \in 1 .. n}
<1>1. jobs' = jobs \o s /\ enabled' = enabled /\ refused' = refused
  BY DEF Submit
<1>2. jobs \in Seq(CallbackSet) /\ Len(jobs) \in Nat /\ DOMAIN jobs = 1 .. Len(jobs)
  BY DEF JobsRight
<1>3. s \in Seq(CallbackSet) /\ Len(s) = n
  OBVIOUS
<1>4. /\ jobs' \in Seq(CallbackSet) /\ Len(jobs') = Len(jobs) + n
      /\ \A i \in 1 .. Len(jobs) + n :
            jobs'[i] = IF i <= Len(jobs) THEN jobs[i] ELSE s[i - Len(jobs)]
  <2>1. /\ jobs' \in Seq(CallbackSet) /\ Len(jobs') = Len(jobs) + n
        /\ \A i \in 1 .. Len(jobs) : jobs'[i] = jobs[i]
        /\ \A i \in 1 .. n : jobs'[Len(jobs) + i] = s[i]
    <3>1. /\ jobs \o s \in Seq(CallbackSet) /\ Len(jobs \o s) = Len(jobs) + Len(s)
          /\ \A i \in 1 .. Len(jobs) : (jobs \o s)[i] = jobs[i]
          /\ \A i \in 1 .. Len(s) : (jobs \o s)[Len(jobs) + i] = s[i]
      BY <1>2, <1>3
    <3> QED BY <3>1, <1>1, <1>3
  <2>2. ASSUME NEW i \in 1 .. Len(jobs) + n, ~(i <= Len(jobs))
        PROVE  jobs'[i] = s[i - Len(jobs)]
    <3>1. i - Len(jobs) \in 1 .. n /\ Len(jobs) + (i - Len(jobs)) = i
      BY <2>2, <1>2
    <3> QED BY <3>1, <2>1
  <2> QED BY <2>1, <2>2, <1>2
<1>5. DOMAIN jobs' = 1 .. Len(jobs) + n
  BY <1>4
<1>6. IsInjective(jobs')
  <2>1. \A i, k \in 1 .. Len(jobs) : jobs[i] = jobs[k] => i = k
    BY <1>2 DEF JobsRight, IsInjective
  <2>2. \A i \in 1 .. Len(jobs), k \in 1 .. n : jobs[i] # s[k]
    BY <1>2 DEF ToSet
  <2>3. ASSUME NEW i \in 1 .. Len(jobs) + n, NEW k \in 1 .. Len(jobs) + n,
               jobs'[i] = jobs'[k]
        PROVE  i = k
    <3>1. CASE i <= Len(jobs) /\ k <= Len(jobs)
      BY <3>1, <2>1, <2>3, <1>2, <1>4
    <3>2. CASE i <= Len(jobs) /\ ~(k <= Len(jobs))
      <4>1. k - Len(jobs) \in 1 .. n /\ i \in 1 .. Len(jobs)
        BY <3>2, <1>2
      <4> QED BY <4>1, <3>2, <2>2, <2>3, <1>4
    <3>3. CASE ~(i <= Len(jobs)) /\ k <= Len(jobs)
      <4>1. i - Len(jobs) \in 1 .. n /\ k \in 1 .. Len(jobs)
        BY <3>3, <1>2
      <4> QED BY <4>1, <3>3, <2>2, <2>3, <1>4
    <3>4. CASE ~(i <= Len(jobs)) /\ ~(k <= Len(jobs))
      <4>1. i - Len(jobs) \in 1 .. n /\ k - Len(jobs) \in 1 .. n
        BY <3>4, <1>2
      <4>2. s[i - Len(jobs)] = s[k - Len(jobs)]
        BY <3>4, <2>3, <1>4
      <4>3. i - Len(jobs) = k - Len(jobs)
        BY <4>1, <4>2
      <4> QED BY <4>3, <1>2
    <3> QED BY <3>1, <3>2, <3>3, <3>4
  <2> QED BY <2>3, <1>5 DEF IsInjective
<1>7. ASSUME NEW b PROVE b \in ToSet(jobs') <=> b \in ToSet(jobs) \cup {s[i] : i \in 1 .. n}
  <2>1. ASSUME b \in ToSet(jobs') PROVE b \in ToSet(jobs) \cup {s[i] : i \in 1 .. n}
    <3>1. PICK i \in 1 .. Len(jobs) + n : b = jobs'[i]
      BY <2>1, <1>5 DEF ToSet
    <3>2. CASE i <= Len(jobs)
      BY <3>1, <3>2, <1>2, <1>4 DEF ToSet
    <3>3. CASE ~(i <= Len(jobs))
      <4>1. i - Len(jobs) \in 1 .. n /\ b = s[i - Len(jobs)]
        BY <3>1, <3>3, <1>2, <1>4
      <4> QED BY <4>1
    <3> QED BY <3>2, <3>3
  <2>2. ASSUME b \in ToSet(jobs) PROVE b \in ToSet(jobs')
    <3>1. PICK i \in 1 .. Len(jobs) : b = jobs[i]
      BY <2>2, <1>2 DEF ToSet
    <3>2. i \in 1 .. Len(jobs) + n /\ jobs'[i] = b
      BY <3>1, <1>2, <1>4
    <3> QED BY <3>2, <1>5 DEF ToSet
  <2>3. ASSUME NEW i \in 1 .. n, b = s[i] PROVE b \in ToSet(jobs')
    <3>1. i + Len(jobs) \in 1 .. Len(jobs) + n /\ ~(i + Len(jobs) <= Len(jobs))
          /\ (i + Len(jobs)) - Len(jobs) = i
      BY <1>2
    <3>2. jobs'[i + Len(jobs)] = b
      BY <3>1, <2>3, <1>4
    <3> QED BY <3>1, <3>2, <1>5 DEF ToSet
  <2> QED BY <2>1, <2>2, <2>3
<1> QED BY <1>1, <1>4, <1>6, <1>7 DEF JobsRight

\* The deletion enqueueDeletion makes for queue q, and those it gives to the
\* thread pool at once.
SignalFor(t, q, signal) == IF d_processor[q] = t THEN None ELSE signal
DeletionOf(t, q, signal) == Deletion(q, SignalFor(t, q, signal))
QueuesOf(ids) == {d_queueRegistry[id] : id \in ids}
AtOnce(ids)   == {id \in ids : Unscheduled(d_queueRegistry[id])}

LEMMA DeletionKinds ==
    ASSUME QueueTypes, NEW t \in Thread, NEW signal \in Thread \cup {None},
           NEW q \in Queue
    PROVE  /\ SignalFor(t, q, signal) \in Thread \cup {None}
           /\ DeletionOf(t, q, signal) \in Deletions(q)
           /\ DeletionOf(t, q, signal) \in CallbackSet
           /\ DeletionOf(t, q, signal).queue = q
<1>1. SignalFor(t, q, signal) \in Thread \cup {None}
  BY DEF SignalFor
<1>2. DeletionOf(t, q, signal) \in Deletions(q)
  BY <1>1 DEF DeletionOf, Deletions
<1> QED BY <1>1, <1>2, CallbackKinds

\* The queues to be deleted are known, and their deletions are not in the thread
\* pool.
LEMMA DeletedQueues ==
    ASSUME PoolInv, NEW ids \in SUBSET DOMAIN d_queueRegistry
    PROVE  /\ QueuesOf(ids) \subseteq Queue /\ QueuesOf(ids) \subseteq Registered
           /\ IsFiniteSet(ids) /\ ids \subseteq Nat
           /\ \A q \in QueuesOf(ids) :
                 /\ ~IsDeleting(q) /\ q \notin free
                 /\ Unscheduled(q) <=> ~Active(q)
                 /\ Unscheduled(q) <=> ~IsScheduled(q)
                 /\ Unscheduled(q) => Unplaced(q)
<1> USE DEF PoolInv
<1>1. QueuesOf(ids) \subseteq Queue /\ QueuesOf(ids) \subseteq Registered
  BY DEF QueuesOf, Registered, Types, RegistryTypes
<1>2. ids \subseteq 1 .. d_nextId - 1 /\ d_nextId \in Nat
  BY DEF Types, RegistryTypes
<1>3. IsFiniteSet(1 .. d_nextId - 1)
  BY <1>2, FS_Interval
<1>4. IsFiniteSet(ids) /\ ids \subseteq Nat
  BY <1>2, <1>3, FS_Subset
<1>5. ASSUME NEW q \in QueuesOf(ids)
      PROVE  /\ ~IsDeleting(q) /\ q \notin free
             /\ Unscheduled(q) <=> ~Active(q)
             /\ Unscheduled(q) <=> ~IsScheduled(q)
             /\ Unscheduled(q) => Unplaced(q)
  <2>1. q \in Queue /\ QueueRight(q) /\ q \in Registered
    BY <1>1 DEF QueuesRight
  <2>2. ~IsDeleting(q) /\ q \notin free
    BY <2>1 DEF QueueRight, KnownRight
  <2>3. d_runState[q] \in {"NOT_SCHEDULED", "SCHEDULED", "PAUSING", "PAUSED"}
    BY <2>1 DEF Types, QueueTypes
  <2>4. Unscheduled(q) <=> ~IsScheduled(q)
    BY <2>3 DEF Unscheduled, IsScheduled
  <2>5. Active(q) <=> ~Unplaced(q)
    BY <2>1, ActivePlaced DEF Types, QueueRight
  <2> QED BY <2>2, <2>4, <2>5 DEF Active
<1> QED BY <1>1, <1>4, <1>5

LEMMA DeletionsSubmitted ==
    ASSUME PoolInv, NEW t \in Thread, NEW signal \in Thread \cup {None}, enabled,
           NEW ids \in SUBSET DOMAIN d_queueRegistry, enqueueDeletion(t, ids, signal)
    PROVE  /\ JobsRight' /\ enabled' = enabled /\ refused' = refused
           /\ \A q \in Queue :
                 JobsAt(q)' = IF q \in QueuesOf(ids) /\ Unscheduled(q)
                              THEN {DeletionOf(t, q, signal)} ELSE JobsAt(q)
<1> USE DEF PoolInv
<1> DEFINE now == AtOnce(ids)
           n   == Cardinality(now)
<1>0. IsFiniteSet(now) /\ now \in SUBSET Nat /\ n \in Nat /\ now \subseteq ids
  BY DeletedQueues, FS_Subset, FS_CardinalityType DEF AtOnce
<1>1. PICK order \in [1 .. n -> now] :
        /\ IsOrderOf(order, now)
        /\ Submit([i \in 1 .. n |-> DeletionOf(t, d_queueRegistry[order[i]], signal)])
  BY DEF enqueueDeletion, AtOnce, DeletionOf, SignalFor
<1> DEFINE s == [i \in 1 .. n |-> DeletionOf(t, d_queueRegistry[order[i]], signal)]
<1> HIDE DEF now, n
<1>2. ASSUME NEW i \in 1 .. n
      PROVE  /\ order[i] \in now /\ d_queueRegistry[order[i]] \in Queue
             /\ d_queueRegistry[order[i]] \in QueuesOf(ids)
             /\ Unscheduled(d_queueRegistry[order[i]])
  <2>1. order[i] \in now
    BY <1>1
  <2> QED BY <2>1, <1>0, DeletedQueues DEF now, AtOnce, QueuesOf
<1>3. ASSUME NEW i \in 1 .. n
      PROVE  /\ s[i] \in CallbackSet /\ s[i].queue = d_queueRegistry[order[i]]
             /\ s[i] = DeletionOf(t, d_queueRegistry[order[i]], signal)
  BY <1>2, DeletionKinds DEF Types
<1>4. s \in Seq(CallbackSet) /\ Len(s) = n
  <2>1. s \in [1 .. n -> CallbackSet]
    BY <1>3
  <2> HIDE DEF s
  <2> QED BY <2>1, <1>0
<1>5. \A i, k \in 1 .. n : s[i] = s[k] => i = k
  <2>1. SUFFICES ASSUME NEW i \in 1 .. n, NEW k \in 1 .. n, s[i] = s[k], i # k
                 PROVE  FALSE
    OBVIOUS
  <2>2. d_queueRegistry[order[i]] = d_queueRegistry[order[k]]
    BY <2>1, <1>3
  <2>3. order[i] = order[k] /\ order[i] \in Nat
    BY <2>2, <1>0, <1>2 DEF IdsRight
  <2>4. DOMAIN order = 1 .. n /\ \A a, b \in DOMAIN order : a < b => order[a] < order[b]
    BY <1>1 DEF IsOrderOf
  <2>5. i \in Nat /\ k \in Nat /\ (i < k \/ k < i)
    BY <2>1, <1>0
  <2> QED BY <2>3, <2>4, <2>5
<1>6. \A i \in 1 .. n : s[i] \notin ToSet(jobs)
  <2>1. ASSUME NEW i \in 1 .. n PROVE s[i] \notin ToSet(jobs)
    <3>1. JobsAt(d_queueRegistry[order[i]]) = {}
      BY <1>2, DeletedQueues DEF Unplaced
    <3> QED BY <3>1, <1>3 DEF JobsAt
  <2> QED BY <2>1
<1>7. /\ JobsRight' /\ enabled' = enabled /\ refused' = refused
      /\ ToSet(jobs') = ToSet(jobs) \cup {s[i] : i \in 1 .. n}
  <2>1. Submit(s) /\ refused = FALSE
    BY <1>1 DEF StoppingRight
  <2> HIDE DEF s
  <2> QED BY <2>1, <1>0, <1>4, <1>5, <1>6, SubmitMany
<1>8. ASSUME NEW q \in Queue
      PROVE  JobsAt(q)' = IF q \in QueuesOf(ids) /\ Unscheduled(q)
                          THEN {DeletionOf(t, q, signal)} ELSE JobsAt(q)
  <2>1. JobsAt(q)' = JobsAt(q) \cup {b \in {s[i] : i \in 1 .. n} : b.queue = q}
    BY <1>7 DEF JobsAt
  <2>2. CASE q \in QueuesOf(ids) /\ Unscheduled(q)
    <3>1. PICK id \in now : d_queueRegistry[id] = q
      BY <2>2 DEF now, AtOnce, QueuesOf
    <3>2. PICK i \in 1 .. n : order[i] = id
      BY <3>1, <1>1 DEF IsOrderOf, ToSet
    <3>3. s[i] = DeletionOf(t, q, signal) /\ s[i].queue = q
      BY <3>1, <3>2, <1>3
    <3>4. \A k \in 1 .. n : s[k].queue = q => s[k] = DeletionOf(t, q, signal)
      BY <1>3
    <3>5. JobsAt(q) = {}
      BY <2>2, DeletedQueues DEF Unplaced
    <3> HIDE DEF s
    <3> QED BY <2>1, <2>2, <3>3, <3>4, <3>5
  <2>3. CASE ~(q \in QueuesOf(ids) /\ Unscheduled(q))
    <3>1. \A i \in 1 .. n : s[i].queue # q
      BY <2>3, <1>2, <1>3
    <3> HIDE DEF s
    <3> QED BY <2>1, <2>3, <3>1
  <2> QED BY <2>2, <2>3
<1> QED BY <1>7, <1>8

\* What becomes of the queues.
LEMMA DeletionsRight ==
    ASSUME PoolInv, NEW t \in Thread, NEW signal \in Thread \cup {None}, enabled,
           NEW ids \in SUBSET DOMAIN d_queueRegistry, enqueueDeletion(t, ids, signal),
           SameWork, UNCHANGED <<free, held, ptr>>,
           Registered' = Registered \ QueuesOf(ids)
    PROVE  /\ QueuesRight'
           /\ \A u \in Thread :
                 Awaited(u)' = Awaited(u)
                    \cup {q \in QueuesOf(ids) : SignalFor(t, q, signal) = u}
           /\ ActiveOnes' = ActiveOnes \cup QueuesOf(ids)
<1> USE DEF PoolInv
<1>1. /\ d_enqueueState' = [q \in Queue |-> IF q \in QueuesOf(ids) THEN "DELETING"
                                            ELSE d_enqueueState[q]]
      /\ d_runState' = [q \in Queue |-> IF q \in QueuesOf(ids) /\ ~Unscheduled(q)
                                        THEN "PAUSING" ELSE d_runState[q]]
      /\ d_list' = [q \in Queue |-> IF q \in QueuesOf(ids) /\ ~Unscheduled(q)
                                    THEN <<DeletionOf(t, q, signal)>> \o d_list[q]
                                    ELSE d_list[q]]
      /\ UNCHANGED <<d_pauseCount, d_processor>>
  BY DEF enqueueDeletion, QueuesOf, DeletionOf, SignalFor
<1>2. \A q \in Queue :
         JobsAt(q)' = IF q \in QueuesOf(ids) /\ Unscheduled(q)
                      THEN {DeletionOf(t, q, signal)} ELSE JobsAt(q)
  BY DeletionsSubmitted
<1>3. \A q \in Queue, w \in Worker : /\ Phase(w, q)' = Phase(w, q)
                                     /\ SignalAt(w, q)' = SignalAt(w, q)
  BY SameWorkPhases
<1>4. \A q \in Queue : Pausers(q)' = Pausers(q)
  BY DEF Pausers
<1>5. ASSUME NEW q \in Queue, q \notin QueuesOf(ids)
      PROVE  SameQueue(q)
  BY <1>1, <1>2, <1>3, <1>4, <1>5 DEF SameQueue, IsDeleting
<1>6. ASSUME NEW q \in QueuesOf(ids)
      PROVE  /\ QueueRight(q)' /\ Active(q)'
             /\ \A u \in Thread :
                   /\ ~DeletionFor(q, u)
                   /\ DeletionFor(q, u)' <=> SignalFor(t, q, signal) = u
  <2>0. /\ q \in Queue /\ QueueRight(q) /\ ~IsDeleting(q) /\ q \notin free
        /\ q \in Registered
    BY DeletedQueues DEF QueuesRight
  <2>1. /\ IsDeleting(q)' /\ Active(q)' /\ q \notin free' /\ ~(q \in Registered)'
    BY <1>1, <2>0 DEF IsDeleting, Active
  <2>2. /\ DeletionOf(t, q, signal) \in Deletions(q)
        /\ DeletionOf(t, q, signal) # Callback(q)
        /\ DeletionOf(t, q, signal) \in CallbackSet
        /\ \A u : Deletion(q, u) = DeletionOf(t, q, signal) <=>
                     SignalFor(t, q, signal) = u
    BY <2>0, DeletionKinds, CallbackKinds DEF Types, DeletionOf, Deletion
  <2>3. /\ \A u \in Thread : ~DeletionFor(q, u)
        /\ JobsAt(q) \subseteq {Callback(q)}
        /\ \A w \in Worker : Phase(w, q) \in {"none", "execute", "batch"}
    BY <2>0, NotDeleting DEF Types, QueueRight
  <2>4. Callback(q)' = Callback(q) /\ Deletions(q)' = Deletions(q)
        /\ \A u : Deletion(q, u)' = Deletion(q, u)
    BY DEF Callback, Deletions, Deletion
  <2>5. KnownRight(q)'
    BY <2>1 DEF KnownRight
  <2>6. CASE Unscheduled(q)
    <3>1. /\ JobsAt(q)' = {DeletionOf(t, q, signal)}
          /\ \A w \in Worker : Phase(w, q)' = "none"
      BY <2>0, <2>6, <1>2, <1>3, DeletedQueues DEF Unplaced
    <3>2. /\ d_runState'[q] = d_runState[q] /\ d_list'[q] = d_list[q]
          /\ d_runState[q] \in {"NOT_SCHEDULED", "PAUSED"}
      BY <2>0, <2>6, <1>1 DEF Unscheduled
    <3>3. ~HasCallback(q)' /\ HasDeletion(q)' /\ ~IsScheduled(q)'
      BY <2>2, <2>4, <3>1, <3>2 DEF HasCallback, HasDeletion, IsScheduled
    <3>4. OnePlace(q)' /\ StateRight(q)'
      BY <2>1, <3>1, <3>2, <3>3 DEF OnePlace, StateRight
    <3>5. ListRight(q)'
      BY <2>1, <2>2, <2>4, <3>1, <3>3 DEF ListRight
    <3>6. PauseRight(q)'
      BY <2>0, <2>1, <3>1, <3>2, <1>1, <1>4 DEF QueueRight, PauseRight
    <3>7. ASSUME NEW u \in Thread
          PROVE  DeletionFor(q, u)' <=> SignalFor(t, q, signal) = u
      BY <2>2, <2>4, <3>1, <3>3 DEF DeletionFor
    <3> QED BY <2>1, <2>3, <2>5, <3>4, <3>5, <3>6, <3>7 DEF QueueRight
  <2>7. CASE ~Unscheduled(q)
    <3>1. JobsAt(q)' = JobsAt(q) /\ \A w \in Worker : Phase(w, q)' = Phase(w, q)
      BY <2>0, <2>7, <1>2, <1>3
    <3>2. /\ d_runState'[q] = "PAUSING" /\ IsScheduled(q)' /\ IsScheduled(q)
          /\ d_list'[q] = <<DeletionOf(t, q, signal)>> \o d_list[q]
      BY <2>0, <2>7, <1>1, DeletedQueues DEF IsScheduled
    <3>3. d_list'[q] # <<>> /\ Head(d_list'[q]) = DeletionOf(t, q, signal)
      <4>1. d_list[q] \in Seq(Job \cup CallbackSet)
        BY <2>0 DEF Types, QueueTypes
      <4>2. <<DeletionOf(t, q, signal)>> \in Seq(Job \cup CallbackSet)
        BY <2>2
      <4>3. /\ d_list'[q] \in Seq(Job \cup CallbackSet)
            /\ Len(d_list'[q]) = 1 + Len(d_list[q]) /\ Len(d_list[q]) \in Nat
            /\ d_list'[q][1] = DeletionOf(t, q, signal)
        BY <4>1, <4>2, <3>2
      <4> QED BY <4>3
    <3>4. HasCallback(q)' /\ ~HasDeletion(q)'
      BY <2>0, <2>3, <2>4, <3>1, <3>2, CallbackKinds
         DEF HasCallback, HasDeletion, QueueRight, StateRight
    <3>5. OnePlace(q)' /\ StateRight(q)'
      BY <2>0, <2>1, <3>1, <3>2, <3>4, <1>1
         DEF OnePlace, StateRight, QueueRight
    <3>6. ListRight(q)'
      BY <2>1, <2>2, <2>4, <3>3 DEF ListRight
    <3>7. PauseRight(q)'
      BY <2>0, <2>1, <3>1, <3>2, <1>1, <1>4 DEF QueueRight, PauseRight
    <3>8. ASSUME NEW u \in Thread
          PROVE  DeletionFor(q, u)' <=> SignalFor(t, q, signal) = u
      <4>1. Deletion(q, u) \notin JobsAt(q)'
        BY <2>0, <2>3, <3>1, CallbackKinds DEF Callback, Deletion
      <4>2. \A w \in Worker : Phase(w, q)' \notin {"delete", "release"}
        BY <2>3, <3>1
      <4> QED BY <2>1, <2>2, <2>4, <3>2, <3>3, <4>1, <4>2 DEF DeletionFor
    <3> QED BY <2>1, <2>3, <2>5, <3>5, <3>6, <3>7, <3>8 DEF QueueRight
  <2> QED BY <2>6, <2>7
<1>7. QueuesRight'
  BY <1>5, <1>6, SameQueueKeeps DEF QueuesRight
<1>8. ActiveOnes' = ActiveOnes \cup QueuesOf(ids)
  <2>1. \A q \in Queue : q \notin QueuesOf(ids) => (Active(q)' <=> Active(q))
    BY <1>5, SameQueueActive
  <2>2. QueuesOf(ids) \subseteq Queue
    BY DeletedQueues
  <2> QED BY <2>1, <2>2, <1>6 DEF ActiveOnes
<1>9. ASSUME NEW u \in Thread
      PROVE  Awaited(u)' = Awaited(u)
                 \cup {q \in QueuesOf(ids) : SignalFor(t, q, signal) = u}
  <2>1. \A q \in Queue : q \notin QueuesOf(ids) =>
                           (DeletionFor(q, u)' <=> DeletionFor(q, u))
    BY <1>5 DEF SameQueue, DeletionFor, IsScheduled, Deletion
  <2>2. QueuesOf(ids) \subseteq Queue
    BY DeletedQueues
  <2> QED BY <2>1, <2>2, <1>6 DEF Awaited
<1> QED BY <1>7, <1>8, <1>9

LEMMA QueuesOfSize ==
    ASSUME PoolInv, NEW ids \in SUBSET DOMAIN d_queueRegistry
    PROVE  /\ IsFiniteSet(QueuesOf(ids)) /\ Cardinality(QueuesOf(ids)) = Cardinality(ids)
           /\ Cardinality(ids) \in Nat
<1> DEFINE f == [id \in ids |-> d_queueRegistry[id]]
<1>1. f \in Bijection(ids, QueuesOf(ids))
  <2>1. f \in Surjection(ids, QueuesOf(ids))
    BY DEF Surjection, QueuesOf
  <2>2. f \in Injection(ids, QueuesOf(ids))
    BY DEF Injection, IsInjective, QueuesOf, PoolInv, IdsRight
  <2> QED BY <2>1, <2>2 DEF Bijection
<1>2. ExistsBijection(ids, QueuesOf(ids))
  BY <1>1 DEF ExistsBijection
<1>3. IsFiniteSet(ids)
  BY DeletedQueues
<1> QED BY <1>2, <1>3, FS_Bijection, FS_CardinalityType

\* The counts after enqueueDeletion, and the types.
LEMMA DeletionsCounted ==
    ASSUME PoolInv, NEW t \in Thread, NEW signal \in Thread \cup {None}, enabled,
           NEW ids \in SUBSET DOMAIN d_queueRegistry, enqueueDeletion(t, ids, signal),
           ActiveOnes' = ActiveOnes \cup QueuesOf(ids), UNCHANGED <<held, reported>>
    PROVE  /\ QueueTypes'
           /\ d_numActiveQueues' \in Int
           /\ d_numExecuted' \in Nat /\ d_numEnqueued' \in Nat /\ d_numDeleted' \in Nat
           /\ CountingDown' = CountingDown => ActiveCounted'
           /\ Uncounted' = Uncounted => JobsCounted'
<1> USE DEF PoolInv
<1>1. /\ d_enqueueState' = [q \in Queue |-> IF q \in QueuesOf(ids) THEN "DELETING"
                                            ELSE d_enqueueState[q]]
      /\ d_runState' = [q \in Queue |-> IF q \in QueuesOf(ids) /\ ~Unscheduled(q)
                                        THEN "PAUSING" ELSE d_runState[q]]
      /\ d_list' = [q \in Queue |-> IF q \in QueuesOf(ids) /\ ~Unscheduled(q)
                                    THEN <<DeletionOf(t, q, signal)>> \o d_list[q]
                                    ELSE d_list[q]]
      /\ d_numDeleted' = d_numDeleted + Length(QueuesOf(ids))
      /\ d_numActiveQueues' = d_numActiveQueues + Cardinality(AtOnce(ids))
      /\ UNCHANGED <<d_pauseCount, d_processor, d_batchSize, d_numExecuted,
                     d_numEnqueued>>
  BY DEF enqueueDeletion, QueuesOf, DeletionOf, SignalFor, AtOnce
<1>2. QueuesOf(ids) \in SUBSET Queue /\ \A q \in QueuesOf(ids) : q \in Kept
  BY DeletedQueues DEF Kept
<1>3. QueueTypes'
  <2>1. \A q \in Queue : DeletionOf(t, q, signal) \in CallbackSet
    BY DeletionKinds DEF Types
  <2>2. d_list' \in [Queue -> Seq(Job \cup CallbackSet)]
    <3>1. ASSUME NEW q \in Queue
          PROVE  <<DeletionOf(t, q, signal)>> \o d_list[q] \in Seq(Job \cup CallbackSet)
      <4>1. DeletionOf(t, q, signal) \in Job \cup CallbackSet
            /\ d_list[q] \in Seq(Job \cup CallbackSet)
        BY <2>1 DEF Types, QueueTypes
      <4> QED BY <4>1
    <3> QED BY <3>1, <1>1 DEF Types, QueueTypes
  <2>3. d_list' \in [Queue -> Seq(Job \cup CallbackSet')]
    BY <2>2 DEF CallbackSet, Deletions, Deletion, Callback
  <2> QED BY <2>3, <1>1 DEF Types, QueueTypes
<1>4. /\ AreLists(d_list) /\ AreLists(d_list')
      /\ Kept \in SUBSET Queue /\ Kept' \in SUBSET Queue
      /\ Kept' = Kept \ QueuesOf(ids)
      /\ \A q \in Kept' : d_list'[q] = d_list[q]
  <2>1. Kept' = Kept \ QueuesOf(ids)
    BY <1>1, <1>2 DEF Kept, IsDeleting
  <2>2. \A q \in Kept \ QueuesOf(ids) : d_list'[q] = d_list[q]
    BY <1>1 DEF Kept
  <2>3. AreLists(d_list) /\ AreLists(d_list')
    BY <1>3 DEF Types, QueueTypes, CallbackSet, Deletions, AreLists
  <2> QED BY <2>1, <2>2, <2>3 DEF Kept
<1>5. /\ JobsIn = PairsOf(d_list, Kept)
      /\ JobsIn' = PairsOf(d_list, Kept \ QueuesOf(ids))
      /\ Length(QueuesOf(ids)) = Cardinality(PairsOf(d_list, QueuesOf(ids)))
  <2>1. JobsIn' = PairsOf(d_list', Kept')
    BY DEF JobsIn, PairsOf, Kept
  <2>2. PairsOf(d_list', Kept') = PairsOf(d_list, Kept \ QueuesOf(ids))
    BY <1>4 DEF PairsOf
  <2> QED BY <2>1, <2>2 DEF JobsIn, PairsOf, Kept, Length
<1>6. Cardinality(JobsIn) = Cardinality(JobsIn') + Length(QueuesOf(ids))
  <2>1. /\ Kept \ QueuesOf(ids) \in SUBSET Queue
        /\ (Kept \ QueuesOf(ids)) \cap QueuesOf(ids) = {}
        /\ (Kept \ QueuesOf(ids)) \cup QueuesOf(ids) = Kept
    BY <1>2, <1>4
  <2>2. Cardinality(PairsOf(d_list, (Kept \ QueuesOf(ids)) \cup QueuesOf(ids)))
        = Cardinality(PairsOf(d_list, Kept \ QueuesOf(ids)))
          + Cardinality(PairsOf(d_list, QueuesOf(ids)))
    BY <2>1, <1>2, <1>4, PairsSplit, Zenon
  <2> QED BY <2>1, <2>2, <1>5
<1>7. Length(QueuesOf(ids)) \in Nat /\ Cardinality(JobsIn') \in Nat
  <2>1. IsFiniteSet(PairsOf(d_list, QueuesOf(ids)))
    BY <1>2, <1>4, PairsFinite
  <2>2. Kept \ QueuesOf(ids) \in SUBSET Queue
    BY <1>4
  <2>3. IsFiniteSet(PairsOf(d_list, Kept \ QueuesOf(ids)))
    BY <2>2, <1>4, PairsFinite
  <2> QED BY <2>1, <2>3, <1>5, FS_CardinalityType
<1>8. AtOnce(ids) \in SUBSET DOMAIN d_queueRegistry
  BY DEF AtOnce
<1>9. Cardinality(AtOnce(ids)) \in Nat
      /\ Cardinality(ActiveOnes') = Cardinality(ActiveOnes) + Cardinality(AtOnce(ids))
  <2>1. /\ IsFiniteSet(QueuesOf(AtOnce(ids)))
        /\ Cardinality(QueuesOf(AtOnce(ids))) = Cardinality(AtOnce(ids))
        /\ Cardinality(AtOnce(ids)) \in Nat
    BY <1>8, QueuesOfSize
  <2>2. QueuesOf(AtOnce(ids)) = {q \in QueuesOf(ids) : Unscheduled(q)}
    BY DEF QueuesOf, AtOnce
  <2>3. \A q \in QueuesOf(ids) : Unscheduled(q) <=> q \notin ActiveOnes
    BY <1>2, DeletedQueues DEF ActiveOnes
  <2>4. /\ ActiveOnes' = ActiveOnes \cup QueuesOf(AtOnce(ids))
        /\ ActiveOnes \cap QueuesOf(AtOnce(ids)) = {}
    BY <2>2, <2>3
  <2>5. IsFiniteSet(ActiveOnes) /\ Cardinality(ActiveOnes) \in Nat
    BY ActiveSizes
  <2>6. Cardinality(ActiveOnes') = Cardinality(ActiveOnes)
           + Cardinality(QueuesOf(AtOnce(ids))) - Cardinality({})
    BY <2>1, <2>4, <2>5, FS_Union
  <2>7. Cardinality({}) = 0
    BY FS_EmptySet
  <2> QED BY <2>1, <2>5, <2>6, <2>7
<1>10. /\ d_numActiveQueues \in Int /\ reported \in Int /\ d_numExecuted \in Nat
       /\ d_numEnqueued \in Nat /\ d_numDeleted \in Nat
  BY DEF Types, OtherTypes
<1>11. /\ d_numActiveQueues' \in Int
       /\ d_numExecuted' \in Nat /\ d_numEnqueued' \in Nat /\ d_numDeleted' \in Nat
  BY <1>1, <1>7, <1>9, <1>10
<1>12. ASSUME CountingDown' = CountingDown PROVE ActiveCounted'
  <2>1. Cardinality(CountingDown) \in Nat /\ Cardinality(ActiveOnes) \in Nat
    BY ActiveSizes
  <2> QED BY <2>1, <1>1, <1>9, <1>10, <1>12 DEF ActiveCounted
<1>13. ASSUME Uncounted' = Uncounted PROVE JobsCounted'
  <2>1. Cardinality(Uncounted) \in Nat
    <3>1. IsFiniteSet(Uncounted)
      BY Constants, FS_Subset DEF Uncounted
    <3> QED BY <3>1, FS_CardinalityType
  <2>2. reported + d_numEnqueued - d_numExecuted - d_numDeleted
           + Cardinality(Uncounted) = Cardinality(JobsIn)
    BY DEF JobsCounted
  <2>3. reported' + d_numEnqueued' - d_numExecuted' - d_numDeleted'
           + Cardinality(Uncounted') = Cardinality(JobsIn')
    <3>1. /\ d_numDeleted' = d_numDeleted + Length(QueuesOf(ids))
          /\ reported' = reported /\ d_numExecuted' = d_numExecuted
          /\ d_numEnqueued' = d_numEnqueued
      BY <1>1
    <3> QED BY <3>1, <2>1, <2>2, <1>6, <1>7, <1>10, <1>13
  <2> QED BY <2>3 DEF JobsCounted
<1> QED BY <1>3, <1>11, <1>12, <1>13

\* The thread that deletes queues, and waits for it, knows how many they are.
LEMMA DeletionsAwaited ==
    ASSUME PoolInv, NEW t \in Thread, NEW signal \in {t, None}, SameWork,
           NEW ids \in SUBSET DOMAIN d_queueRegistry,
           \A u \in Thread :
              Awaited(u)' = Awaited(u)
                 \cup {q \in QueuesOf(ids) : SignalFor(t, q, signal) = u},
           pc[t] \notin {"latch", "shutdown_latch"},
           NEW place, pc' = [pc EXCEPT ![t] = place],
           latch' = [latch EXCEPT ![t] =
              Cardinality({q \in QueuesOf(ids) : SignalFor(t, q, signal) = t})],
           place \notin {"latch", "shutdown_latch"} => latch'[t] = 0
    PROVE  LatchesRight' /\ latch' \in [Thread -> Int]
<1> USE DEF PoolInv
<1> DEFINE N == {q \in QueuesOf(ids) : SignalFor(t, q, signal) = t}
<1>1. IsFiniteSet(N) /\ Cardinality(N) \in Nat
  BY QueuesOfSize, FS_Subset, FS_CardinalityType
<1>2. latch' \in [Thread -> Int] /\ latch'[t] = Cardinality(N)
      /\ \A u \in Thread : u # t => latch'[u] = latch[u]
  BY <1>1 DEF Types, OtherTypes
<1>3. ASSUME NEW u \in Thread
      PROVE  /\ IsFiniteSet(Awaited(u)) /\ Cardinality(Awaited(u)) \in Nat
             /\ IsFiniteSet(Arriving(u)) /\ Cardinality(Arriving(u)) \in Nat
             /\ latch[u] = Cardinality(Awaited(u)) + Cardinality(Arriving(u))
             /\ Arriving(u)' = Arriving(u)
  <2>1. IsFiniteSet(Awaited(u)) /\ IsFiniteSet(Arriving(u))
    BY Constants, FS_Subset DEF Awaited, Arriving
  <2> QED BY <2>1, FS_CardinalityType, SameWorkPhases DEF LatchesRight
<1>4. latch'[t] = Cardinality(Awaited(t)') + Cardinality(Arriving(t)')
  <2>1. latch[t] = 0
    BY DEF LatchesRight
  <2>2. Cardinality(Awaited(t)) = 0 /\ Cardinality(Arriving(t)) = 0
    BY <2>1, <1>3
  <2>3. Awaited(t) = {}
    BY <2>2, <1>3, FS_EmptySet
  <2>4. Awaited(t)' = N
    BY <2>3
  <2> QED BY <2>2, <2>4, <1>1, <1>2, <1>3
<1>5. ASSUME NEW u \in Thread, u # t
      PROVE  latch'[u] = Cardinality(Awaited(u)') + Cardinality(Arriving(u)')
  <2>1. Awaited(u)' = Awaited(u)
    BY <1>5, Constants DEF SignalFor
  <2> QED BY <2>1, <1>2, <1>3, <1>5
<1>6. ASSUME NEW u \in Thread, pc'[u] \notin {"latch", "shutdown_latch"}
      PROVE  latch'[u] = 0
  <2>1. CASE u = t
    BY <1>6, <2>1 DEF Types, CallTypes
  <2>2. CASE u # t
    <3>1. pc'[u] = pc[u]
      BY <2>2
    <3> QED BY <3>1, <2>2, <1>2, <1>6 DEF LatchesRight
  <2> QED BY <2>1, <2>2
<1>7. \A w \in Worker : at'[w].pc = "arrive" => at'[w].signal # None
  BY DEF SameWork, LatchesRight
<1> QED BY <1>2, <1>4, <1>5, <1>6, <1>7 DEF LatchesRight

LEMMA DeleteQueueKeeps ==
    ASSUME PoolInv, NEW t \in Thread, deleteQueue(t)
    PROVE  PoolInv'
<1> USE DEF PoolInv
<1>1. PICK o \in {"deleteQueue", "deleteQueueWithCleanup"} : Accepts(t, o)
  BY DEF deleteQueue
<1> DEFINE id     == NextCall(t).id
           p      == QueueOf(t)
           waits  == NextCall(t).op = "deleteQueue"
           signal == IF waits THEN t ELSE None
<1>2. /\ d_queueRegistry' = [i \in DOMAIN d_queueRegistry \ {id} |-> d_queueRegistry[i]]
      /\ enqueueDeletion(t, {id}, signal)
      /\ IF waits /\ d_processor[p] # t
         THEN /\ Goto(t, "latch")
              /\ latch' = [latch EXCEPT ![t] = 1]
              /\ UNCHANGED ptr
         ELSE Return(t) /\ UNCHANGED latch
      /\ UNCHANGED <<d_nextId, d_state, free, d_lock, woken, scene, held>>
  BY DEF deleteQueue
<1>3. /\ p \in Queue /\ p \in Registered /\ id \in DOMAIN d_queueRegistry
      /\ p = d_queueRegistry[id] /\ p \notin free /\ ~IsDeleting(p)
      /\ d_state = "RUNNING" /\ enabled
      /\ pc[t] = "idle" /\ MayCall(t)
      /\ \A u \in Thread : pc[u] \notin StopPC
  BY <1>1, AcceptsQueue
<1>4. signal \in {t, None} /\ signal \in Thread \cup {None}
      /\ {id} \in SUBSET DOMAIN d_queueRegistry
  BY <1>3
<1>5. QueuesOf({id}) = {p} /\ ptr[t] = 0
  BY <1>3 DEF QueuesOf, CallsRight
<1>6. /\ program' = program /\ CallTypes /\ QueuesRight /\ BatchesRight /\ CallsRight
      /\ ptr = [ptr EXCEPT ![t] = 0] /\ ptr \in [Thread -> Queue \cup {0}]
      /\ latch = [latch EXCEPT ![t] = 0]
  <2>1. latch[t] = 0
    BY <1>3 DEF LatchesRight
  <2> QED BY <2>1, <1>2, <1>5 DEF scene, Types, CallTypes, OtherTypes
<1>7. PICK place \in {"idle", "latch"} :
         /\ MoveRight /\ pc' = [pc EXCEPT ![t] = place] /\ ptr' = ptr
         /\ latch' = [latch EXCEPT ![t] =
              Cardinality({q \in QueuesOf({id}) : SignalFor(t, q, signal) = t})]
         /\ place = "idle" => latch' = latch
  <2>1. CASE waits /\ d_processor[p] # t
    <3>1. "latch" \in CallPC /\ ptr' = ptr /\ Goto(t, "latch")
      BY <2>1, <1>2 DEF CallPC
    <3>2. pc' = [pc EXCEPT ![t] = "latch"]
      BY <3>1 DEF Goto
    <3>3. \A u \in Thread : ptr'[u] # 0 <=> pc'[u] \in {"pause_wait", "pause_sleep"}
      BY <3>1, <3>2, <1>3, <1>6 DEF CallsRight, CallTypes
    <3>4. MoveRight
      BY <3>1, <3>3, <1>3, <1>6, GotoMoves
    <3>5. {q \in QueuesOf({id}) : SignalFor(t, q, signal) = t} = {p}
      BY <2>1, <1>5 DEF SignalFor
    <3>6. Cardinality({p}) = 1
      BY FS_Singleton
    <3>7. latch' = [latch EXCEPT ![t] = 1]
      BY <2>1, <1>2
    <3> QED BY <3>1, <3>2, <3>4, <3>5, <3>6, <3>7
  <2>2. CASE ~(waits /\ d_processor[p] # t)
    <3>1. Return(t) /\ latch' = latch
      BY <2>2, <1>2
    <3>2. MoveRight /\ pc' = [pc EXCEPT ![t] = "idle"] /\ ptr' = [ptr EXCEPT ![t] = 0]
      BY <3>1, <1>3, <1>6, ReturnMoves
    <3>3. {q \in QueuesOf({id}) : SignalFor(t, q, signal) = t} = {}
      BY <2>2, <1>5, Constants DEF SignalFor
    <3>4. Cardinality({}) = 0
      BY FS_EmptySet
    <3>5. latch' = [latch EXCEPT ![t] = 0] /\ ptr' = ptr
      BY <3>1, <3>2, <1>6
    <3> QED BY <3>1, <3>2, <3>3, <3>4, <3>5
  <2> QED BY <2>1, <2>2
<1>8. SameWork
  BY <1>7 DEF MoveRight
<1>9. Registered' = Registered \ QueuesOf({id})
  BY <1>2, <1>3, <1>5 DEF Registered, IdsRight
<1>10. /\ JobsRight' /\ enabled' = enabled /\ refused' = refused
       /\ QueuesRight'
       /\ \A u \in Thread :
             Awaited(u)' = Awaited(u)
                \cup {q \in QueuesOf({id}) : SignalFor(t, q, signal) = u}
       /\ ActiveOnes' = ActiveOnes \cup QueuesOf({id})
  <2>1. UNCHANGED <<free, held, ptr>>
    BY <1>2, <1>7
  <2> HIDE DEF id, signal
  <2>2. enqueueDeletion(t, {id}, signal)
    BY <1>2
  <2> QED BY <2>1, <2>2, <1>3, <1>4, <1>8, <1>9, DeletionsSubmitted, DeletionsRight
<1>11. /\ QueueTypes' /\ d_numActiveQueues' \in Int
       /\ d_numExecuted' \in Nat /\ d_numEnqueued' \in Nat /\ d_numDeleted' \in Nat
       /\ ActiveCounted' /\ JobsCounted'
  <2>1. UNCHANGED <<held, reported>> /\ CountingDown' = CountingDown
    BY <1>2, <1>8, SameWorkPhases DEF scene
  <2>2. Uncounted' = Uncounted
    BY <1>3, <1>7 DEF Uncounted, Types, CallTypes
  <2> HIDE DEF id, signal
  <2>3. enqueueDeletion(t, {id}, signal)
    BY <1>2
  <2> QED BY <2>1, <2>2, <2>3, <1>3, <1>4, <1>10, DeletionsCounted
<1>12. LatchesRight' /\ latch' \in [Thread -> Int]
  <2>1. place \notin {"latch", "shutdown_latch"} => latch'[t] = 0
    BY <1>3, <1>7 DEF LatchesRight
  <2>2. pc[t] \notin {"latch", "shutdown_latch"}
    BY <1>3
  <2> HIDE DEF id, signal
  <2> QED BY <2>1, <2>2, <1>4, <1>7, <1>8, <1>10, DeletionsAwaited
<1>13. RegistryTypes' /\ OtherTypes'
  <2>1. RegistryTypes'
    <3>1. d_queueRegistry' \in [DOMAIN d_queueRegistry' -> Queue]
          /\ DOMAIN d_queueRegistry' \subseteq DOMAIN d_queueRegistry
      BY <1>2 DEF Types, RegistryTypes
    <3> QED BY <3>1, <1>2 DEF Types, RegistryTypes
  <2> QED BY <2>1, <1>2, <1>10, <1>11, <1>12 DEF Types, OtherTypes, scene
<1>14. IdsRight'
  BY <1>2 DEF IdsRight
<1>15. PausesRight'
  <2>1. /\ d_enqueueState' = [q \in Queue |-> IF q \in QueuesOf({id}) THEN "DELETING"
                                            ELSE d_enqueueState[q]]
        /\ d_runState' = [q \in Queue |-> IF q \in QueuesOf({id}) /\ ~Unscheduled(q)
                                        THEN "PAUSING" ELSE d_runState[q]]
    BY <1>2 DEF enqueueDeletion, QueuesOf
  <2>2. ASSUME NEW q \in Queue
        PROVE  \/ IsDeleting(q)'
               \/ d_runState'[q] = d_runState[q] /\ (IsDeleting(q) => IsDeleting(q)')
    BY <2>1 DEF IsDeleting
  <2> QED BY <2>2, <1>6, <1>7, PausesKeep
<1>16. StoppingRight'
  <2>1. \A u \in Thread : pc'[u] \in StopPC => pc[u] \in StopPC
    BY <1>7 DEF StopPC, Types, CallTypes
  <2> QED BY <2>1, <1>2, <1>3, <1>10, RunningStops
<1> QED BY <1>7, <1>10, <1>11, <1>12, <1>13, <1>14, <1>15, <1>16
           DEF MoveRight, Types

-----------------------------------------------------------------------------
(* The steps of a worker for its queue *)

\* A step leaves the callbacks and the members of the queues other than p alone.
OthersLeft(p) ==
    \A q \in Queue \ {p} :
        /\ JobsAt(q)' = JobsAt(q)
        /\ d_list'[q] = d_list[q] /\ d_runState'[q] = d_runState[q]
        /\ d_pauseCount'[q] = d_pauseCount[q] /\ d_processor'[q] = d_processor[q]
        /\ held'[q] = held[q]
        /\ IsDeleting(q)' <=> IsDeleting(q)
        /\ (q \in free)' <=> q \in free

LEMMA OtherQueuesOfWorker ==
    ASSUME PoolInv, NoMove, NEW w \in Worker, NEW p \in Queue, NEW r,
           at' = [at EXCEPT ![w] = r], at[w].queue \in {p, 0}, r.queue \in {p, 0},
           d_queueRegistry' = d_queueRegistry, OthersLeft(p)
    PROVE  /\ OtherQueuesSame(p) /\ Registered' = Registered
           /\ Pausers(p)' = Pausers(p)
           /\ \A v \in Worker : v # w => Phase(v, p)' = Phase(v, p)
                                         /\ SignalAt(v, p)' = SignalAt(v, p)
<1>1. at'[w] = r /\ \A v \in Worker : v # w => at'[v] = at[v]
  BY DEF PoolInv, Types, CallTypes
<1>2. \A v \in Worker, q \in Queue :
         v # w => Phase(v, q)' = Phase(v, q) /\ SignalAt(v, q)' = SignalAt(v, q)
  BY <1>1 DEF Phase, SignalAt, Serving
<1>3. ASSUME NEW q \in Queue \ {p}
      PROVE  Phase(w, q)' = Phase(w, q) /\ SignalAt(w, q)' = SignalAt(w, q)
  <2>1. ~Serving(w, q) /\ ~Serving(w, q)'
    BY <1>1, Constants DEF Serving
  <2> QED BY <2>1 DEF Phase, SignalAt
<1>4. Registered' = Registered /\ \A q \in Queue : Pausers(q)' = Pausers(q)
  BY DEF Registered, Pausers, NoMove
<1> QED BY <1>2, <1>3, <1>4 DEF OtherQueuesSame, SameQueue, OthersLeft

\* What is left to show of a step of a worker for queue p.
LEMMA WorkerStepKeeps ==
    ASSUME PoolInv, NoMove, NEW p \in Queue, OtherQueuesSame(p), QueueRight(p)',
           QueueTypes', RegistryTypes', OtherTypes', CallTypes', BatchesRight',
           CallsRight', JobsRight', JobsCounted',
           UNCHANGED <<d_state, d_lock, enabled, refused, program,
                       d_threadPoolIsOwned, d_queueRegistry, latch>>,
           \A u \in Thread : DeletionFor(p, u)' <=> DeletionFor(p, u),
           CountingDown' = CountingDown, \A u \in Thread : Arriving(u)' = Arriving(u),
           \A w \in Worker : at'[w].pc = "arrive" =>
              at[w].pc = "arrive" /\ at'[w].signal = at[w].signal,
           \/ Active(p)' /\ Active(p) /\ d_numActiveQueues' = d_numActiveQueues
           \/ ~Active(p)' /\ Active(p) /\ d_numActiveQueues' = d_numActiveQueues - 1,
           IsDeleting(p)' <=> IsDeleting(p),
           \/ d_runState'[p] \in {"NOT_SCHEDULED", d_runState[p]}
           \/ d_runState[p] = "PAUSING"
    PROVE  PoolInv'
<1> USE DEF PoolInv
<1>1. /\ QueuesRight'
      /\ (Active(p)' <=> Active(p)) => ActiveOnes' = ActiveOnes
      /\ ~Active(p)' /\ Active(p) => Cardinality(ActiveOnes') = Cardinality(ActiveOnes) - 1
      /\ \A u \in Thread : Awaited(u)' = Awaited(u)
  BY OneQueueChanges
<1>2. \A q \in Queue : /\ IsDeleting(q)' <=> IsDeleting(q)
                       /\ q # p => d_runState'[q] = d_runState[q]
                       /\ q # p => (Active(q)' <=> Active(q))
  BY SameQueueActive DEF OtherQueuesSame, SameQueue
<1>3. ActiveCounted'
  BY <1>1, ActiveSizes DEF ActiveCounted, Types, OtherTypes
<1>4. LatchesRight'
  BY <1>1, LatchesKeep DEF NoMove
<1>5. IdsRight'
  BY DEF IdsRight
<1>6. PausesRight'
  <2>1. MakesCall(program, "pauseQueue")' <=> MakesCall(program, "pauseQueue")
    BY DEF MakesCall, CallsOf
  <2>2. CASE d_runState'[p] \in {"NOT_SCHEDULED", d_runState[p]}
    BY <1>2, <2>2, NoMovePauses
  <2>3. CASE d_runState[p] = "PAUSING"
    BY <1>2, <2>1, <2>3 DEF PausesRight, NoMove
  <2> QED BY <2>2, <2>3
<1>7. StoppingRight'
  <2>1. ActiveOnes' \subseteq ActiveOnes
    BY <1>2 DEF ActiveOnes
  <2>2. \A u \in Thread : ptr'[u] # 0 =>
           ptr'[u] = ptr[u]
           /\ (IsDeleting(ptr[u]) => d_enqueueState'[ptr[u]] = "DELETING")
    BY <1>2 DEF NoMove, IsDeleting, Types, CallTypes
  <2>3. \A q \in Registered' :
              \/ d_runState'[q] = "NOT_SCHEDULED"
              \/ q \in Registered /\ d_runState'[q] = d_runState[q]
              \/ q \in Registered /\ d_runState[q] # "NOT_SCHEDULED"
    <3>1. Registered' = Registered /\ Registered \subseteq Queue
      BY DEF Registered, Types, RegistryTypes
    <3> QED BY <3>1, <1>2
  <2> QED BY <2>1, <2>2, <2>3, <1>1, StopsKeep DEF NoMove
<1> QED BY <1>1, <1>3, <1>4, <1>5, <1>6, <1>7 DEF Types

\* A worker takes no queue's callback, or the one of a queue; it is as before
\* with the queue.
LEMMA TakenRight ==
    ASSUME PoolInv, NEW w \in Worker, NEW p \in Queue, NEW b \in JobsAt(p),
           JobsAt(p)' = JobsAt(p) \ {b}, Phase(w, p) = "none",
           Phase(w, p)' = b.run, SignalAt(w, p)' = b.signal,
           \A v \in Worker : v # w => Phase(v, p)' = Phase(v, p)
                                      /\ SignalAt(v, p)' = SignalAt(v, p),
           Pausers(p)' = Pausers(p), Registered' = Registered,
           UNCHANGED <<queueVars, held, free>>
    PROVE  /\ QueueRight(p)' /\ (Active(p)' <=> Active(p)) /\ Active(p)
           /\ \A u \in Thread : DeletionFor(p, u)' <=> DeletionFor(p, u)
           /\ IsDeleting(p)' <=> IsDeleting(p)
<1> USE DEF PoolInv
<1>1. QueueRight(p)
  BY DEF QueuesRight
<1>2. /\ JobsAt(p) = {b} /\ JobsAt(p)' = {}
      /\ \A v \in Worker : Phase(v, p) = "none"
      /\ \A v \in Worker : v # w => Phase(v, p)' = "none"
  BY <1>1 DEF QueueRight, OnePlace
<1>3. b = Callback(p) \/ b \in Deletions(p)
  BY QueueKinds DEF Types
<1>4. /\ b = Callback(p) => b.run = "execute"
      /\ b \in Deletions(p) => b.run = "delete" /\ b \notin {Callback(p)}
      /\ \A u : Deletion(p, u) = b <=> b \in Deletions(p) /\ b.signal = u
  <2>1. \A u : Deletion(p, u) = b => b.signal = u /\ b.run = "delete" /\ b.queue = p
    BY DEF Deletion
  <2>2. ASSUME b \in Deletions(p) PROVE Deletion(p, b.signal) = b /\ b.run = "delete"
    BY <2>2 DEF Deletions, Deletion
  <2>3. Callback(p).run = "execute"
    BY DEF Callback
  <2> QED BY <1>3, <2>1, <2>2, <2>3
<1>5. IsDeleting(p)' <=> IsDeleting(p)
  BY DEF queueVars, IsDeleting
<1>6. IsScheduled(p)' <=> IsScheduled(p)
  BY DEF queueVars, IsScheduled
<1>7. HasCallback(p) <=> b = Callback(p)
  BY <1>2 DEF HasCallback
<1>8. HasCallback(p)' <=> b = Callback(p)
  BY <1>2, <1>3, <1>4 DEF HasCallback
<1>9. HasDeletion(p) <=> b \in Deletions(p)
  BY <1>2 DEF HasDeletion
<1>10. HasDeletion(p)' <=> b \in Deletions(p)
  BY <1>2, <1>3, <1>4, CallbackKinds DEF HasDeletion
<1>11. OnePlace(p)'
  BY <1>2 DEF OnePlace
<1>12. StateRight(p)'
  <2>1. \A v \in Worker : Phase(v, p)' # "batch"
    BY <1>2, <1>3, <1>4
  <2> QED BY <2>1, <1>1, <1>5, <1>6, <1>7, <1>8, <1>9, <1>10
          DEF StateRight, QueueRight, queueVars
<1>13. ListRight(p)'
  <2>1. Deletions(p)' = Deletions(p)
    BY DEF Deletions, Deletion
  <2>2. (Callback(p) \in JobsAt(p) \/ \E v \in Worker : Phase(v, p) = "execute")'
        => Callback(p) \in JobsAt(p)
    BY <1>2, <1>3, <1>4
  <2> QED BY <2>1, <2>2, <1>1, <1>5, <1>6 DEF ListRight, QueueRight, queueVars
<1>14. KnownRight(p)'
  BY <1>1, <1>5 DEF KnownRight, QueueRight, queueVars
<1>15. PauseRight(p)'
  <2>1. \A v \in Worker : Phase(v, p)' \notin {"batch", "release"}
    BY <1>2, <1>3, <1>4
  <2> QED BY <2>1, <1>1 DEF PauseRight, QueueRight, queueVars
<1>16. ASSUME NEW u \in Thread
       PROVE  DeletionFor(p, u)' <=> DeletionFor(p, u)
  <2>1. Deletion(p, u)' = Deletion(p, u)
    BY DEF Deletion
  <2>2. Deletion(p, u) \in JobsAt(p) <=> b \in Deletions(p) /\ b.signal = u
    BY <1>2, <1>4
  <2>3. (\E v \in Worker : Phase(v, p) \in {"delete", "release"}
                           /\ SignalAt(v, p) = u)'
        <=> b \in Deletions(p) /\ b.signal = u
    BY <1>2, <1>3, <1>4
  <2>4. (IsDeleting(p) /\ IsScheduled(p) /\ Head(d_list[p]) = Deletion(p, u))'
        <=> IsDeleting(p) /\ IsScheduled(p) /\ Head(d_list[p]) = Deletion(p, u)
    BY <2>1, <1>5, <1>6 DEF queueVars
  <2>5. DeletionFor(p, u)
        <=> \/ b \in Deletions(p) /\ b.signal = u
            \/ IsDeleting(p) /\ IsScheduled(p) /\ Head(d_list[p]) = Deletion(p, u)
    BY <2>2, <1>2 DEF DeletionFor
  <2>6. DeletionFor(p, u)'
        <=> \/ b \in Deletions(p) /\ b.signal = u
            \/ IsDeleting(p) /\ IsScheduled(p) /\ Head(d_list[p]) = Deletion(p, u)
    BY <2>3, <2>4, <1>2 DEF DeletionFor
  <2> QED BY <2>5, <2>6
<1>17. Active(p) /\ (Active(p)' <=> Active(p))
  BY <1>1, <1>3, <1>5, <1>6, <1>7, <1>9 DEF Active, QueueRight, StateRight
<1> QED BY <1>5, <1>11, <1>12, <1>13, <1>14, <1>15, <1>16, <1>17 DEF QueueRight

LEMMA TakeCallbackKeeps ==
    ASSUME PoolInv, NEW w \in Worker, TakeCallback(w)
    PROVE  PoolInv'
<1> USE DEF PoolInv
<1>1. PICK b \in CallbackSet : b = Head(jobs)
  BY TakeJob DEF TakeCallback
<1> DEFINE r == [pc |-> b.run, queue |-> b.queue, signal |-> b.signal]
<1>2. /\ at[w] = Idle /\ jobs # <<>> /\ jobs' = Tail(jobs)
      /\ at' = [at EXCEPT ![w] = r]
      /\ UNCHANGED <<registryVars, d_lock, counterVars, queueVars, enabled,
                     refused, d_batch, pc, ptr, step, waitVars, scene, held>>
  BY <1>1 DEF TakeCallback
<1>3. JobsRight' /\ b \in ToSet(jobs) /\ ToSet(jobs') = ToSet(jobs) \ {b}
  BY <1>1, <1>2, TakeJob
<1>4. \/ b = Foreign
      \/ \E p \in Queue : b.queue = p /\ (b = Callback(p) \/ b \in Deletions(p))
  BY CallbackKinds DEF CallbackSet
<1>5. /\ r \in WorkSet /\ r.pc \in {"foreign", "execute", "delete"}
      /\ r.pc \in {"idle", "foreign"} <=> r.queue = 0
      /\ r.pc = b.run /\ r.queue = b.queue /\ r.signal = b.signal
  <2>1. CASE b = Foreign
    BY <2>1 DEF Foreign, WorkSet, WorkerPC
  <2>2. ASSUME NEW p \in Queue, b.queue = p, b = Callback(p) \/ b \in Deletions(p)
        PROVE  r \in WorkSet /\ r.pc \in {"execute", "delete"} /\ r.queue # 0
    BY <2>2, Constants DEF Callback, Deletions, Deletion, WorkSet, WorkerPC
  <2> QED BY <2>1, <2>2, <1>4 DEF Foreign
<1>6. at[w].pc = "idle" /\ at[w].queue = 0 /\ NoMove
  BY <1>2 DEF Idle, NoMove
<1> HIDE DEF r
<1>7. CallTypes' /\ BatchesRight' /\ CallsRight'
  BY <1>2, <1>5, <1>6, WorkerMoves DEF scene
<1>8. /\ CountingDown' = CountingDown /\ \A u \in Thread : Arriving(u)' = Arriving(u)
      /\ \A v \in Worker : at'[v].pc = "arrive" =>
              at[v].pc = "arrive" /\ at'[v].signal = at[v].signal
  <2>1. at'[w] = r /\ \A v \in Worker : v # w => at'[v] = at[v]
    BY <1>2 DEF Types, CallTypes
  <2> QED BY <2>1, <1>5, <1>6 DEF CountingDown, Arriving
<1>9. OtherTypes' /\ QueueTypes' /\ RegistryTypes' /\ JobsCounted'
  <2>1. OtherTypes' /\ QueueTypes' /\ RegistryTypes'
    BY <1>2 DEF OtherTypes, QueueTypes, RegistryTypes, Types, counterVars, waitVars,
                scene, registryVars, queueVars
  <2>2. JobsIn' = JobsIn /\ Uncounted' = Uncounted
    BY <1>2 DEF JobsIn, IsDeleting, queueVars, Uncounted
  <2> QED BY <2>1, <2>2, <1>2, SameCounters DEF counterVars, scene
<1>10. CASE b = Foreign
  <2>1. \A q \in Queue : JobsAt(q)' = JobsAt(q)
    BY <1>3, <1>10, ForeignAside DEF JobsAt
  <2>2. SameQueues
    <3>1. r.pc = "foreign" /\ r.queue = 0
      BY <1>5, <1>10 DEF Foreign
    <3> QED BY <3>1, <2>1, <1>2, <1>6, AsidePhases
  <2>3. /\ QueuesRight' /\ IdsRight' /\ PausesRight'
        /\ StoppingRight' /\ ActiveOnes' = ActiveOnes
        /\ \A u \in Thread : Awaited(u)' = Awaited(u)
    BY <1>2, <1>6, <2>2, AsideKeeps DEF counterVars
  <2>4. ActiveCounted'
    BY <1>2, <1>8, <2>3 DEF ActiveCounted, counterVars
  <2>5. LatchesRight'
    BY <1>2, <1>8, <2>3, LatchesKeep DEF waitVars
  <2> QED BY <1>3, <1>7, <1>9, <2>3, <2>4, <2>5 DEF Types
<1>11. ASSUME NEW p \in Queue, b.queue = p, b = Callback(p) \/ b \in Deletions(p)
       PROVE  PoolInv'
  <2>1. /\ b \in JobsAt(p) /\ JobsAt(p)' = JobsAt(p) \ {b}
        /\ \A q \in Queue \ {p} : JobsAt(q)' = JobsAt(q)
    BY <1>3, <1>11 DEF JobsAt
  <2>2. /\ OtherQueuesSame(p) /\ Registered' = Registered
        /\ Pausers(p)' = Pausers(p)
        /\ \A v \in Worker : v # w => Phase(v, p)' = Phase(v, p)
                                      /\ SignalAt(v, p)' = SignalAt(v, p)
    <3>1. UNCHANGED <<d_list, d_runState, d_pauseCount, d_processor, held,
                      d_enqueueState, free, d_queueRegistry>>
      BY <1>2 DEF queueVars, registryVars
    <3>2. at[w].queue \in {p, 0} /\ r.queue \in {p, 0}
      BY <1>5, <1>6, <1>11
    <3>3. OthersLeft(p)
      BY <2>1, <3>1 DEF OthersLeft, IsDeleting
    <3> QED BY <1>2, <1>6, <3>1, <3>2, <3>3, OtherQueuesOfWorker
  <2>3. /\ Phase(w, p) = "none" /\ Phase(w, p)' = b.run /\ SignalAt(w, p)' = b.signal
    <3>1. at'[w] = r /\ r.pc \in {"execute", "delete"}
      BY <1>2, <1>5, <1>11, Constants DEF Types, CallTypes
    <3> QED BY <3>1, <1>5, <1>6, <1>11 DEF Phase, SignalAt, Serving
  <2>4. /\ QueueRight(p)' /\ (Active(p)' <=> Active(p)) /\ Active(p)
        /\ \A u \in Thread : DeletionFor(p, u)' <=> DeletionFor(p, u)
        /\ IsDeleting(p)' <=> IsDeleting(p)
    <3>1. UNCHANGED <<queueVars, held, free>>
      BY <1>2 DEF registryVars
    <3> QED BY <2>1, <2>2, <2>3, <3>1, TakenRight
  <2>5. UNCHANGED <<d_state, d_lock, enabled, refused, program, d_numActiveQueues,
                    d_threadPoolIsOwned, d_queueRegistry, latch, d_runState>>
    BY <1>2 DEF registryVars, counterVars, scene, waitVars, queueVars
  <2> QED BY <1>3, <1>6, <1>7, <1>8, <1>9, <2>2, <2>4, <2>5, WorkerStepKeeps
<1> QED BY <1>4, <1>10, <1>11

LEMMA ServedQueue ==
    ASSUME PoolInv, NEW w \in Worker, at[w].pc \notin {"idle", "foreign"}
    PROVE  /\ at[w].queue \in Queue /\ at[w] \in WorkSet
           /\ at[w].pc \notin {"count_down", "arrive"} => Serving(w, at[w].queue)
BY DEF PoolInv, Types, CallTypes, WorkSet, Serving

LEMMA NewPlace ==
    ASSUME NEW r \in WorkSet, NEW place \in WorkerPC
    PROVE  /\ [r EXCEPT !.pc = place] \in WorkSet
           /\ [r EXCEPT !.pc = place].pc = place
           /\ [r EXCEPT !.pc = place].queue = r.queue
           /\ [r EXCEPT !.pc = place].signal = r.signal
BY DEF WorkSet

LEMMA DrainWaitWhilePausingKeeps ==
    ASSUME PoolInv, NEW w \in Worker, drainWaitWhilePausing(w)
    PROVE  PoolInv'
<1> USE DEF PoolInv
<1>1. PICK p \in Queue : p = at[w].queue
  BY ServedQueue DEF drainWaitWhilePausing
<1>2. PICK r \in WorkSet : /\ r.pc = "release" /\ r.queue = p /\ r.signal = at[w].signal
                           /\ at' = [at EXCEPT ![w] = r]
  <2>1. at[w] \in WorkSet /\ "release" \in WorkerPC
    BY DEF Types, CallTypes, WorkerPC
  <2>2. at' = [at EXCEPT ![w] = [at[w] EXCEPT !.pc = "release"]]
    BY DEF drainWaitWhilePausing, Types, CallTypes
  <2> QED BY <2>1, <2>2, <1>1, NewPlace
<1>3. /\ at[w].pc = "delete" /\ d_pauseCount[p] = 0
      /\ UNCHANGED <<registryVars, d_lock, counterVars, queueVars, poolVars,
                     d_batch, pc, ptr, step, waitVars, scene, held>>
  BY <1>1 DEF drainWaitWhilePausing
<1>4. NoMove /\ at'[w] = r /\ \A v \in Worker : v # w => at'[v] = at[v]
  BY <1>2, <1>3 DEF NoMove, Types, CallTypes
<1>5. CallTypes' /\ BatchesRight' /\ CallsRight'
  <2>1. r.pc \in {"idle", "foreign"} <=> r.queue = 0
    BY <1>2, Constants
  <2> QED BY <2>1, <1>2, <1>3, <1>4, WorkerMoves DEF scene
<1>6. /\ JobsRight' /\ \A q \in Queue : JobsAt(q)' = JobsAt(q)
  BY <1>3 DEF poolVars, JobsRight, JobsAt
<1>7. /\ OtherQueuesSame(p) /\ Registered' = Registered /\ Pausers(p)' = Pausers(p)
      /\ \A v \in Worker : v # w => Phase(v, p)' = Phase(v, p)
                                    /\ SignalAt(v, p)' = SignalAt(v, p)
  <2>1. UNCHANGED <<d_list, d_runState, d_pauseCount, d_processor, held,
                    d_enqueueState, free, d_queueRegistry>>
    BY <1>3 DEF queueVars, registryVars
  <2>2. at[w].queue \in {p, 0} /\ r.queue \in {p, 0}
    BY <1>1, <1>2
  <2>3. OthersLeft(p)
    BY <1>6, <2>1 DEF OthersLeft, IsDeleting
  <2> QED BY <1>2, <1>4, <2>1, <2>2, <2>3, OtherQueuesOfWorker
<1>8. /\ Phase(w, p) = "delete" /\ Phase(w, p)' = "release"
      /\ SignalAt(w, p)' = SignalAt(w, p)
  BY <1>1, <1>2, <1>3, <1>4 DEF Phase, SignalAt, Serving
<1>9. Pausers(p) = {}
  <2>1. IsFiniteSet(Pausers(p)) /\ Cardinality(Pausers(p)) = 0
    BY <1>3, Constants, FS_Subset DEF Pausers, QueuesRight, QueueRight, PauseRight
  <2> QED BY <2>1, FS_EmptySet
<1>10. /\ QueueRight(p)
       /\ UNCHANGED <<d_list, d_runState, d_pauseCount, d_processor, held, free>>
       /\ (IsDeleting(p)' <=> IsDeleting(p)) /\ (IsScheduled(p)' <=> IsScheduled(p))
  BY <1>3 DEF QueuesRight, queueVars, registryVars, IsDeleting, IsScheduled
<1>11. HasDeletion(p) /\ HasDeletion(p)' /\ (HasCallback(p)' <=> HasCallback(p))
  BY <1>6, <1>7, <1>8 DEF HasDeletion, HasCallback, Deletions, Deletion, Callback
<1>12. QueueRight(p)'
  <2>1. OnePlace(p)'
    BY <1>6, <1>7, <1>8, <1>10 DEF QueueRight, OnePlace
  <2>2. StateRight(p)'
    BY <1>7, <1>8, <1>10, <1>11 DEF QueueRight, StateRight
  <2>3. ListRight(p)'
    BY <1>6, <1>7, <1>8, <1>10
       DEF QueueRight, ListRight, Deletions, Deletion, Callback
  <2>4. KnownRight(p)'
    BY <1>7, <1>10 DEF QueueRight, KnownRight
  <2>5. PauseRight(p)'
    BY <1>7, <1>8, <1>9, <1>10 DEF QueueRight, PauseRight
  <2> QED BY <2>1, <2>2, <2>3, <2>4, <2>5 DEF QueueRight
<1>13. \A u \in Thread : DeletionFor(p, u)' <=> DeletionFor(p, u)
  BY <1>6, <1>7, <1>8, <1>10 DEF DeletionFor, Deletion
<1>14. Active(p) /\ Active(p)'
  BY <1>10, <1>11 DEF QueueRight, StateRight, Active
<1>15. /\ CountingDown' = CountingDown /\ \A u \in Thread : Arriving(u)' = Arriving(u)
       /\ \A v \in Worker : at'[v].pc = "arrive" =>
              at[v].pc = "arrive" /\ at'[v].signal = at[v].signal
  BY <1>2, <1>3, <1>4 DEF CountingDown, Arriving
<1>16. OtherTypes' /\ QueueTypes' /\ RegistryTypes' /\ JobsCounted'
  <2>1. OtherTypes' /\ QueueTypes' /\ RegistryTypes'
    BY <1>3 DEF OtherTypes, QueueTypes, RegistryTypes, Types, counterVars, waitVars,
                scene, registryVars, queueVars, poolVars
  <2>2. JobsIn' = JobsIn /\ Uncounted' = Uncounted
    BY <1>3 DEF JobsIn, IsDeleting, queueVars, Uncounted
  <2> QED BY <2>1, <2>2, <1>3, SameCounters DEF counterVars, scene
<1>17. UNCHANGED <<d_state, d_lock, enabled, refused, program, d_numActiveQueues,
                   d_threadPoolIsOwned, d_queueRegistry, latch, d_runState>>
  BY <1>3 DEF registryVars, counterVars, scene, waitVars, queueVars, poolVars
<1> QED BY <1>4, <1>5, <1>6, <1>7, <1>10, <1>12, <1>13, <1>14, <1>15, <1>16, <1>17,
           WorkerStepKeeps

LEMMA CountDownKeeps ==
    ASSUME PoolInv, NEW w \in Worker, CountDown(w)
    PROVE  PoolInv'
<1> USE DEF PoolInv
<1>1. /\ at[w].pc = "count_down" /\ d_numActiveQueues' = d_numActiveQueues - 1
      /\ UNCHANGED <<registryVars, d_lock, d_numExecuted, d_numEnqueued,
                     d_numDeleted, queueVars, poolVars, d_batch, pc, ptr, step,
                     waitVars, scene, held>>
  BY DEF CountDown
<1>2. PICK r \in WorkSet :
         /\ at' = [at EXCEPT ![w] = r] /\ r.pc \in {"idle", "arrive"}
         /\ r.pc \in {"idle", "foreign"} <=> r.queue = 0
         /\ r.pc = "arrive" => r.signal = at[w].signal /\ r.signal # None
         /\ r.pc = "idle" => at[w].signal = None
  <2>1. CASE at[w].signal = None
    BY <2>1, IdleWork DEF CountDown, Idle
  <2>2. CASE at[w].signal # None
    <3>1. at[w] \in WorkSet /\ "arrive" \in WorkerPC /\ at[w].queue # 0
      BY <1>1 DEF Types, CallTypes, WorkerPC
    <3>2. at' = [at EXCEPT ![w] = [at[w] EXCEPT !.pc = "arrive"]]
      BY <2>2 DEF CountDown
    <3> DEFINE r == [at[w] EXCEPT !.pc = "arrive"]
    <3>3. /\ r \in WorkSet /\ r.pc = "arrive" /\ r.queue = at[w].queue
          /\ r.signal = at[w].signal
      BY <3>1, NewPlace
    <3> HIDE DEF r
    <3> QED BY <2>2, <3>1, <3>2, <3>3 DEF r
  <2> QED BY <2>1, <2>2
<1>3. NoMove /\ at'[w] = r /\ \A v \in Worker : v # w => at'[v] = at[v]
  BY <1>1, <1>2 DEF NoMove, Types, CallTypes
<1>4. JobsRight' /\ \A q \in Queue : JobsAt(q)' = JobsAt(q)
  BY <1>1 DEF poolVars, JobsRight, JobsAt
<1>5. SameQueues
  BY <1>1, <1>2, <1>3, <1>4, AsidePhases
<1>6. CallTypes' /\ BatchesRight' /\ CallsRight'
  BY <1>1, <1>2, <1>3, WorkerMoves DEF scene
<1>7. /\ QueuesRight' /\ IdsRight' /\ PausesRight' /\ JobsCounted'
      /\ StoppingRight' /\ QueueTypes' /\ RegistryTypes'
      /\ ActiveOnes' = ActiveOnes
      /\ \A u \in Thread : Awaited(u)' = Awaited(u)
  BY <1>1, <1>3, <1>5, AsideKeeps DEF poolVars
<1>8. OtherTypes'
  BY <1>1 DEF OtherTypes, Types, waitVars, scene, poolVars
<1>9. ActiveCounted'
  <2>1. CountingDown' = CountingDown \ {w} /\ w \in CountingDown
    BY <1>1, <1>2, <1>3 DEF CountingDown
  <2>2. Cardinality(CountingDown') = Cardinality(CountingDown) - 1
    BY <2>1, ActiveSizes, FS_RemoveElement
  <2> QED BY <2>2, <1>1, <1>7, ActiveSizes DEF ActiveCounted, Types, OtherTypes
<1>10. LatchesRight'
  <2>1. ASSUME NEW u \in Thread PROVE Arriving(u)' = Arriving(u)
    <3>1. at'[w].pc \in {"count_down", "arrive"} /\ at'[w].signal = u
          <=> at[w].pc \in {"count_down", "arrive"} /\ at[w].signal = u
      BY <1>1, <1>2, <1>3, Constants
    <3> QED BY <3>1, <1>3 DEF Arriving
  <2>2. \A v \in Worker : at'[v].pc = "arrive" => at'[v].signal # None
    BY <1>2, <1>3 DEF LatchesRight
  <2> QED BY <2>1, <2>2, <1>1, <1>7 DEF LatchesRight, waitVars
<1> QED BY <1>4, <1>6, <1>7, <1>8, <1>9, <1>10 DEF Types

LEMMA ArriveKeeps ==
    ASSUME PoolInv, NEW w \in Worker, arrive(w)
    PROVE  PoolInv'
<1> USE DEF PoolInv
<1>1. PICK s \in Thread : s = at[w].signal
  BY DEF arrive, LatchesRight, Types, CallTypes, WorkSet
<1>2. /\ at[w].pc = "arrive" /\ at' = [at EXCEPT ![w] = Idle]
      /\ latch' = [latch EXCEPT ![s] = @ - 1]
      /\ UNCHANGED <<registryVars, d_lock, counterVars, queueVars, poolVars, d_batch,
                     pc, ptr, step, woken, scene, held>>
  BY <1>1 DEF arrive
<1>3. /\ NoMove /\ at'[w] = Idle /\ Idle.pc = "idle" /\ Idle.queue = 0
      /\ \A v \in Worker : v # w => at'[v] = at[v]
  BY <1>2 DEF NoMove, Types, CallTypes, Idle
<1>4. JobsRight' /\ \A q \in Queue : JobsAt(q)' = JobsAt(q)
  BY <1>2 DEF poolVars, JobsRight, JobsAt
<1>5. SameQueues
  BY <1>2, <1>3, <1>4, AsidePhases
<1>6. CallTypes' /\ BatchesRight' /\ CallsRight'
  BY <1>2, <1>3, IdleWork, WorkerMoves DEF scene
<1>7. /\ QueuesRight' /\ IdsRight' /\ PausesRight' /\ JobsCounted'
      /\ StoppingRight' /\ QueueTypes' /\ RegistryTypes'
      /\ ActiveOnes' = ActiveOnes
      /\ \A u \in Thread : Awaited(u)' = Awaited(u)
  BY <1>2, <1>3, <1>5, AsideKeeps DEF poolVars, counterVars
<1>8. OtherTypes'
  BY <1>2 DEF OtherTypes, Types, counterVars, scene, poolVars
<1>9. ActiveCounted'
  <2>1. CountingDown' = CountingDown
    BY <1>2, <1>3 DEF CountingDown
  <2> QED BY <2>1, <1>2, <1>7 DEF ActiveCounted, counterVars
<1>10. LatchesRight'
  <2>1. Arriving(s)' = Arriving(s) \ {w} /\ w \in Arriving(s)
    BY <1>1, <1>2, <1>3 DEF Arriving
  <2>2. \A u \in Thread : u # s => Arriving(u)' = Arriving(u) /\ latch'[u] = latch[u]
    BY <1>1, <1>2, <1>3 DEF Arriving, Types, OtherTypes
  <2>3. /\ IsFiniteSet(Arriving(s)) /\ IsFiniteSet(Awaited(s))
        /\ Cardinality(Arriving(s)) \in Nat /\ Cardinality(Awaited(s)) \in Nat
    <3>1. IsFiniteSet(Arriving(s)) /\ IsFiniteSet(Awaited(s))
      BY Constants, FS_Subset DEF Arriving, Awaited
    <3> QED BY <3>1, FS_CardinalityType
  <2>4. Cardinality(Arriving(s)') = Cardinality(Arriving(s)) - 1
    BY <2>1, <2>3, FS_RemoveElement
  <2>5. latch'[s] = latch[s] - 1
        /\ latch[s] = Cardinality(Awaited(s)) + Cardinality(Arriving(s))
    BY <1>2 DEF Types, OtherTypes, LatchesRight
  <2>6. latch'[s] = Cardinality(Awaited(s)') + Cardinality(Arriving(s)')
    BY <2>3, <2>4, <2>5, <1>7
  <2>7. pc[s] \in {"latch", "shutdown_latch"}
    <3>1. Cardinality(Arriving(s)) # 0
      BY <2>1, <2>3, FS_EmptySet
    <3> QED BY <3>1, <2>3, <2>5 DEF LatchesRight
  <2>8. \A v \in Worker : at'[v].pc = "arrive" => at'[v].signal # None
    BY <1>3 DEF LatchesRight
  <2> QED BY <2>2, <2>6, <2>7, <2>8, <1>2, <1>7 DEF LatchesRight
<1> QED BY <1>4, <1>6, <1>7, <1>8, <1>9, <1>10 DEF Types

\* What a queue is after its object was released.
LEMMA ReleasedRight ==
    ASSUME NEW q \in Queue, JobsAt(q)' = {}, \A v \in Worker : Phase(v, q)' = "none",
           Pausers(q)' = {}, d_list'[q] = <<>>, d_runState'[q] = "NOT_SCHEDULED",
           ~IsDeleting(q)', d_pauseCount'[q] = 0, held'[q] = "no",
           (q \in free)', ~(q \in Registered)'
    PROVE  QueueRight(q)' /\ ~Active(q)' /\ \A u \in Thread : ~DeletionFor(q, u)'
<1>1. ~HasCallback(q)' /\ ~HasDeletion(q)' /\ ~IsScheduled(q)'
  BY DEF HasCallback, HasDeletion, IsScheduled
<1>2. OnePlace(q)' /\ StateRight(q)' /\ ListRight(q)' /\ KnownRight(q)'
  BY <1>1 DEF OnePlace, StateRight, ListRight, KnownRight
<1>3. PauseRight(q)'
  BY FS_EmptySet DEF PauseRight
<1>4. \A u \in Thread : ~DeletionFor(q, u)'
  BY DEF DeletionFor
<1> QED BY <1>1, <1>2, <1>3, <1>4 DEF QueueRight, Active

LEMMA ReleaseObjectKeeps ==
    ASSUME PoolInv, NEW w \in Worker, releaseObject(w)
    PROVE  PoolInv'
<1> USE DEF PoolInv
<1>1. PICK p \in Queue : p = at[w].queue
  BY ServedQueue DEF releaseObject
<1>2. PICK r \in WorkSet : /\ r.pc = "count_down" /\ r.queue = p
                           /\ r.signal = at[w].signal /\ at' = [at EXCEPT ![w] = r]
  <2>1. at[w] \in WorkSet /\ "count_down" \in WorkerPC
    BY DEF Types, CallTypes, WorkerPC
  <2>2. at' = [at EXCEPT ![w] = [at[w] EXCEPT !.pc = "count_down"]]
    BY DEF releaseObject, Types, CallTypes
  <2> QED BY <2>1, <2>2, <1>1, NewPlace
<1>3. /\ at[w].pc = "release" /\ releaseObjects({p})
      /\ UNCHANGED <<d_queueRegistry, d_nextId, d_state, d_lock, counterVars,
                     poolVars, d_batch, pc, ptr, step, waitVars, scene>>
  BY <1>1 DEF releaseObject
<1>4. NoMove /\ at'[w] = r /\ \A v \in Worker : v # w => at'[v] = at[v]
  BY <1>2, <1>3 DEF NoMove, Types, CallTypes
<1>5. /\ free' = free \cup {p} /\ d_list'[p] = <<>> /\ ~IsDeleting(p)'
      /\ d_enqueueState'[p] = "ENABLED" /\ d_runState'[p] = "NOT_SCHEDULED"
      /\ d_pauseCount'[p] = 0 /\ held'[p] = "no"
      /\ \A q \in Queue \ {p} :
            /\ d_list'[q] = d_list[q] /\ d_runState'[q] = d_runState[q]
            /\ d_pauseCount'[q] = d_pauseCount[q] /\ d_processor'[q] = d_processor[q]
            /\ held'[q] = held[q] /\ (IsDeleting(q)' <=> IsDeleting(q))
            /\ (q \in free)' <=> q \in free
  BY <1>3 DEF releaseObjects, IsDeleting
<1>6. CallTypes' /\ BatchesRight' /\ CallsRight'
  <2>1. r.pc \in {"idle", "foreign"} <=> r.queue = 0
    BY <1>2, Constants
  <2> QED BY <2>1, <1>2, <1>3, <1>4, WorkerMoves DEF scene
<1>7. JobsRight' /\ \A q \in Queue : JobsAt(q)' = JobsAt(q)
  BY <1>3 DEF poolVars, JobsRight, JobsAt
<1>8. /\ OtherQueuesSame(p) /\ Registered' = Registered /\ Pausers(p)' = Pausers(p)
      /\ \A v \in Worker : v # w => Phase(v, p)' = Phase(v, p)
                                    /\ SignalAt(v, p)' = SignalAt(v, p)
  <2>1. at[w].queue \in {p, 0} /\ r.queue \in {p, 0} /\ d_queueRegistry' = d_queueRegistry
    BY <1>1, <1>2, <1>3
  <2>2. OthersLeft(p)
    BY <1>5, <1>7 DEF OthersLeft
  <2> QED BY <1>2, <1>4, <2>1, <2>2, OtherQueuesOfWorker
<1>9. /\ Phase(w, p) = "release" /\ SignalAt(w, p) = at[w].signal
      /\ Phase(w, p)' = "none"
  BY <1>1, <1>2, <1>3, <1>4 DEF Phase, SignalAt, Serving
<1>10. QueueRight(p)
  BY DEF QueuesRight
<1>11. /\ JobsAt(p) = {} /\ \A v \in Worker : v # w => Phase(v, p) = "none"
       /\ Pausers(p) = {}
       /\ IsDeleting(p) /\ ~IsScheduled(p) /\ Active(p) /\ p \notin Registered
  BY <1>9, <1>10 DEF QueueRight, OnePlace, PauseRight, StateRight, HasDeletion,
                     KnownRight, Active
<1>12. QueueRight(p)' /\ ~Active(p)' /\ \A u \in Thread : ~DeletionFor(p, u)'
  BY <1>5, <1>7, <1>8, <1>9, <1>11, ReleasedRight
<1>13. /\ QueuesRight'
       /\ Cardinality(ActiveOnes') = Cardinality(ActiveOnes) - 1
       /\ \A t \in Thread : \A q \in Queue \ {p} :
             DeletionFor(q, t)' <=> DeletionFor(q, t)
  BY <1>8, <1>11, <1>12, OneQueueChanges
<1>14. QueueTypes' /\ RegistryTypes' /\ OtherTypes'
  <2>1. QueueTypes'
    <3>1. d_list' \in [Queue -> Seq(Job \cup CallbackSet)]
      BY <1>3 DEF releaseObjects, Types, QueueTypes
    <3>2. d_list' \in [Queue -> Seq(Job \cup CallbackSet')]
      BY <3>1 DEF CallbackSet, Deletions, Deletion, Callback
    <3> QED BY <3>2, <1>3 DEF releaseObjects, Types, QueueTypes
  <2>2. RegistryTypes' /\ OtherTypes'
    BY <1>3, <1>5 DEF Types, RegistryTypes, OtherTypes, counterVars, waitVars, scene,
                poolVars
  <2> QED BY <2>1, <2>2
<1>15. JobsCounted'
  <2>1. /\ Cardinality(JobsIn') - Share(p)' = Cardinality(JobsIn) - Share(p)
        /\ Cardinality(JobsIn) \in Int /\ Cardinality(JobsIn') \in Int
    BY <1>8, <1>14, OneQueueJobs DEF Types
  <2>2. Share(p) = 0
    BY <1>11 DEF Share, Row, Kept
  <2>3. Share(p)' = 0
    <3>1. Len(d_list'[p]) = 0
      BY <1>5
    <3> QED BY <3>1 DEF Share, Row, Kept
  <2>4. Cardinality(JobsIn') = Cardinality(JobsIn)
    BY <2>1, <2>2, <2>3
  <2>5. Uncounted' = Uncounted
    BY <1>3 DEF Uncounted
  <2> QED BY <2>4, <2>5, <1>3, CountersKeep DEF counterVars, scene
<1>16. ActiveCounted'
  <2>1. CountingDown' = CountingDown \cup {w} /\ w \notin CountingDown
    BY <1>2, <1>3, <1>4 DEF CountingDown
  <2>2. Cardinality(CountingDown') = Cardinality(CountingDown) + 1
    BY <2>1, ActiveSizes, FS_AddElement
  <2> QED BY <2>2, <1>3, <1>13, ActiveSizes DEF ActiveCounted, counterVars
<1>17. \A u \in Thread : /\ Awaited(u)' = Awaited(u) \ {p}
                         /\ p \in Awaited(u) <=> at[w].signal = u
  <2>1. ASSUME NEW u \in Thread PROVE DeletionFor(p, u) <=> at[w].signal = u
    BY <1>9, <1>11 DEF DeletionFor
  <2> QED BY <2>1, <1>12, <1>13 DEF Awaited
<1>18. LatchesRight'
  <2>1. ASSUME NEW u \in Thread
        PROVE  Cardinality(Awaited(u)') + Cardinality(Arriving(u)')
               = Cardinality(Awaited(u)) + Cardinality(Arriving(u))
    <3>1. /\ IsFiniteSet(Awaited(u)) /\ IsFiniteSet(Arriving(u))
          /\ Cardinality(Awaited(u)) \in Nat /\ Cardinality(Arriving(u)) \in Nat
      <4>1. IsFiniteSet(Awaited(u)) /\ IsFiniteSet(Arriving(u))
        BY Constants, FS_Subset DEF Arriving, Awaited
      <4> QED BY <4>1, FS_CardinalityType
    <3>2. CASE at[w].signal = u
      <4>1. Arriving(u)' = Arriving(u) \cup {w} /\ w \notin Arriving(u)
        BY <3>2, <1>2, <1>3, <1>4 DEF Arriving
      <4>2. Awaited(u)' = Awaited(u) \ {p} /\ p \in Awaited(u)
        BY <3>2, <1>17
      <4>3. Cardinality(Arriving(u)') = Cardinality(Arriving(u)) + 1
        BY <4>1, <3>1, FS_AddElement
      <4>4. Cardinality(Awaited(u)') = Cardinality(Awaited(u)) - 1
        BY <4>2, <3>1, FS_RemoveElement
      <4> QED BY <4>3, <4>4, <3>1
    <3>3. CASE at[w].signal # u
      <4>1. Arriving(u)' = Arriving(u)
        BY <3>3, <1>2, <1>3, <1>4 DEF Arriving
      <4>2. Awaited(u)' = Awaited(u)
        BY <3>3, <1>17
      <4> QED BY <4>1, <4>2
    <3> QED BY <3>2, <3>3
  <2>2. \A v \in Worker : at'[v].pc = "arrive" => at'[v].signal # None
    BY <1>2, <1>4 DEF LatchesRight
  <2> QED BY <2>1, <2>2, <1>3 DEF LatchesRight, waitVars
<1>19. IdsRight' /\ PausesRight'
  <2>1. IdsRight'
    BY <1>3 DEF IdsRight
  <2> QED BY <2>1, <1>3, <1>4, <1>5, NoMovePauses DEF scene
<1>20. StoppingRight'
  <2>1. ActiveOnes' \subseteq ActiveOnes
        /\ \A u \in Thread : ActiveOnes' \cap Awaited(u) \subseteq Awaited(u)'
    <3>1. ActiveOnes' \subseteq ActiveOnes /\ p \notin ActiveOnes'
      BY <1>8, <1>12, SameQueueActive DEF ActiveOnes, OtherQueuesSame
    <3> QED BY <3>1, <1>17
  <2>2. ASSUME NEW u \in Thread, ptr'[u] # 0
        PROVE  ptr'[u] = ptr[u]
               /\ (IsDeleting(ptr[u]) => d_enqueueState'[ptr[u]] = "DELETING")
    <3>1. ptr'[u] = ptr[u] /\ ptr[u] \in Queue /\ ptr[u] # p
      BY <2>2, <1>4, <1>11 DEF NoMove, Types, CallTypes, Pausers
    <3> QED BY <3>1, <1>5 DEF IsDeleting
  <2>3. \A q \in Registered' :
              \/ d_runState'[q] = "NOT_SCHEDULED"
              \/ q \in Registered /\ d_runState'[q] = d_runState[q]
              \/ q \in Registered /\ d_runState[q] # "NOT_SCHEDULED"
    <3>1. Registered \subseteq Queue
      BY DEF Registered, Types, RegistryTypes
    <3> QED BY <3>1, <1>5, <1>8
  <2>4. UNCHANGED <<program, d_state, enabled, refused, d_threadPoolIsOwned, d_lock>>
    BY <1>3 DEF poolVars, scene
  <2> QED BY <2>1, <2>2, <2>3, <2>4, <1>4, StopsKeep DEF NoMove
<1> QED BY <1>6, <1>7, <1>13, <1>14, <1>15, <1>16, <1>18, <1>19, <1>20 DEF Types

\* The thread pool is enabled as long as a queue is active.
LEMMA ActiveEnabled ==
    ASSUME PoolInv, NEW q \in Queue, Active(q)
    PROVE  enabled /\ refused = FALSE
<1>1. ~AtRest
  BY DEF AtRest, ActiveOnes
<1> QED BY <1>1 DEF PoolInv, StoppingRight, StopperRight, StopPC, Types, OtherTypes

\* The callback of a worker ends.
LEMMA WorkerEnds ==
    ASSUME PoolInv, NoMove, NEW w \in Worker, NEW p \in Queue, p = at[w].queue,
           at[w].pc \in {"execute", "finish"}, at' = [at EXCEPT ![w] = Idle],
           OthersLeft(p), d_queueRegistry' = d_queueRegistry, d_batch' = d_batch,
           program' = program
    PROVE  /\ OtherQueuesSame(p) /\ Registered' = Registered
           /\ Pausers(p)' = Pausers(p)
           /\ JobsAt(p) = {} /\ Phase(w, p) \in {"execute", "batch"} /\ IsScheduled(p)
           /\ \A v \in Worker : v # w => Phase(v, p) = "none"
           /\ \A v \in Worker : Phase(v, p)' = "none"
           /\ CallTypes' /\ BatchesRight' /\ CallsRight'
           /\ CountingDown' = CountingDown /\ \A u \in Thread : Arriving(u)' = Arriving(u)
           /\ \A v \in Worker : at'[v].pc = "arrive" =>
                 at[v].pc = "arrive" /\ at'[v].signal = at[v].signal
<1> USE DEF PoolInv
<1>1. /\ at'[w] = Idle /\ Idle.pc = "idle" /\ Idle.queue = 0
      /\ \A v \in Worker : v # w => at'[v] = at[v]
  BY DEF Types, CallTypes, Idle
<1>2. /\ OtherQueuesSame(p) /\ Registered' = Registered /\ Pausers(p)' = Pausers(p)
      /\ \A v \in Worker : v # w => Phase(v, p)' = Phase(v, p)
                                    /\ SignalAt(v, p)' = SignalAt(v, p)
  BY <1>1, OtherQueuesOfWorker
<1>3. Phase(w, p) \in {"execute", "batch"} /\ Phase(w, p)' = "none"
  BY <1>1 DEF Phase, Serving
<1>4. /\ JobsAt(p) = {} /\ IsScheduled(p)
      /\ \A v \in Worker : v # w => Phase(v, p) = "none"
  BY <1>3 DEF QueuesRight, QueueRight, OnePlace, StateRight, HasCallback
<1>5. CallTypes' /\ BatchesRight' /\ CallsRight'
  BY <1>1, IdleWork, WorkerMoves
<1>6. /\ CountingDown' = CountingDown /\ \A u \in Thread : Arriving(u)' = Arriving(u)
      /\ \A v \in Worker : at'[v].pc = "arrive" =>
              at[v].pc = "arrive" /\ at'[v].signal = at[v].signal
  BY <1>1 DEF CountingDown, Arriving
<1>7. \A v \in Worker : Phase(v, p)' = "none"
  BY <1>2, <1>3, <1>4
<1> QED BY <1>2, <1>3, <1>4, <1>5, <1>6, <1>7

LEMMA SetPausedKeeps ==
    ASSUME PoolInv, NEW w \in Worker, NEW p \in Queue, p = at[w].queue,
           at[w].pc \in {"execute", "finish"}, d_runState[p] = "PAUSING",
           setPaused(w, p),
           d_processor' = d_processor \/ d_processor' = [d_processor EXCEPT ![p] = None],
           UNCHANGED <<registryVars, d_lock, d_numExecuted, d_numEnqueued,
                       d_numDeleted, d_list, d_batchSize, d_enqueueState,
                       d_pauseCount, d_batch, pc, ptr, step, latch, scene, held>>
    PROVE  PoolInv'
<1> USE DEF PoolInv
<1>1. /\ d_runState' = [d_runState EXCEPT ![p] = "PAUSED"]
      /\ IF IsDeleting(p)
         THEN Submit(<<Head(d_list[p])>>) /\ UNCHANGED d_numActiveQueues
         ELSE d_numActiveQueues' = d_numActiveQueues - 1 /\ UNCHANGED poolVars
      /\ at' = [at EXCEPT ![w] = Idle]
      /\ woken' \subseteq Thread
  BY DEF setPaused, IsDeleting, Broadcast, Types, OtherTypes
<1>2. QueueRight(p) /\ IsScheduled(p) /\ Active(p) /\ enabled /\ refused = FALSE
  BY ActiveEnabled DEF QueuesRight, IsScheduled, Active
<1>3. IsDeleting(p) => /\ Head(d_list[p]) \in Deletions(p)
                       /\ Head(d_list[p]) \in CallbackSet
                       /\ Head(d_list[p]).queue = p
  BY <1>2, CallbackKinds DEF QueueRight, ListRight
<1>4. JobsAt(p) = {}
  <2>1. Phase(w, p) # "none"
    BY DEF Phase, Serving
  <2> QED BY <2>1, <1>2 DEF QueueRight, OnePlace
<1>5. /\ JobsRight' /\ enabled' = enabled /\ refused' = refused
      /\ JobsAt(p)' = IF IsDeleting(p) THEN {Head(d_list[p])} ELSE {}
      /\ \A q \in Queue : q # p => JobsAt(q)' = JobsAt(q)
  <2>1. CASE IsDeleting(p)
    <3>1. PICK b \in CallbackSet : b = Head(d_list[p]) /\ b.queue = p
      BY <2>1, <1>3
    <3>2. Submit(<<b>>) /\ b \notin ToSet(jobs)
      BY <2>1, <3>1, <1>1, <1>4 DEF JobsAt
    <3>3. /\ JobsRight' /\ enabled' = enabled /\ refused' = refused
          /\ JobsAt(b.queue)' = JobsAt(b.queue) \cup {b}
          /\ \A q \in Queue : q # b.queue => JobsAt(q)' = JobsAt(q)
      BY <3>2, <1>2, SubmitOne
    <3>4. JobsAt(p)' = JobsAt(p) \cup {b}
      BY <3>1, <3>2, <1>2, SubmitOne
    <3> QED BY <2>1, <3>1, <3>3, <3>4, <1>4
  <2>2. CASE ~IsDeleting(p)
    BY <2>2, <1>1, <1>4 DEF poolVars, JobsRight, JobsAt
  <2> QED BY <2>1, <2>2
<1>6. NoMove
  BY DEF NoMove
<1>7. /\ OtherQueuesSame(p) /\ Registered' = Registered /\ Pausers(p)' = Pausers(p)
      /\ Phase(w, p) \in {"execute", "batch"}
      /\ \A v \in Worker : v # w => Phase(v, p) = "none"
      /\ \A v \in Worker : Phase(v, p)' = "none"
      /\ CallTypes' /\ BatchesRight' /\ CallsRight'
      /\ CountingDown' = CountingDown /\ \A u \in Thread : Arriving(u)' = Arriving(u)
      /\ \A v \in Worker : at'[v].pc = "arrive" =>
            at[v].pc = "arrive" /\ at'[v].signal = at[v].signal
  <2>1. OthersLeft(p)
    <3>1. \A q \in Queue \ {p} : d_runState'[q] = d_runState[q]
                                 /\ d_processor'[q] = d_processor[q]
      BY <1>1 DEF Types, QueueTypes
    <3> QED BY <3>1, <1>5 DEF OthersLeft, IsDeleting, registryVars
  <2>2. d_queueRegistry' = d_queueRegistry /\ program' = program
    BY DEF registryVars, scene
  <2> QED BY <2>1, <2>2, <1>1, <1>6, WorkerEnds
<1>8. /\ d_runState'[p] = "PAUSED" /\ ~IsScheduled(p)'
      /\ (IsDeleting(p)' <=> IsDeleting(p)) /\ d_list'[p] = d_list[p]
      /\ free' = free /\ d_pauseCount'[p] = d_pauseCount[p] /\ held'[p] = held[p]
  BY <1>1 DEF Types, QueueTypes, IsScheduled, IsDeleting, registryVars
<1>9. ~HasCallback(p)' /\ (HasDeletion(p)' <=> IsDeleting(p))
  <2>1. Callback(p)' = Callback(p) /\ Deletions(p)' = Deletions(p)
    BY DEF Callback, Deletions, Deletion
  <2> QED BY <2>1, <1>3, <1>5, <1>7, CallbackKinds DEF HasCallback, HasDeletion
<1>10. QueueRight(p)'
  <2>1. OnePlace(p)'
    BY <1>5, <1>7 DEF OnePlace
  <2>2. StateRight(p)'
    BY <1>7, <1>8, <1>9 DEF StateRight
  <2>3. ListRight(p)'
    BY <1>2, <1>7, <1>8, <1>9 DEF ListRight, HasCallback, QueueRight
  <2>4. KnownRight(p)'
    BY <1>2, <1>7, <1>8 DEF KnownRight, QueueRight
  <2>5. PauseRight(p)'
    BY <1>2, <1>7, <1>8 DEF PauseRight, QueueRight
  <2> QED BY <2>1, <2>2, <2>3, <2>4, <2>5 DEF QueueRight
<1>11. ASSUME NEW u \in Thread
       PROVE  DeletionFor(p, u)' <=> DeletionFor(p, u)
  <2>1. Deletion(p, u)' = Deletion(p, u)
    BY DEF Deletion
  <2>2. DeletionFor(p, u) <=> IsDeleting(p) /\ Head(d_list[p]) = Deletion(p, u)
    BY <1>2, <1>4, <1>7 DEF DeletionFor
  <2>3. DeletionFor(p, u)' <=> IsDeleting(p) /\ Head(d_list[p]) = Deletion(p, u)
    BY <2>1, <1>5, <1>7, <1>8 DEF DeletionFor
  <2> QED BY <2>2, <2>3
<1>12. Active(p)' <=> IsDeleting(p)
  BY <1>8 DEF Active
<1>13. QueueTypes' /\ RegistryTypes' /\ OtherTypes'
  <2>1. QueueTypes'
    BY <1>1 DEF Types, QueueTypes
  <2>2. RegistryTypes'
    BY DEF Types, RegistryTypes, registryVars
  <2>3. d_numActiveQueues' \in Int
    BY <1>1 DEF Types, OtherTypes
  <2> QED BY <2>1, <2>2, <2>3, <1>1, <1>5 DEF Types, OtherTypes, scene
<1>14. JobsCounted'
  <2>1. JobsIn' = JobsIn /\ Uncounted' = Uncounted
    BY DEF JobsIn, IsDeleting, Uncounted
  <2> QED BY <2>1, SameCounters DEF scene
<1>15. UNCHANGED <<d_state, d_lock, enabled, refused, program,
                   d_threadPoolIsOwned, d_queueRegistry, latch>>
  BY <1>5 DEF registryVars, scene
<1>16. \/ Active(p)' /\ Active(p) /\ d_numActiveQueues' = d_numActiveQueues
       \/ ~Active(p)' /\ Active(p) /\ d_numActiveQueues' = d_numActiveQueues - 1
  BY <1>1, <1>2, <1>12
<1> QED BY <1>5, <1>6, <1>7, <1>8, <1>10, <1>11, <1>13, <1>14, <1>15, <1>16,
           WorkerStepKeeps

LEMMA ExecuteFrontPausedKeeps ==
    ASSUME PoolInv, NEW w \in Worker, executeFrontPaused(w)
    PROVE  PoolInv'
<1>1. PICK p \in Queue : p = at[w].queue
  BY ServedQueue DEF executeFrontPaused
<1>2. /\ at[w].pc = "execute" /\ d_runState[p] = "PAUSING" /\ setPaused(w, p)
      /\ UNCHANGED <<registryVars, d_lock, d_numExecuted, d_numEnqueued,
                     d_numDeleted, d_list, d_batchSize, d_enqueueState,
                     d_pauseCount, d_processor, d_batch, pc, ptr, step,
                     latch, scene, held>>
  BY <1>1 DEF executeFrontPaused
<1> QED BY <1>1, <1>2, SetPausedKeeps

\* A batch of a queue that runs on has been run.
LEMMA BatchOfScheduledKeeps ==
    ASSUME PoolInv, NEW w \in Worker, NEW p \in Queue, p = at[w].queue,
           at[w].pc = "finish", d_runState[p] = "SCHEDULED",
           at' = [at EXCEPT ![w] = Idle], d_processor' = [d_processor EXCEPT ![p] = None],
           \/ /\ d_list[p] # <<>> /\ Submit(<<Callback(p)>>)
              /\ UNCHANGED <<d_runState, d_numActiveQueues>>
           \/ /\ d_list[p] = <<>>
              /\ d_runState' = [d_runState EXCEPT ![p] = "NOT_SCHEDULED"]
              /\ d_numActiveQueues' = d_numActiveQueues - 1
              /\ UNCHANGED poolVars,
           UNCHANGED <<registryVars, d_lock, d_numExecuted, d_numEnqueued,
                       d_numDeleted, d_list, d_batchSize, d_enqueueState,
                       d_pauseCount, d_batch, pc, ptr, step, waitVars, scene, held>>
    PROVE  PoolInv'
<1> USE DEF PoolInv
<1>1. /\ QueueRight(p) /\ IsScheduled(p) /\ Active(p) /\ enabled /\ refused = FALSE
      /\ ~IsDeleting(p) /\ held[p] = "no"
  <2>1. QueueRight(p) /\ IsScheduled(p) /\ Active(p) /\ enabled /\ refused = FALSE
    BY ActiveEnabled DEF QueuesRight, IsScheduled, Active
  <2> QED BY <2>1 DEF QueueRight, StateRight, PauseRight
<1>2. JobsAt(p) = {}
  <2>1. Phase(w, p) # "none"
    BY DEF Phase, Serving
  <2> QED BY <2>1, <1>1 DEF QueueRight, OnePlace
<1>3. /\ JobsRight' /\ enabled' = enabled /\ refused' = refused
      /\ JobsAt(p)' = IF d_list[p] # <<>> THEN {Callback(p)} ELSE {}
      /\ \A q \in Queue : q # p => JobsAt(q)' = JobsAt(q)
  <2>1. CASE d_list[p] # <<>>
    <3>1. PICK b \in CallbackSet : b = Callback(p) /\ b.queue = p
      BY CallbackKinds
    <3>2. Submit(<<b>>) /\ b \notin ToSet(jobs)
      BY <2>1, <3>1, <1>2 DEF JobsAt
    <3>3. /\ JobsRight' /\ enabled' = enabled /\ refused' = refused
          /\ JobsAt(b.queue)' = JobsAt(b.queue) \cup {b}
          /\ \A q \in Queue : q # b.queue => JobsAt(q)' = JobsAt(q)
      BY <3>2, <1>1, SubmitOne
    <3>4. JobsAt(p)' = JobsAt(p) \cup {b}
      BY <3>1, <3>2, <1>1, SubmitOne
    <3> QED BY <2>1, <3>1, <3>3, <3>4, <1>2
  <2>2. CASE d_list[p] = <<>>
    BY <2>2, <1>2 DEF poolVars, JobsRight, JobsAt
  <2> QED BY <2>1, <2>2
<1>4. NoMove
  BY DEF NoMove
<1>5. /\ OtherQueuesSame(p) /\ Registered' = Registered /\ Pausers(p)' = Pausers(p)
      /\ Phase(w, p) \in {"execute", "batch"}
      /\ \A v \in Worker : v # w => Phase(v, p) = "none"
      /\ \A v \in Worker : Phase(v, p)' = "none"
      /\ CallTypes' /\ BatchesRight' /\ CallsRight'
      /\ CountingDown' = CountingDown /\ \A u \in Thread : Arriving(u)' = Arriving(u)
      /\ \A v \in Worker : at'[v].pc = "arrive" =>
            at[v].pc = "arrive" /\ at'[v].signal = at[v].signal
  <2>1. OthersLeft(p)
    <3>1. \A q \in Queue \ {p} : d_runState'[q] = d_runState[q]
                                 /\ d_processor'[q] = d_processor[q]
      BY DEF Types, QueueTypes
    <3> QED BY <3>1, <1>3 DEF OthersLeft, IsDeleting, registryVars
  <2>2. d_queueRegistry' = d_queueRegistry /\ program' = program
    BY DEF registryVars, scene
  <2>3. at[w].pc \in {"execute", "finish"} /\ at' = [at EXCEPT ![w] = Idle]
        /\ d_batch' = d_batch /\ p = at[w].queue
    OBVIOUS
  <2> QED BY <2>1, <2>2, <2>3, <1>4, WorkerEnds, Zenon
<1>6. /\ d_runState'[p] = IF d_list[p] # <<>> THEN "SCHEDULED" ELSE "NOT_SCHEDULED"
      /\ ~IsDeleting(p)' /\ d_list'[p] = d_list[p] /\ d_list[p] \in Seq(Job)
      /\ free' = free /\ d_pauseCount'[p] = d_pauseCount[p] /\ held'[p] = held[p]
  BY <1>1 DEF Types, QueueTypes, IsDeleting, registryVars, QueueRight, ListRight
<1>7. (HasCallback(p)' <=> d_list[p] # <<>>) /\ ~HasDeletion(p)'
      /\ (IsScheduled(p)' <=> d_list[p] # <<>>)
  <2>1. Callback(p)' = Callback(p) /\ Deletions(p)' = Deletions(p)
    BY DEF Callback, Deletions, Deletion
  <2>2. IsScheduled(p)' <=> d_list[p] # <<>>
    BY <1>6 DEF IsScheduled
  <2> QED BY <2>1, <2>2, <1>3, <1>5, CallbackKinds DEF HasCallback, HasDeletion
<1>8. QueueRight(p)'
  <2>1. OnePlace(p)'
    BY <1>3, <1>5 DEF OnePlace
  <2>2. StateRight(p)'
    BY <1>5, <1>6, <1>7 DEF StateRight
  <2>3. ListRight(p)'
    BY <1>3, <1>5, <1>6 DEF ListRight
  <2>4. KnownRight(p)'
    BY <1>1, <1>5, <1>6 DEF KnownRight, QueueRight
  <2>5. PauseRight(p)'
    BY <1>1, <1>5, <1>6 DEF PauseRight, QueueRight
  <2> QED BY <2>1, <2>2, <2>3, <2>4, <2>5 DEF QueueRight
<1>9. \A u \in Thread : DeletionFor(p, u)' <=> DeletionFor(p, u)
  <2>1. \A u \in Thread : Callback(p) # Deletion(p, u) /\ Deletion(p, u)' = Deletion(p, u)
    BY DEF Callback, Deletion
  <2>2. \A u \in Thread : ~DeletionFor(p, u)
    BY <1>1, NotDeleting DEF Types, QueueRight
  <2>3. \A u \in Thread : ~DeletionFor(p, u)'
    BY <2>1, <1>3, <1>5, <1>6 DEF DeletionFor
  <2> QED BY <2>2, <2>3
<1>10. QueueTypes' /\ RegistryTypes' /\ OtherTypes'
  <2>1. QueueTypes'
    <3>1. d_runState' \in
             [Queue -> {"NOT_SCHEDULED", "SCHEDULED", "PAUSING", "PAUSED"}]
      <4>1. \/ d_runState' = d_runState
            \/ d_runState' = [d_runState EXCEPT ![p] = "NOT_SCHEDULED"]
        OBVIOUS
      <4>2. d_runState \in
               [Queue -> {"NOT_SCHEDULED", "SCHEDULED", "PAUSING", "PAUSED"}]
        BY DEF Types, QueueTypes
      <4> HIDE DEF PoolInv
      <4> QED BY <4>1, <4>2
    <3>2. d_processor' \in [Queue -> Worker \cup {None}]
      BY DEF Types, QueueTypes
    <3> QED BY <3>1, <3>2 DEF Types, QueueTypes
  <2>2. RegistryTypes'
    BY DEF Types, RegistryTypes, registryVars
  <2>3. d_numActiveQueues' \in Int
    BY DEF Types, OtherTypes
  <2> QED BY <2>1, <2>2, <2>3, <1>3 DEF Types, OtherTypes, scene, waitVars
<1>11. JobsCounted'
  <2>1. JobsIn' = JobsIn /\ Uncounted' = Uncounted
    BY DEF JobsIn, IsDeleting, Uncounted
  <2> QED BY <2>1, SameCounters DEF scene
<1>12. UNCHANGED <<d_state, d_lock, enabled, refused, program,
                   d_threadPoolIsOwned, d_queueRegistry, latch>>
  BY <1>3 DEF registryVars, scene, waitVars
<1>13. \/ Active(p)' /\ Active(p) /\ d_numActiveQueues' = d_numActiveQueues
       \/ ~Active(p)' /\ Active(p) /\ d_numActiveQueues' = d_numActiveQueues - 1
  BY <1>1, <1>6, <1>7 DEF Active
<1>14. d_runState'[p] \in {"NOT_SCHEDULED", d_runState[p]}
       /\ (IsDeleting(p)' <=> IsDeleting(p))
  BY <1>1, <1>6
<1> QED BY <1>3, <1>4, <1>5, <1>8, <1>9, <1>10, <1>11, <1>12, <1>13, <1>14,
           WorkerStepKeeps

LEMMA FinishBatchKeeps ==
    ASSUME PoolInv, NEW w \in Worker, finishBatch(w)
    PROVE  PoolInv'
<1>1. PICK p \in Queue : p = at[w].queue
  BY ServedQueue DEF finishBatch
<1>2. /\ at[w].pc = "finish" /\ d_processor' = [d_processor EXCEPT ![p] = None]
      /\ UNCHANGED <<registryVars, d_lock, d_numExecuted, d_numEnqueued,
                   d_numDeleted, d_list, d_batchSize, d_enqueueState,
                   d_pauseCount, d_batch, pc, ptr, step, latch, scene, held>>
  BY <1>1 DEF finishBatch
<1>3. IsScheduled(p)
  <2>1. Phase(w, p) = "batch"
    BY <1>1, <1>2 DEF Phase, Serving
  <2> QED BY <2>1 DEF PoolInv, QueuesRight, QueueRight, StateRight, HasCallback
<1>4. CASE d_runState[p] = "SCHEDULED"
  BY <1>1, <1>2, <1>4, BatchOfScheduledKeeps DEF finishBatch, waitVars
<1>5. CASE d_runState[p] # "SCHEDULED"
  <2>1. d_runState[p] = "PAUSING" /\ setPaused(w, p)
    BY <1>1, <1>3, <1>5 DEF IsScheduled, finishBatch
  <2> QED BY <2>1, <1>1, <1>2, SetPausedKeeps
<1> QED BY <1>4, <1>5

LEMMA BatchTaken ==
    ASSUME NEW S, NEW s \in Seq(S), s # <<>>, NEW n \in Nat \ {0},
           NEW count, count = IF n < Len(s) THEN n ELSE Len(s)
    PROVE  /\ count \in 1 .. Len(s)
           /\ SubSeq(s, 1, count) \in Seq(S) /\ SubSeq(s, 1, count) # <<>>
           /\ SubSeq(s, count + 1, Len(s)) \in Seq(S)
           /\ Len(SubSeq(s, count + 1, Len(s))) = Len(s) - count
<1>1. Len(s) \in Nat /\ Len(s) > 0
  BY EmptySeq
<1>2. count \in 1 .. Len(s)
  BY <1>1
<1>3. SubSeq(s, 1, count) \in Seq(S) /\ Len(SubSeq(s, 1, count)) = count
  BY <1>1, <1>2, SubSeqProperties
<1>4. /\ SubSeq(s, count + 1, Len(s)) \in Seq(S)
      /\ Len(SubSeq(s, count + 1, Len(s))) = Len(s) - count
  <2>1. PICK m \in Int, k \in Int : m = count + 1 /\ k = Len(s)
    BY <1>1, <1>2
  <2>2. \A i \in m .. k : s[i] \in S
    BY <1>1, <1>2, <2>1
  <2>3. /\ SubSeq(s, m, k) \in Seq(S)
        /\ Len(SubSeq(s, m, k)) = IF m <= k THEN k - m + 1 ELSE 0
    <3>1. SubSeq(s, m, k) \in Seq(S)
      BY <2>2, SubSeqProperties
    <3>2. CASE m <= k
      BY <2>2, <3>2, SubSeqProperties
    <3>3. CASE ~(m <= k)
      BY <2>2, <3>3, SubSeqProperties
    <3> QED BY <3>1, <3>2, <3>3
  <2>4. (IF m <= k THEN k - m + 1 ELSE 0) = k - count
    <3>1. count \in Int /\ count <= k
      BY <1>1, <1>2, <2>1
    <3>2. CASE count + 1 <= k
      BY <3>1, <3>2, <2>1
    <3>3. CASE ~(count + 1 <= k)
      BY <3>1, <3>3, <2>1
    <3> QED BY <3>2, <3>3
  <2>5. Len(SubSeq(s, m, k)) = Len(s) - count
    BY <2>1, <2>3, <2>4, Zenon
  <2> QED BY <2>1, <2>3, <2>5, Zenon
<1>5. SubSeq(s, 1, count) # <<>>
  BY <1>2, <1>3
<1> QED BY <1>2, <1>3, <1>4, <1>5

LEMMA ExecuteFrontKeeps ==
    ASSUME PoolInv, NEW w \in Worker, executeFront(w)
    PROVE  PoolInv'
<1> USE DEF PoolInv
<1>1. PICK p \in Queue : p = at[w].queue
  BY ServedQueue DEF executeFront
<1>2. at[w].pc = "execute" /\ d_runState[p] # "PAUSING" /\ Phase(w, p) = "execute"
  BY <1>1 DEF executeFront, Phase, Serving
<1>3. QueueRight(p)
  BY DEF QueuesRight
<1>4. /\ IsScheduled(p) /\ d_runState[p] = "SCHEDULED" /\ ~IsDeleting(p)
      /\ d_list[p] \in Seq(Job) /\ d_list[p] # <<>> /\ held[p] = "no"
      /\ JobsAt(p) = {} /\ \A v \in Worker : v # w => Phase(v, p) = "none"
  <2>1. IsScheduled(p)
    BY <1>2, <1>3 DEF QueueRight, StateRight, HasCallback
  <2>2. d_runState[p] = "SCHEDULED" /\ ~IsDeleting(p)
    BY <2>1, <1>2, <1>3 DEF IsScheduled, QueueRight, StateRight
  <2> QED BY <2>1, <2>2, <1>2, <1>3
          DEF QueueRight, ListRight, PauseRight, OnePlace
<1>5. PICK count : count = IF d_batchSize[p] < Len(d_list[p]) THEN d_batchSize[p]
                           ELSE Len(d_list[p])
  OBVIOUS
<1>6. /\ d_numExecuted' = d_numExecuted + count
      /\ d_batch' = [d_batch EXCEPT ![p] = SubSeq(d_list[p], 1, count)]
      /\ d_list' = [d_list EXCEPT ![p] = SubSeq(d_list[p], count + 1, Len(d_list[p]))]
      /\ d_processor' = [d_processor EXCEPT ![p] = w]
      /\ UNCHANGED <<registryVars, d_lock, d_numActiveQueues, d_numEnqueued,
                     d_numDeleted, d_batchSize, d_enqueueState, d_runState,
                     d_pauseCount, poolVars, pc, ptr, step, waitVars,
                     scene, held>>
  BY <1>1, <1>4, <1>5 DEF executeFront, IsDeleting
<1>7. PICK r \in WorkSet : /\ r.pc = "batch" /\ r.queue = p /\ r.signal = at[w].signal
                           /\ at' = [at EXCEPT ![w] = r]
  <2>1. at[w] \in WorkSet /\ "batch" \in WorkerPC
    BY DEF Types, CallTypes, WorkerPC
  <2>2. at' = [at EXCEPT ![w] = [at[w] EXCEPT !.pc = "batch"]]
    BY DEF executeFront, Types, CallTypes
  <2> QED BY <2>1, <2>2, <1>1, NewPlace
<1>8. NoMove /\ at'[w] = r /\ \A v \in Worker : v # w => at'[v] = at[v]
  BY <1>6, <1>7 DEF NoMove, Types, CallTypes
<1>9. /\ count \in Nat
      /\ SubSeq(d_list[p], 1, count) \in Seq(Job) /\ SubSeq(d_list[p], 1, count) # <<>>
      /\ SubSeq(d_list[p], count + 1, Len(d_list[p])) \in Seq(Job)
      /\ Len(SubSeq(d_list[p], count + 1, Len(d_list[p]))) = Len(d_list[p]) - count
      /\ Len(d_list[p]) \in Nat
  <2>1. d_batchSize[p] \in Nat \ {0}
    BY DEF Types, QueueTypes
  <2>2. /\ count \in 1 .. Len(d_list[p])
        /\ SubSeq(d_list[p], 1, count) \in Seq(Job) /\ SubSeq(d_list[p], 1, count) # <<>>
        /\ SubSeq(d_list[p], count + 1, Len(d_list[p])) \in Seq(Job)
        /\ Len(SubSeq(d_list[p], count + 1, Len(d_list[p]))) = Len(d_list[p]) - count
    BY <2>1, <1>4, <1>5, BatchTaken
  <2>3. Len(d_list[p]) \in Nat
    BY <1>4
  <2> QED BY <2>2, <2>3
<1>10. d_list'[p] \in Seq(Job) /\ Len(d_list'[p]) = Len(d_list[p]) - count
       /\ d_batch'[p] \in Seq(Job) /\ d_batch'[p] # <<>> /\ d_processor'[p] = w
       /\ \A q \in Queue \ {p} : /\ d_list'[q] = d_list[q] /\ d_batch'[q] = d_batch[q]
                                 /\ d_processor'[q] = d_processor[q]
  BY <1>6, <1>9 DEF Types, QueueTypes, CallTypes
<1>11. CallTypes' /\ BatchesRight' /\ CallsRight'
  <2>1. CallTypes'
    <3>1. at' \in [Worker -> WorkSet]
      BY <1>7 DEF Types, CallTypes
    <3>2. d_batch' \in [Queue -> Seq(Job)]
      BY <1>6, <1>9 DEF Types, CallTypes
    <3>3. \A v \in Worker : at'[v].pc \in {"idle", "foreign"} <=> at'[v].queue = 0
      BY <1>7, <1>8, Constants DEF Types, CallTypes
    <3> QED BY <3>1, <3>2, <3>3, <1>8 DEF Types, CallTypes, NoMove
  <2>2. ASSUME NEW v \in Worker, v # w, at[v].pc = "batch" PROVE at[v].queue # p
    <3>1. Phase(v, p) = "none"
      BY <2>2, <1>4
    <3> QED BY <3>1, <2>2 DEF Phase, Serving
  <2>3. BatchesRight'
    <3>1. ASSUME NEW q \in Queue, d_batch'[q] # <<>>
          PROVE  \E v \in Worker : at'[v].pc = "batch" /\ at'[v].queue = q
      <4>1. CASE q = p
        BY <4>1, <1>7, <1>8
      <4>2. CASE q # p
        <5>1. PICK v \in Worker : at[v].pc = "batch" /\ at[v].queue = q
          BY <3>1, <4>2, <1>10 DEF BatchesRight
        <5> QED BY <5>1, <1>2, <1>8
      <4> QED BY <4>1, <4>2
    <3>2. ASSUME NEW v \in Worker, at'[v].pc = "batch" PROVE d_batch'[at'[v].queue] # <<>>
      <4>1. CASE v = w
        BY <4>1, <1>7, <1>8, <1>10
      <4>2. CASE v # w
        <5>1. at'[v] = at[v] /\ at[v].queue # p /\ at[v].queue \in Queue
          BY <3>2, <4>2, <2>2, <1>8, ServedQueue
        <5> QED BY <5>1, <3>2, <1>10 DEF BatchesRight
      <4> QED BY <4>1, <4>2
    <3> QED BY <3>1, <3>2 DEF BatchesRight
  <2>4. CallsRight'
    <3>1. step' = step /\ pc' = pc /\ ptr' = ptr /\ program' = program
      BY <1>6 DEF scene
    <3>2. \A v \in Worker : pc'[v] # "idle" => at'[v].pc = "batch"
      BY <3>1, <1>7, <1>8 DEF CallsRight
    <3> QED BY <3>1, <3>2 DEF CallsRight
  <2> QED BY <2>1, <2>3, <2>4
<1>12. JobsRight' /\ \A q \in Queue : JobsAt(q)' = JobsAt(q)
  BY <1>6 DEF poolVars, JobsRight, JobsAt
<1>13. /\ OtherQueuesSame(p) /\ Registered' = Registered /\ Pausers(p)' = Pausers(p)
       /\ \A v \in Worker : v # w => Phase(v, p)' = Phase(v, p)
                                     /\ SignalAt(v, p)' = SignalAt(v, p)
  <2>1. OthersLeft(p)
    BY <1>6, <1>10, <1>12 DEF OthersLeft, IsDeleting, registryVars
  <2>2. at[w].queue \in {p, 0} /\ r.queue \in {p, 0} /\ d_queueRegistry' = d_queueRegistry
    BY <1>1, <1>6, <1>7 DEF registryVars
  <2> QED BY <1>7, <1>8, <2>1, <2>2, OtherQueuesOfWorker
<1>14. /\ Phase(w, p)' = "batch" /\ \A v \in Worker : v # w => Phase(v, p)' = "none"
       /\ JobsAt(p)' = {}
  BY <1>4, <1>7, <1>8, <1>12, <1>13 DEF Phase, Serving
<1>15. /\ d_runState'[p] = "SCHEDULED" /\ IsScheduled(p)' /\ ~IsDeleting(p)'
       /\ free' = free /\ d_pauseCount'[p] = d_pauseCount[p] /\ held'[p] = "no"
  BY <1>4, <1>6 DEF IsScheduled, IsDeleting, registryVars
<1>16. QueueRight(p)'
  <2>1. OnePlace(p)'
    BY <1>14 DEF OnePlace
  <2>2. HasCallback(p)' /\ ~HasDeletion(p)'
    BY <1>14 DEF HasCallback, HasDeletion
  <2>3. StateRight(p)'
    BY <2>2, <1>10, <1>14, <1>15 DEF StateRight
  <2>4. ListRight(p)'
    BY <1>10, <1>14, <1>15 DEF ListRight
  <2>5. KnownRight(p)'
    BY <1>3, <1>4, <1>13, <1>15 DEF KnownRight, QueueRight
  <2>6. PauseRight(p)'
    BY <1>3, <1>13, <1>14, <1>15 DEF PauseRight, QueueRight
  <2> QED BY <2>1, <2>3, <2>4, <2>5, <2>6 DEF QueueRight
<1>17. \A u \in Thread : DeletionFor(p, u)' <=> DeletionFor(p, u)
  <2>1. \A u \in Thread : ~DeletionFor(p, u)
    BY <1>3, <1>4, NotDeleting DEF Types, QueueRight
  <2>2. \A u \in Thread : ~DeletionFor(p, u)'
    BY <1>14, <1>15 DEF DeletionFor
  <2> QED BY <2>1, <2>2
<1>18. QueueTypes' /\ RegistryTypes' /\ OtherTypes'
  <2>1. QueueTypes'
    <3>1. d_list' \in [Queue -> Seq(Job \cup CallbackSet)]
      <4>1. SubSeq(d_list[p], count + 1, Len(d_list[p])) \in Seq(Job \cup CallbackSet)
        BY <1>9
      <4> QED BY <4>1, <1>6 DEF Types, QueueTypes
    <3>2. CallbackSet' = CallbackSet
      BY DEF CallbackSet, Deletions, Deletion, Callback
    <3> QED BY <3>1, <3>2, <1>6 DEF Types, QueueTypes
  <2>2. RegistryTypes'
    BY <1>6 DEF Types, RegistryTypes, registryVars
  <2>3. OtherTypes'
    BY <1>6, <1>9 DEF Types, OtherTypes, poolVars, waitVars, scene
  <2> QED BY <2>1, <2>2, <2>3
<1>19. JobsCounted'
  <2>1. /\ Cardinality(JobsIn') - Share(p)' = Cardinality(JobsIn) - Share(p)
        /\ Cardinality(JobsIn) \in Int /\ Cardinality(JobsIn') \in Int
    BY <1>13, <1>18, OneQueueJobs DEF Types
  <2>2. Share(p) = Len(d_list[p])
    BY <1>4 DEF Share, Row, Kept
  <2>3. Share(p)' = Len(d_list[p]) - count
    BY <1>10, <1>15 DEF Share, Row, Kept
  <2>4. Cardinality(JobsIn') = Cardinality(JobsIn) - count
    BY <2>1, <2>2, <2>3, <1>9
  <2>5. Uncounted' = Uncounted /\ Cardinality(Uncounted) \in Nat
    <3>1. IsFiniteSet(Uncounted)
      BY Constants, FS_Subset DEF Uncounted
    <3> QED BY <3>1, <1>6, FS_CardinalityType DEF Uncounted
  <2>6. /\ reported' = reported /\ d_numEnqueued' = d_numEnqueued
        /\ d_numDeleted' = d_numDeleted /\ d_numExecuted' = d_numExecuted + count
    BY <1>6 DEF scene
  <2>7. /\ reported \in Int /\ d_numExecuted \in Nat /\ d_numEnqueued \in Nat
        /\ d_numDeleted \in Nat
    BY DEF Types, OtherTypes
  <2>8. reported + d_numEnqueued - d_numExecuted - d_numDeleted
            + Cardinality(Uncounted) = Cardinality(JobsIn)
    BY DEF JobsCounted
  <2>9. reported' + d_numEnqueued' - d_numExecuted' - d_numDeleted'
            + Cardinality(Uncounted') = Cardinality(JobsIn')
    BY <2>1, <2>4, <2>5, <2>6, <2>7, <2>8, <1>9
  <2> QED BY <2>9 DEF JobsCounted
<1>20. /\ CountingDown' = CountingDown /\ \A u \in Thread : Arriving(u)' = Arriving(u)
       /\ \A v \in Worker : at'[v].pc = "arrive" =>
             at[v].pc = "arrive" /\ at'[v].signal = at[v].signal
  BY <1>2, <1>7, <1>8 DEF CountingDown, Arriving
<1>21. UNCHANGED <<d_state, d_lock, enabled, refused, program, d_numActiveQueues,
                   d_threadPoolIsOwned, d_queueRegistry, latch, d_runState>>
  BY <1>6 DEF registryVars, scene, waitVars, poolVars
<1>22. Active(p)' /\ Active(p) /\ (IsDeleting(p)' <=> IsDeleting(p))
  BY <1>4, <1>15 DEF Active
<1> QED BY <1>8, <1>11, <1>12, <1>13, <1>16, <1>17, <1>18, <1>19, <1>20, <1>21,
           <1>22, WorkerStepKeeps

-----------------------------------------------------------------------------
(* The thread that stops the pool *)

\* Thread t stops the pool, or is about to.
Stopping(t) == \/ pc[t] \in StopPC
               \/ pc[t] = "idle" /\ MayCall(t) /\ NextCall(t).op \in Stops

LEMMA ProgramStops ==
    ASSUME PoolInv, StopsRight
    PROVE  OneStops(program) /\ PausesEnd(program)
BY DEF StopsRight, PoolInv, Types, OtherTypes

LEMMA StopperCalls ==
    ASSUME PoolInv, StopsRight, NEW t \in Thread, Stopping(t)
    PROVE  /\ t \in Client /\ MayCall(t) /\ NextCall(t).op \in Stops
           /\ MakesCall(program, NextCall(t).op)
           /\ NextCall(t).op \in CallsOf(program, t)
<1> USE DEF PoolInv
<1>1. MayCall(t) /\ NextCall(t).op \in Stops
  <2>1. CASE pc[t] \in StopPC
    BY <2>1, InCall DEF StoppingRight, StopperRight, StopPC
  <2> QED BY <2>1 DEF Stopping
<1>2. MakesCall(program, NextCall(t).op)
  BY <1>1, NextCallType
<1>3. program \in Programs
  BY DEF Types, OtherTypes
<1>4. t \in Client
  <2> SUFFICES ASSUME t \in Worker PROVE FALSE
    BY DEF Thread
  <2>1. t \notin Client /\ at[t].pc = "batch" /\ at[t].queue \in Queue
    BY <1>1, Constants DEF MayCall, Types, CallTypes, WorkSet
  <2>2. d_batch[at[t].queue] # <<>> /\ d_batch[at[t].queue] \in Seq(Job)
    BY <2>1 DEF BatchesRight, Types, CallTypes
  <2>3. Head(d_batch[at[t].queue]) \in Job
    BY <2>2, HeadTailProperties
  <2> QED BY <2>1, <2>3, <1>1, ProgramStops DEF NextCall, OneStops
<1>5. NextCall(t).op \in CallsOf(program, t)
  <2>1. program[t] \in Seq(Calls) /\ step[t] \in Nat /\ step[t] < Len(program[t])
    BY <1>1, <1>3, <1>4, ProgramsAssumption DEF MayCall, Types, CallTypes
  <2>2. step[t] + 1 \in DOMAIN program[t]
    BY <2>1
  <2> QED BY <2>2, <1>4 DEF NextCall, CallsOf
<1> QED BY <1>1, <1>2, <1>4, <1>5

LEMMA OneStopper ==
    ASSUME PoolInv, StopsRight, NEW t \in Thread, NEW u \in Thread,
           Stopping(t), Stopping(u)
    PROVE  t = u
<1>1. /\ t \in Client /\ CallsOf(program, t) \cap Stops # {}
      /\ u \in Client /\ CallsOf(program, u) \cap Stops # {}
  BY StopperCalls
<1> QED BY <1>1, ProgramStops DEF OneStops

\* A thread that may write does so beside no stopped thread pool.
LEMMA NobodyDrains ==
    ASSUME PoolInv, CanWrite, NEW t \in Thread
    PROVE  pc[t] # "pool_drain"
BY Constants DEF PoolInv, StoppingRight, StopperRight, StopPC, CanWrite, NoLock

\* What the invariant says of the stopping thread, at the place it comes to.
PlaceRight(t, place) ==
    /\ place \in {"stop_wait", "stop_lock"} => NextCall(t).op = "stop"
    /\ place \notin {"stop_wait", "stop_lock", "pool_drain"} =>
          NextCall(t).op = "shutdown"
    /\ IF place = "pool_drain"
       THEN d_state' # "RUNNING" /\ d_lock'.writer = t /\ enabled' = FALSE
       ELSE d_state' = "STOPPING" /\ enabled' = TRUE
    /\ place \in {"stop_lock", "shutdown_delete", "shutdown_relock", "pool_drain"} =>
          AtRest
    /\ place = "shutdown_relock" => NoPause
    /\ place = "pool_drain" /\ MakesCall(program, "shutdown") => NoPause

LEMMA StopperMoves ==
    ASSUME PoolInv, StopsRight, NEW t \in Thread, Stopping(t), MoveRight, QuietQueues,
           NEW place \in CallPC \ {"count", "shutdown_latch"},
           pc' = [pc EXCEPT ![t] = place],
           pc[t] = "shutdown_latch" => latch[t] = 0,
           ptr' = ptr \/ ptr' = [ptr EXCEPT ![t] = 0],
           place \in StopPC => step' = step /\ PlaceRight(t, place),
           d_state' = "STOPPED" => AtRest /\ (MakesCall(program, "shutdown") => NoPause),
           enabled' = FALSE => /\ d_state' = "STOPPED" \/ place = "pool_drain"
                               /\ d_threadPoolIsOwned,
           d_state' \in {"RUNNING", "STOPPING", "STOPPED"}, enabled' \in BOOLEAN,
           d_lock' \in [readers : SUBSET Thread, writer : Thread \cup {None}],
           UNCHANGED <<d_nextId, counterVars, d_enqueueState, d_batchSize, refused,
                       waitVars, scene>>
    PROVE  PoolInv'
<1> USE DEF PoolInv
<1>1. /\ JobsRight' /\ QueuesRight' /\ IdsRight' /\ PausesRight'
      /\ LatchesRight' /\ ActiveCounted' /\ JobsIn' = JobsIn
      /\ ActiveOnes' = ActiveOnes
      /\ \A u \in Thread : ptr'[u] = ptr[u] \/ ptr'[u] = 0
      /\ \A u \in Thread : pc'[u] = pc[u] \/ u = t
  <2>1. pc[t] \in {"latch", "shutdown_latch"} => latch[t] = 0
    BY DEF Stopping, StopPC
  <2>2. latch' = latch /\ program' = program /\ d_numActiveQueues' = d_numActiveQueues
    BY DEF waitVars, scene, counterVars
  <2> QED BY <2>1, <2>2, MovesKeep
<1>2. Registered' = Registered /\ d_runState' = d_runState /\ program' = program
  BY DEF QuietQueues, Registered, scene
<1>3. (AtRest => AtRest') /\ (NoPause => NoPause')
  BY <1>1, <1>2 DEF AtRest, NoPause
<1>4. MakesCall(program, "shutdown")' <=> MakesCall(program, "shutdown")
  BY <1>2 DEF MakesCall, CallsOf
<1>5. pc'[t] = place
  BY DEF Types, CallTypes
<1>6. StoppingRight'
  <2>1. ASSUME NEW u \in Thread, pc'[u] \in StopPC
        PROVE  StopperRight(u)'
    <3>1. u = t
      <4>1. CASE pc[u] \in StopPC
        BY <4>1, OneStopper DEF Stopping
      <4>2. CASE pc[u] \notin StopPC
        BY <4>2, <2>1, <1>1
      <4> QED BY <4>1, <4>2
    <3>2. step' = step /\ PlaceRight(t, place) /\ place # "shutdown_latch"
      BY <3>1, <2>1, <1>5
    <3>3. t \in Client /\ NextCall(t).op \in Stops
      BY StopperCalls
    <3>4. NextCall(t)' = NextCall(t)
      BY <3>2, <3>3, <1>2 DEF NextCall
    <3>5. pc'[t] \in {"stop_lock", "shutdown_delete", "shutdown_relock", "pool_drain"} =>
             AtRest'
      BY <1>3, <1>5, <3>2 DEF PlaceRight
    <3>6. /\ pc'[t] = "shutdown_relock" => NoPause'
          /\ pc'[t] = "pool_drain" /\ MakesCall(program, "shutdown")' => NoPause'
      BY <1>3, <1>4, <1>5, <3>2 DEF PlaceRight
    <3>7. /\ pc'[t] \in {"stop_wait", "stop_lock"} => NextCall(t)'.op = "stop"
          /\ pc'[t] \notin {"stop_wait", "stop_lock", "pool_drain"} =>
                NextCall(t)'.op = "shutdown"
          /\ IF pc'[t] = "pool_drain"
             THEN d_state' # "RUNNING" /\ d_lock'.writer = t /\ ~enabled'
             ELSE d_state' = "STOPPING" /\ enabled'
      BY <1>5, <3>2, <3>4 DEF PlaceRight
    <3>8. StopperRight(t)'
      BY <3>2, <3>3, <3>4, <3>5, <3>6, <3>7, <1>5 DEF StopperRight
    <3> QED BY <3>1, <3>8
  <2>2. d_state' = "STOPPED" => AtRest'
    BY <1>3
  <2>3. d_state' = "STOPPED" /\ MakesCall(program, "shutdown")' => NoPause'
    BY <1>3, <1>4
  <2>4. ~enabled' => /\ d_state' = "STOPPED" \/ \E u \in Thread : pc'[u] = "pool_drain"
                     /\ d_threadPoolIsOwned'
    BY <1>5 DEF scene
  <2> QED BY <2>1, <2>2, <2>3, <2>4 DEF StoppingRight
<1>7. QueueTypes' /\ RegistryTypes' /\ OtherTypes'
  <2>1. QueueTypes'
    BY DEF Types, QueueTypes, QuietQueues
  <2>2. RegistryTypes'
    BY DEF Types, RegistryTypes, QuietQueues
  <2>3. OtherTypes'
    BY DEF Types, OtherTypes, counterVars, waitVars, scene
  <2> QED BY <2>1, <2>2, <2>3
<1>8. JobsCounted'
  <2>1. Uncounted' = Uncounted
    BY <1>5, <1>1 DEF Uncounted, Stopping, StopPC
  <2> QED BY <2>1, <1>1, SameCounters DEF counterVars, scene
<1> QED BY <1>1, <1>6, <1>7, <1>8, PartsKeep DEF QueuesAndCalls, MoveRight

LEMMA StopperGoes ==
    ASSUME PoolInv, StopsRight, NEW t \in Thread, Stopping(t), NEW place \in StopPC,
           Goto(t, place), ptr' = ptr, QuietState, UNCHANGED scene
    PROVE  MoveRight /\ QuietQueues /\ pc' = [pc EXCEPT ![t] = place] /\ step' = step
<1> USE DEF PoolInv
<1>0. pc' = [pc EXCEPT ![t] = place] /\ step' = step
  BY DEF Goto
<1>1. MoveRight
  <2>1. \A u \in Thread : ptr'[u] # 0 <=> pc'[u] \in {"pause_wait", "pause_sleep"}
    BY <1>0 DEF CallsRight, Types, CallTypes, Stopping, StopPC
  <2>2. place \in CallPC /\ ptr' \in [Thread -> Queue \cup {0}] /\ program' = program
    BY DEF StopPC, CallPC, Types, CallTypes, scene
  <2>3. MayCall(t)
    BY StopperCalls
  <2> QED BY <2>1, <2>2, <2>3, GotoMoves DEF Types
<1>2. QuietQueues
  BY DEF QuietQueues, QuietState, Pausers
<1> QED BY <1>0, <1>1, <1>2

LEMMA StopperReturns ==
    ASSUME PoolInv, StopsRight, NEW t \in Thread, Stopping(t), Return(t), QuietState,
           UNCHANGED scene
    PROVE  /\ MoveRight /\ QuietQueues /\ pc' = [pc EXCEPT ![t] = "idle"]
           /\ ptr' = [ptr EXCEPT ![t] = 0]
<1> USE DEF PoolInv
<1>1. /\ MoveRight
      /\ pc' = [pc EXCEPT ![t] = "idle"] /\ ptr' = [ptr EXCEPT ![t] = 0]
  <2>1. MayCall(t) /\ program' = program
    BY StopperCalls DEF scene
  <2> QED BY <2>1, ReturnMoves DEF Types
<1>2. ptr[t] = 0
  BY DEF CallsRight, Stopping, StopPC
<1>3. QuietQueues
  BY <1>1, <1>2 DEF QuietQueues, QuietState, Pausers, Types, CallTypes
<1> QED BY <1>1, <1>3

\* stop and shutdown begin to wait for the active queues.
LEMMA StopActiveKeeps ==
    ASSUME PoolInv, StopsRight, NEW t \in Thread, pc[t] = "idle",
           MayCall(t), CanWrite, d_state # "STOPPED", NEW place \in StopPC,
           \/ NextCall(t).op = "stop" /\ place = "stop_wait"
           \/ NextCall(t).op = "shutdown" /\ place = "shutdown_wait",
           StopActive(t, place), UNCHANGED <<counterVars, waitVars, scene>>
    PROVE  PoolInv'
<1> USE DEF PoolInv
<1>1. Stopping(t)
  BY DEF Stopping, Stops
<1>2. /\ d_state' = "STOPPING" /\ Goto(t, place)
      /\ UNCHANGED <<ptr, d_lock, poolVars, d_queueRegistry, d_nextId, free,
                     queueVars, held>>
  BY DEF StopActive
<1>3. QuietState
  BY <1>2 DEF QuietState, poolVars, queueVars, IsDeleting
<1>4. MoveRight /\ QuietQueues /\ pc' = [pc EXCEPT ![t] = place] /\ step' = step
  BY <1>1, <1>2, <1>3, StopperGoes
<1>5. enabled = TRUE /\ enabled' = enabled
  BY <1>2, NobodyDrains DEF StoppingRight, Types, OtherTypes, poolVars
<1>6. PlaceRight(t, place)
  BY <1>2, <1>5 DEF PlaceRight
<1>7. place \in CallPC \ {"count", "shutdown_latch"} /\ pc[t] # "shutdown_latch"
  BY DEF CallPC
<1>8. /\ d_lock' \in [readers : SUBSET Thread, writer : Thread \cup {None}]
      /\ UNCHANGED <<d_nextId, counterVars, d_enqueueState, d_batchSize, refused,
                     waitVars, scene>>
  BY <1>2 DEF Types, RegistryTypes, queueVars, poolVars
<1> QED BY <1>1, <1>2, <1>4, <1>5, <1>6, <1>7, <1>8, StopperMoves

LEMMA StopKeeps ==
    ASSUME PoolInv, StopsRight, NEW t \in Thread, stop(t)
    PROVE  PoolInv'
<1>1. /\ Calling(t, "stop") /\ CanWrite /\ UNCHANGED <<counterVars, waitVars, scene>>
      /\ pc[t] = "idle" /\ MayCall(t) /\ NextCall(t).op = "stop"
  BY DEF stop, Calling
<1>2. CASE d_state # "STOPPED" /\ StopActive(t, "stop_wait")
  <2>1. "stop_wait" \in StopPC
    BY DEF StopPC
  <2> QED BY <1>1, <1>2, <2>1, StopActiveKeeps
<1>3. CASE /\ Return(t)
           /\ UNCHANGED <<registryVars, d_lock, queueVars, poolVars, held>>
  <2>1. OnlyCall /\ d_lock' = d_lock
    BY <1>1, <1>3 DEF OnlyCall
  <2>2. QueuesAndCalls' /\ JobsRight' /\ CallTypes' /\ JobsCounted'
    BY <1>1, <1>3, <2>1, CallingPlain, OnlyCallIsQuiet, OnlyReturns
  <2> QED BY <2>1, <2>2, OtherParts, PartsKeep DEF PoolInv, Types, RegistryTypes
<1> QED BY <1>2, <1>3 DEF stop

\* A pool with no active queue is at rest.
LEMMA NoneActive ==
    ASSUME PoolInv, d_numActiveQueues = 0
    PROVE  AtRest
<1>1. IsFiniteSet(ActiveOnes) /\ IsFiniteSet(CountingDown)
  BY Constants, FS_Subset DEF ActiveOnes, CountingDown
<1>2. Cardinality(ActiveOnes) \in Nat /\ Cardinality(CountingDown) \in Nat
  BY <1>1, FS_CardinalityType
<1>3. Cardinality(ActiveOnes) = 0
  BY <1>2 DEF PoolInv, ActiveCounted
<1> QED BY <1>1, <1>3, FS_EmptySet DEF AtRest

LEMMA NoActiveQueueKeeps ==
    ASSUME PoolInv, StopsRight, NEW t \in Thread, NoActiveQueue(t)
    PROVE  PoolInv'
<1> USE DEF PoolInv
<1>1. /\ d_numActiveQueues = 0 /\ OnlyCall /\ ptr' = ptr /\ d_lock' = d_lock
  BY DEF NoActiveQueue
<1>2. PICK place \in {"stop_lock", "shutdown_delete"} :
         /\ Goto(t, place)
         /\ \/ pc[t] = "stop_wait" /\ place = "stop_lock"
            \/ pc[t] = "shutdown_wait" /\ place = "shutdown_delete"
  BY DEF NoActiveQueue
<1>3. StopperRight(t) /\ Stopping(t) /\ place \in StopPC
  BY <1>2 DEF StoppingRight, StopPC, Stopping
<1>4. AtRest
  BY <1>1, NoneActive
<1>5. QuietState /\ UNCHANGED scene
  BY <1>1, OnlyCallIsQuiet DEF OnlyCall
<1>6. MoveRight /\ QuietQueues /\ pc' = [pc EXCEPT ![t] = place] /\ step' = step
  BY <1>1, <1>2, <1>3, <1>5, StopperGoes
<1>7. /\ d_state' = "STOPPING" /\ enabled' = TRUE
      /\ UNCHANGED <<d_nextId, counterVars, d_enqueueState, d_batchSize, refused,
                     waitVars, scene>>
      /\ d_lock' \in [readers : SUBSET Thread, writer : Thread \cup {None}]
  BY <1>1, <1>2, <1>3 DEF StopperRight, OnlyCall, registryVars, poolVars, queueVars,
       Types, OtherTypes, RegistryTypes
<1>8. PlaceRight(t, place)
  BY <1>2, <1>3, <1>4, <1>7 DEF PlaceRight, StopperRight
<1>9. place \in CallPC \ {"count", "shutdown_latch"} /\ pc[t] # "shutdown_latch"
  BY <1>2 DEF CallPC
<1> QED BY <1>1, <1>3, <1>6, <1>7, <1>8, <1>9, StopperMoves

\* A pool at rest deletes no queue.
LEMMA RestNoDeletion ==
    ASSUME AtRest, NEW q \in Queue
    PROVE  ~IsDeleting(q) /\ ~IsScheduled(q)
BY DEF AtRest, ActiveOnes, Active

LEMMA QueuesDeletedKeeps ==
    ASSUME PoolInv, StopsRight, NEW t \in Thread, QueuesDeleted(t)
    PROVE  PoolInv'
<1> USE DEF PoolInv
<1>1. /\ pc[t] = "shutdown_latch" /\ latch[t] = 0 /\ Goto(t, "shutdown_relock")
      /\ OnlyCall /\ ptr' = ptr /\ d_lock' = d_lock
  BY DEF QueuesDeleted
<1>2. /\ StopperRight(t) /\ Stopping(t)
      /\ "shutdown_relock" \in StopPC \cap (CallPC \ {"count", "shutdown_latch"})
  BY <1>1 DEF StoppingRight, StopPC, Stopping, CallPC
<1>3. Awaited(t) = {}
  <2>1. IsFiniteSet(Awaited(t)) /\ IsFiniteSet(Arriving(t))
    BY Constants, FS_Subset DEF Awaited, Arriving
  <2>2. Cardinality(Awaited(t)) \in Nat /\ Cardinality(Arriving(t)) \in Nat
    BY <2>1, FS_CardinalityType
  <2>3. Cardinality(Awaited(t)) = 0
    BY <1>1, <2>2 DEF LatchesRight
  <2> QED BY <2>1, <2>3, FS_EmptySet
<1>4. AtRest
  BY <1>1, <1>2, <1>3 DEF StopperRight, AtRest
<1>5. NoPause
  <2>1. \A u \in Thread : ptr[u] \in Queue \cup {0}
    BY DEF Types, CallTypes
  <2>2. \A u \in Thread : ptr[u] = 0
    BY <1>1, <1>2, <1>4, <2>1, RestNoDeletion DEF StopperRight
  <2> QED BY <1>1, <1>2, <2>2 DEF StopperRight, NoPause
<1>6. QuietState /\ UNCHANGED scene
  BY <1>1, OnlyCallIsQuiet DEF OnlyCall
<1>7. MoveRight /\ QuietQueues /\ pc' = [pc EXCEPT ![t] = "shutdown_relock"]
      /\ step' = step
  BY <1>1, <1>2, <1>6, StopperGoes
<1>8. /\ d_state' = "STOPPING" /\ enabled' = TRUE
      /\ UNCHANGED <<d_nextId, counterVars, d_enqueueState, d_batchSize, refused,
                     waitVars, scene>>
      /\ d_lock' \in [readers : SUBSET Thread, writer : Thread \cup {None}]
  BY <1>1, <1>2 DEF StopperRight, OnlyCall, registryVars, poolVars, queueVars,
       Types, OtherTypes, RegistryTypes
<1>9. PlaceRight(t, "shutdown_relock")
  BY <1>1, <1>2, <1>4, <1>5, <1>8 DEF PlaceRight, StopperRight
<1> QED BY <1>1, <1>2, <1>7, <1>8, <1>9, StopperMoves

\* A queue that has an id is paused only by a call.
LEMMA NeverPaused ==
    ASSUME PoolInv, StopsRight, AtRest, MakesCall(program, "stop"),
           MakesCall(program, "shutdown")
    PROVE  NoPause
<1> USE DEF PoolInv
<1>1. ~MakesCall(program, "pauseQueue")
  BY ProgramStops DEF PausesEnd
<1>2. \A t \in Thread : ptr[t] = 0
  BY <1>1 DEF PausesRight
<1>3. ASSUME NEW q \in Registered PROVE d_runState[q] = "NOT_SCHEDULED"
  <2>1. q \in Queue
    BY DEF Registered, Types, RegistryTypes
  <2>2. ~IsDeleting(q) /\ ~IsScheduled(q)
    BY <2>1, RestNoDeletion
  <2>3. d_runState[q] \in {"NOT_SCHEDULED", "SCHEDULED"}
    BY <2>1, <2>2, <1>1 DEF PausesRight
  <2> QED BY <2>2, <2>3 DEF IsScheduled
<1> QED BY <1>2, <1>3 DEF NoPause

LEMMA StopPoolKeeps ==
    ASSUME PoolInv, StopsRight, NEW t \in Thread, stopPool(t)
    PROVE  PoolInv'
<1> USE DEF PoolInv
<1>1. /\ pc[t] \in {"stop_lock", "shutdown_relock"} /\ CanWrite /\ DisablePool(t)
      /\ UNCHANGED <<d_queueRegistry, d_nextId, free, counterVars, queueVars,
                     waitVars, scene, held>>
  BY DEF stopPool
<1>2. /\ StopperRight(t) /\ Stopping(t) /\ pc[t] # "shutdown_latch"
      /\ d_state = "STOPPING" /\ enabled = TRUE /\ AtRest
  BY <1>1 DEF StoppingRight, StopPC, Stopping, StopperRight, Types, OtherTypes
<1>3. MakesCall(program, "shutdown") => NoPause
  <2>1. CASE pc[t] = "stop_lock"
    <3>1. MakesCall(program, "stop")
      BY <2>1, <1>2, StopperCalls DEF StopperRight
    <3> QED BY <3>1, <1>2, NeverPaused
  <2>2. CASE pc[t] = "shutdown_relock"
    BY <2>2, <1>2 DEF StopperRight
  <2> QED BY <1>1, <2>1, <2>2
<1>4. /\ d_lock.readers \subseteq Thread
      /\ d_lock' = d_lock \/ d_lock' = [d_lock EXCEPT !.writer = t]
      /\ d_lock' \in [readers : SUBSET Thread, writer : Thread \cup {None}]
  BY <1>1 DEF DisablePool, Types, RegistryTypes
<1>5. UNCHANGED <<d_nextId, counterVars, d_enqueueState, d_batchSize, refused,
                  waitVars, scene>>
  BY <1>1 DEF DisablePool, queueVars, poolVars
<1>6. QuietState
  BY <1>1 DEF QuietState, DisablePool, poolVars, queueVars, IsDeleting
<1>7. CASE d_threadPoolIsOwned
  <2>1. /\ enabled' = FALSE /\ d_lock' = [d_lock EXCEPT !.writer = t]
        /\ Goto(t, "pool_drain") /\ ptr' = ptr /\ d_state' = d_state
    BY <1>1, <1>7 DEF DisablePool
  <2>2. "pool_drain" \in StopPC \cap (CallPC \ {"count", "shutdown_latch"})
    BY DEF StopPC, CallPC
  <2>3. MoveRight /\ QuietQueues /\ pc' = [pc EXCEPT ![t] = "pool_drain"]
        /\ step' = step
    BY <1>2, <1>5, <1>6, <2>1, <2>2, StopperGoes
  <2>4. d_lock'.writer = t
    BY <2>1 DEF Types, RegistryTypes
  <2>5. PlaceRight(t, "pool_drain")
    BY <1>2, <1>3, <2>1, <2>4 DEF PlaceRight
  <2> QED BY <1>2, <1>4, <1>5, <1>7, <2>1, <2>2, <2>3, <2>5, StopperMoves
<1>8. CASE ~d_threadPoolIsOwned
  <2>1. d_state' = "STOPPED" /\ Return(t) /\ enabled' = enabled
    BY <1>1, <1>8 DEF DisablePool, poolVars
  <2>2. /\ MoveRight /\ QuietQueues /\ pc' = [pc EXCEPT ![t] = "idle"]
        /\ ptr' = [ptr EXCEPT ![t] = 0]
    BY <1>2, <1>5, <1>6, <2>1, StopperReturns
  <2>3. "idle" \in CallPC \ {"count", "shutdown_latch"} /\ "idle" \notin StopPC
    BY DEF StopPC, CallPC
  <2> QED BY <1>2, <1>3, <1>4, <1>5, <2>1, <2>2, <2>3, StopperMoves
<1> QED BY <1>7, <1>8

LEMMA PoolStoppedKeeps ==
    ASSUME PoolInv, StopsRight, NEW t \in Thread, poolStopped(t)
    PROVE  PoolInv'
<1> USE DEF PoolInv
<1>1. /\ pc[t] = "pool_drain" /\ d_state' = "STOPPED" /\ d_lock' = NoLock /\ Return(t)
      /\ UNCHANGED <<d_queueRegistry, d_nextId, free, counterVars, queueVars,
                     poolVars, waitVars, scene, held>>
  BY DEF poolStopped
<1>2. StopperRight(t) /\ Stopping(t) /\ enabled = FALSE
  BY <1>1 DEF StoppingRight, StopPC, Stopping, StopperRight, Types, OtherTypes
<1>3. AtRest /\ (MakesCall(program, "shutdown") => NoPause) /\ d_threadPoolIsOwned
  BY <1>1, <1>2 DEF StopperRight, StoppingRight
<1>4. d_lock' \in [readers : SUBSET Thread, writer : Thread \cup {None}]
  BY <1>1 DEF NoLock
<1>5. /\ UNCHANGED <<d_nextId, counterVars, d_enqueueState, d_batchSize, refused,
                     waitVars, scene>>
      /\ QuietState /\ enabled' = FALSE
  BY <1>1, <1>2 DEF QuietState, poolVars, queueVars, IsDeleting
<1>6. /\ MoveRight /\ QuietQueues /\ pc' = [pc EXCEPT ![t] = "idle"]
      /\ ptr' = [ptr EXCEPT ![t] = 0]
  BY <1>1, <1>2, <1>5, StopperReturns
<1>7. "idle" \in CallPC \ {"count", "shutdown_latch"} /\ "idle" \notin StopPC
  BY DEF StopPC, CallPC
<1> QED BY <1>1, <1>2, <1>3, <1>4, <1>5, <1>6, <1>7, StopperMoves

\* Nobody stops a pool that is stopped and whose lock is free.
LEMMA NobodyStops ==
    ASSUME PoolInv, CanWrite, d_state = "STOPPED", NEW t \in Thread
    PROVE  pc[t] \notin StopPC
BY NobodyDrains DEF PoolInv, StoppingRight, StopperRight

LEMMA StartKeeps ==
    ASSUME PoolInv, NEW t \in Thread, start(t)
    PROVE  PoolInv'
<1> USE DEF PoolInv
<1>1. /\ Calling(t, "start") /\ CanWrite /\ Return(t)
      /\ UNCHANGED <<d_queueRegistry, d_nextId, free, d_lock, counterVars, d_list,
                     d_batchSize, d_runState, d_pauseCount, d_processor, jobs,
                     refused, waitVars, scene, held>>
  BY DEF start
<1>2. pc[t] \in PlainPC \ {"count"} /\ pc[t] # "latch" /\ MayCall(t)
  BY <1>1, CallingPlain
<1>3. /\ \A q \in Queue : IsDeleting(q)' <=> IsDeleting(q)
      /\ d_enqueueState' \in [Queue -> {"ENABLED", "DISABLED", "DELETING"}]
  <2>1. CASE d_enqueueState' = d_enqueueState
    BY <2>1 DEF IsDeleting, Types, QueueTypes
  <2>2. CASE d_enqueueState' =
                [q \in Queue |-> IF q \in Registered THEN "ENABLED"
                                 ELSE d_enqueueState[q]]
    <3>1. \A q \in Queue : q \in Registered => ~IsDeleting(q)
      BY DEF QueuesRight, QueueRight, KnownRight
    <3> QED BY <2>2, <3>1 DEF IsDeleting, Types, QueueTypes
  <2> QED BY <2>1, <2>2 DEF start
<1>4. QuietState
  BY <1>1, <1>3 DEF QuietState
<1>5. UNCHANGED <<d_numExecuted, d_numEnqueued, d_numDeleted, reported, program,
                  d_numActiveQueues, latch, woken, d_threadPoolIsOwned>>
  BY <1>1 DEF counterVars, scene, waitVars
<1>6. QueueTypes' /\ RegistryTypes' /\ OtherTypes'
  <2>1. d_state' \in {"RUNNING", "STOPPING", "STOPPED"} /\ enabled' \in BOOLEAN
    BY DEF start, Types, RegistryTypes, OtherTypes
  <2>2. QueueTypes'
    BY <1>1, <1>3 DEF Types, QueueTypes
  <2>3. RegistryTypes'
    BY <1>1, <2>1 DEF Types, RegistryTypes
  <2>4. OtherTypes'
    BY <1>1, <1>5, <2>1 DEF Types, OtherTypes
  <2> QED BY <2>2, <2>3, <2>4
<1>7. CASE d_state' = d_state /\ enabled' = enabled
  <2>1. QuietRest
    BY <1>1, <1>5, <1>7 DEF QuietRest
  <2>2. QueuesAndCalls' /\ JobsRight' /\ CallTypes' /\ JobsCounted'
    BY <1>1, <1>2, <1>4, <1>5, <2>1, OnlyReturns
  <2> QED BY <1>6, <2>2, PartsKeep
<1>8. CASE /\ d_state = "STOPPED" /\ d_state' = "RUNNING"
           /\ enabled' = (enabled \/ d_threadPoolIsOwned)
  <2>1. enabled'
    BY <1>8 DEF StoppingRight
  <2>2. /\ MoveRight
        /\ pc' = [pc EXCEPT ![t] = "idle"] /\ ptr' = [ptr EXCEPT ![t] = 0]
    BY <1>1, <1>2, <1>5, ReturnMoves DEF Types
  <2>3. pc[t] = "idle" /\ ptr[t] = 0
    BY <1>1 DEF Calling, CallsRight
  <2>4. QuietQueues
    BY <1>4, <2>2, <2>3 DEF QuietQueues, QuietState, Pausers, Types, CallTypes
  <2>5. "idle" \in CallPC /\ "idle" \notin StopPC
    BY DEF StopPC, CallPC
  <2>6. /\ JobsRight' /\ QueuesRight' /\ IdsRight' /\ PausesRight'
        /\ LatchesRight' /\ ActiveCounted' /\ JobsIn' = JobsIn
        /\ \A u \in Thread : pc'[u] = pc[u] \/ u = t
    BY <1>5, <2>2, <2>3, <2>4, <2>5, MovesKeep
  <2>7. \A u \in Thread : pc'[u] \notin StopPC
    BY <1>1, <1>8, <2>2, <2>5, <2>6, NobodyStops DEF Types, CallTypes
  <2>8. StoppingRight'
    BY <1>1, <1>8, <2>1, <2>7 DEF StoppingRight
  <2>9. JobsCounted'
    <3>1. Uncounted' = Uncounted
      BY <2>2, <2>3 DEF Uncounted, Types, CallTypes
    <3> QED BY <3>1, <2>6, <1>5, SameCounters
  <2> QED BY <1>6, <2>2, <2>6, <2>8, <2>9, PartsKeep DEF QueuesAndCalls, MoveRight
<1> QED BY <1>7, <1>8 DEF start

\* A registry that has been cleared.
LEMMA NoneRegistered ==
    ASSUME d_queueRegistry' = <<>>
    PROVE  /\ Registered' = {} /\ IdsRight' /\ DOMAIN d_queueRegistry' = {}
           /\ d_queueRegistry' \in [DOMAIN d_queueRegistry' -> Queue]
<1>1. DOMAIN d_queueRegistry' = {}
  <2>1. DOMAIN <<>> = {}
    OBVIOUS
  <2> QED BY <2>1
<1>2. d_queueRegistry' \in [DOMAIN d_queueRegistry' -> Queue]
  <2>1. <<>> \in [1 .. 0 -> Queue] /\ 1 .. 0 = {}
    OBVIOUS
  <2> QED BY <1>1, <2>1
<1> QED BY <1>1, <1>2 DEF Registered, IdsRight

LEMMA DeleteAllKeeps ==
    ASSUME PoolInv, StopsRight, NEW t \in Thread, deleteAll(t)
    PROVE  PoolInv'
<1> USE DEF PoolInv
<1> DEFINE ids == DOMAIN d_queueRegistry
<1>1. /\ pc[t] = "shutdown_delete" /\ enqueueDeletion(t, ids, t)
      /\ latch' = [latch EXCEPT ![t] = Cardinality(ids)]
      /\ d_queueRegistry' = <<>> /\ d_nextId' = 1 /\ Goto(t, "shutdown_latch")
      /\ UNCHANGED <<d_state, free, d_lock, ptr, woken, scene, held>>
  BY DEF deleteAll
<1>2. /\ StopperRight(t) /\ Stopping(t) /\ AtRest /\ d_state = "STOPPING" /\ enabled = TRUE
      /\ t \in Client /\ MayCall(t) /\ NextCall(t).op = "shutdown"
  BY <1>1, StopperCalls DEF StoppingRight, StopPC, Stopping, StopperRight, Types,
     OtherTypes
<1>3. /\ t \in {t, None} /\ t \in Thread \cup {None} /\ ids \in SUBSET DOMAIN d_queueRegistry
      /\ enabled
  BY <1>2
<1>4. QueuesOf(ids) = Registered /\ Registered \subseteq Queue
  BY DEF QueuesOf, Registered, Types, RegistryTypes
<1>5. \A q \in QueuesOf(ids) : SignalFor(t, q, t) = t
  BY <1>2, <1>4, Constants DEF SignalFor, Types, QueueTypes
<1>6. pc' = [pc EXCEPT ![t] = "shutdown_latch"] /\ UNCHANGED <<at, d_batch, step>>
  BY <1>1 DEF Goto
<1>7. MoveRight
  <2>1. \A u \in Thread : ptr'[u] # 0 <=> pc'[u] \in {"pause_wait", "pause_sleep"}
    BY <1>1, <1>6 DEF CallsRight, Types, CallTypes
  <2>2. "shutdown_latch" \in CallPC /\ ptr' \in [Thread -> Queue \cup {0}]
        /\ program' = program
    BY <1>1 DEF CallPC, Types, CallTypes, scene
  <2> QED BY <2>1, <2>2, <1>1, <1>2, GotoMoves DEF Types
<1>8. SameWork /\ CountingDown' = CountingDown
  BY <1>7, SameWorkPhases DEF MoveRight
<1>9. Registered' = Registered \ QueuesOf(ids) /\ Registered' = {} /\ IdsRight'
  BY <1>1, <1>4, NoneRegistered
<1>10. latch' = [latch EXCEPT ![t] =
          Cardinality({q \in QueuesOf(ids) : SignalFor(t, q, t) = t})]
  <2>1. {q \in QueuesOf(ids) : SignalFor(t, q, t) = t} = QueuesOf(ids)
    BY <1>5
  <2>2. Cardinality(QueuesOf(ids)) = Cardinality(ids)
    BY QueuesOfSize
  <2> QED BY <2>1, <2>2, <1>1
<1>11. /\ JobsRight' /\ enabled' = enabled /\ refused' = refused
       /\ QueuesRight'
       /\ \A u \in Thread :
             Awaited(u)' = Awaited(u)
                \cup {q \in QueuesOf(ids) : SignalFor(t, q, t) = u}
       /\ ActiveOnes' = ActiveOnes \cup QueuesOf(ids)
  <2> HIDE DEF ids
  <2> QED BY <1>1, <1>3, <1>8, <1>9, DeletionsSubmitted, DeletionsRight
<1>12. /\ QueueTypes' /\ d_numActiveQueues' \in Int
       /\ d_numExecuted' \in Nat /\ d_numEnqueued' \in Nat /\ d_numDeleted' \in Nat
       /\ ActiveCounted' /\ JobsCounted'
  <2>1. UNCHANGED <<held, reported>>
    BY <1>1 DEF scene
  <2>2. Uncounted' = Uncounted
    BY <1>1, <1>6 DEF Uncounted, Types, CallTypes
  <2> HIDE DEF ids
  <2> QED BY <2>1, <2>2, <1>1, <1>3, <1>8, <1>11, DeletionsCounted
<1>13. LatchesRight' /\ latch' \in [Thread -> Int]
  <2>1. pc[t] \notin {"latch", "shutdown_latch"}
    BY <1>1
  <2> HIDE DEF ids
  <2> QED BY <2>1, <1>3, <1>6, <1>8, <1>10, <1>11, DeletionsAwaited
<1>14. RegistryTypes' /\ OtherTypes'
  <2>1. d_nextId' \in Nat \ {0} /\ DOMAIN d_queueRegistry' \subseteq 1 .. d_nextId' - 1
        /\ d_queueRegistry' \in [DOMAIN d_queueRegistry' -> Queue]
    BY <1>1, NoneRegistered
  <2>2. RegistryTypes'
    BY <2>1, <1>1 DEF Types, RegistryTypes
  <2> QED BY <2>2, <1>1, <1>11, <1>12, <1>13 DEF Types, OtherTypes, scene
<1>15. /\ d_enqueueState' = [q \in Queue |-> IF q \in QueuesOf(ids) THEN "DELETING"
                                          ELSE d_enqueueState[q]]
       /\ d_runState' = [q \in Queue |-> IF q \in QueuesOf(ids) /\ ~Unscheduled(q)
                                        THEN "PAUSING" ELSE d_runState[q]]
  BY <1>1 DEF enqueueDeletion, QueuesOf
<1>16. PausesRight'
  <2>1. ASSUME NEW q \in Queue
        PROVE  \/ IsDeleting(q)'
               \/ d_runState'[q] = d_runState[q] /\ (IsDeleting(q) => IsDeleting(q)')
    BY <1>15 DEF IsDeleting
  <2>2. program' = program /\ ptr' = ptr
    BY <1>1 DEF scene
  <2> QED BY <2>1, <2>2, PausesKeep
<1>17. StopperRight(t)'
  <2>1. NextCall(t)' = NextCall(t) /\ pc'[t] = "shutdown_latch"
    BY <1>1, <1>2, <1>6 DEF NextCall, scene, Types, CallTypes
  <2>2. ActiveOnes' \subseteq Awaited(t)'
    BY <1>2, <1>5, <1>11 DEF AtRest
  <2>3. ASSUME NEW u \in Thread, ptr'[u] # 0 PROVE d_enqueueState'[ptr'[u]] = "DELETING"
    <3>1. PICK q \in Queue : q = ptr[u] /\ ptr'[u] = q /\ q \in {ptr[u]}
      BY <2>3, <1>1 DEF Types, CallTypes
    <3>2. u \in Pausers(q) /\ QueueRight(q)
      BY <3>1 DEF Pausers, QueuesRight
    <3>3. q \notin free /\ ~IsDeleting(q)
      BY <3>2, <1>2, RestNoDeletion DEF QueueRight, PauseRight
    <3>4. q \in Registered
      BY <3>2, <3>3 DEF QueueRight, KnownRight
    <3> QED BY <3>1, <3>4, <1>4, <1>15
  <2>4. NextCall(t)'.op = "shutdown" /\ "shutdown" \in Stops
        /\ d_state' = "STOPPING" /\ enabled'
    BY <2>1, <1>1, <1>2, <1>11 DEF Stops
  <2> QED BY <2>1, <2>2, <2>3, <2>4, <1>2, <1>9 DEF StopperRight, IsDeleting
<1>18. StoppingRight'
  <2>1. ASSUME NEW u \in Thread, pc'[u] \in StopPC PROVE StopperRight(u)'
    <3>1. CASE u = t
      BY <3>1, <1>17
    <3>2. CASE u # t
      <4>1. pc[u] \in StopPC
        BY <3>2, <2>1, <1>6
      <4> QED BY <4>1, <3>2, <1>2, OneStopper DEF Stopping
    <3> QED BY <3>1, <3>2
  <2> QED BY <2>1, <1>1, <1>2, <1>11 DEF StoppingRight
<1> QED BY <1>7, <1>9, <1>11, <1>12, <1>13, <1>14, <1>16, <1>18 DEF MoveRight, Types

\* A stopped pool is shut down: its queues are released.
LEMMA ShutdownAtOnceKeeps ==
    ASSUME PoolInv, StopsRight, NEW t \in Thread, Calling(t, "shutdown"), CanWrite,
           d_state = "STOPPED" \/ ~enabled,
           releaseObjects(Registered), d_queueRegistry' = <<>>, d_nextId' = 1,
           DisablePool(t), UNCHANGED <<counterVars, waitVars, scene>>
    PROVE  PoolInv'
<1> USE DEF PoolInv
<1>1. /\ pc[t] = "idle" /\ MayCall(t) /\ NextCall(t).op = "shutdown" /\ Stopping(t)
      /\ t \in Client /\ ptr[t] = 0
  <2>1. pc[t] = "idle" /\ MayCall(t) /\ NextCall(t).op = "shutdown" /\ Stopping(t)
    BY DEF Calling, Stopping, Stops
  <2> QED BY <2>1, StopperCalls DEF CallsRight
<1>2. d_state = "STOPPED" /\ AtRest /\ NoPause
  <2>1. d_state = "STOPPED"
    BY NobodyDrains DEF StoppingRight
  <2>2. MakesCall(program, "shutdown")
    BY <1>1, NextCallType
  <2> QED BY <2>1, <2>2 DEF StoppingRight
<1>3. \A u \in Thread : pc[u] \notin StopPC
  BY <1>2, NobodyStops
<1>4. \A q \in Queue : /\ ~IsDeleting(q) /\ ~IsScheduled(q) /\ Unplaced(q)
                       /\ ~Active(q) /\ QueueRight(q)
  <2> SUFFICES ASSUME NEW q \in Queue
               PROVE  /\ ~IsDeleting(q) /\ ~IsScheduled(q) /\ Unplaced(q)
                      /\ ~Active(q) /\ QueueRight(q)
    OBVIOUS
  <2>1. ~IsDeleting(q) /\ ~IsScheduled(q) /\ QueueRight(q)
    BY <1>2, RestNoDeletion DEF QueuesRight
  <2> QED BY <2>1, ActivePlaced DEF Active, Types, QueueRight
<1>5. Registered \subseteq Queue /\ Registered' = {} /\ IdsRight'
  BY NoneRegistered DEF Registered, Types, RegistryTypes
<1>6. \A q \in Registered : /\ d_runState[q] = "NOT_SCHEDULED" /\ d_list[q] = <<>>
                            /\ held[q] = "no"
  <2> SUFFICES ASSUME NEW q \in Registered
               PROVE  /\ d_runState[q] = "NOT_SCHEDULED" /\ d_list[q] = <<>>
                      /\ held[q] = "no"
    OBVIOUS
  <2>1. q \in Queue /\ d_runState[q] = "NOT_SCHEDULED"
    BY <1>2, <1>5 DEF NoPause
  <2>2. held[q] \in {"no", "asked", "yes"}
    BY <2>1 DEF Types, QueueTypes
  <2> QED BY <2>1, <2>2, <1>4 DEF QueueRight, ListRight, PauseRight
<1>7. /\ \A q \in Registered :
            /\ q \in free' /\ d_list'[q] = <<>> /\ d_runState'[q] = "NOT_SCHEDULED"
            /\ ~IsDeleting(q)' /\ d_pauseCount'[q] = 0 /\ held'[q] = "no"
      /\ \A q \in Queue \ Registered :
            /\ d_list'[q] = d_list[q] /\ d_runState'[q] = d_runState[q]
            /\ d_pauseCount'[q] = d_pauseCount[q] /\ d_processor'[q] = d_processor[q]
            /\ held'[q] = held[q] /\ (IsDeleting(q)' <=> IsDeleting(q))
            /\ (q \in free)' <=> q \in free
  BY <1>5 DEF releaseObjects, IsDeleting
<1>8. /\ jobs' = jobs /\ refused' = refused /\ program' = program /\ latch' = latch
      /\ d_state' = "STOPPED" /\ d_threadPoolIsOwned' = d_threadPoolIsOwned
      /\ d_numActiveQueues' = d_numActiveQueues
  BY <1>2 DEF DisablePool, poolVars, scene, waitVars, counterVars
<1>9. PICK place \in {"idle", "pool_drain"} :
         /\ MoveRight /\ pc' = [pc EXCEPT ![t] = place] /\ ptr' = ptr
         /\ place = "pool_drain" =>
               step' = step /\ enabled' = FALSE /\ d_lock' = [d_lock EXCEPT !.writer = t]
         /\ place = "idle" => enabled' = enabled /\ d_lock' = d_lock
         /\ place = "pool_drain" <=> d_threadPoolIsOwned
  <2>1. CASE d_threadPoolIsOwned
    <3>1. /\ Goto(t, "pool_drain") /\ ptr' = ptr /\ enabled' = FALSE
          /\ d_lock' = [d_lock EXCEPT !.writer = t]
      BY <2>1 DEF DisablePool
    <3>2. pc' = [pc EXCEPT ![t] = "pool_drain"] /\ step' = step
      BY <3>1 DEF Goto
    <3>3. \A u \in Thread : ptr'[u] # 0 <=> pc'[u] \in {"pause_wait", "pause_sleep"}
      BY <1>1, <3>1, <3>2 DEF CallsRight, Types, CallTypes
    <3>4. "pool_drain" \in CallPC /\ ptr' \in [Thread -> Queue \cup {0}]
      BY <3>1 DEF CallPC, Types, CallTypes
    <3>5. MoveRight
      BY <3>1, <3>3, <3>4, <1>1, <1>8, GotoMoves DEF Types
    <3> QED BY <2>1, <3>1, <3>2, <3>5
  <2>2. CASE ~d_threadPoolIsOwned
    <3>1. Return(t) /\ enabled' = enabled /\ d_lock' = d_lock
      BY <2>2 DEF DisablePool, poolVars
    <3>2. MoveRight /\ pc' = [pc EXCEPT ![t] = "idle"] /\ ptr' = [ptr EXCEPT ![t] = 0]
      BY <3>1, <1>1, <1>8, ReturnMoves DEF Types
    <3>3. ptr' = ptr
      BY <3>2, <1>1 DEF Types, CallTypes
    <3> QED BY <2>2, <3>1, <3>2, <3>3
  <2> QED BY <2>1, <2>2
<1>10. /\ \A q \in Queue : /\ JobsAt(q)' = JobsAt(q) /\ Pausers(q)' = Pausers(q)
                           /\ \A w \in Worker : /\ Phase(w, q)' = Phase(w, q)
                                                /\ SignalAt(w, q)' = SignalAt(w, q)
       /\ CountingDown' = CountingDown /\ \A u \in Thread : Arriving(u)' = Arriving(u)
  BY <1>8, <1>9, SameWorkPhases DEF MoveRight, JobsAt, Pausers
<1>11. ASSUME NEW q \in Registered
       PROVE  QueueRight(q)' /\ ~Active(q)' /\ \A u \in Thread : ~DeletionFor(q, u)'
  <2>1. q \in Queue /\ Unplaced(q) /\ Pausers(q) = {} /\ ~(q \in Registered)'
    BY <1>2, <1>4, <1>5, Constants DEF Pausers, NoPause
  <2>2. JobsAt(q)' = {} /\ (\A v \in Worker : Phase(v, q)' = "none") /\ Pausers(q)' = {}
    BY <2>1, <1>10 DEF Unplaced
  <2> QED BY <2>1, <2>2, <1>7, ReleasedRight
<1>12. ASSUME NEW q \in Queue \ Registered
       PROVE  QueueRight(q)' /\ ~Active(q)' /\ \A u \in Thread : ~DeletionFor(q, u)'
  <2>1. SameQueue(q)
    BY <1>5, <1>7, <1>10 DEF SameQueue
  <2>2. QueueRight(q)' /\ ~Active(q)'
    BY <2>1, <1>4, SameQueueKeeps, SameQueueActive
  <2>3. \A u \in Thread : ~DeletionFor(q, u)
    BY <1>4, NotDeleting DEF Types, QueueRight
  <2>4. \A u \in Thread : DeletionFor(q, u)' <=> DeletionFor(q, u)
    BY <2>1 DEF SameQueue, DeletionFor, IsScheduled, Deletion
  <2> QED BY <2>2, <2>3, <2>4
<1>13. /\ QueuesRight' /\ ActiveOnes' = {} /\ ActiveOnes = {}
       /\ \A u \in Thread : Awaited(u)' = {} /\ Awaited(u) = {}
  <2>1. QueuesRight' /\ ActiveOnes' = {} /\ \A u \in Thread : Awaited(u)' = {}
    BY <1>11, <1>12 DEF QueuesRight, ActiveOnes, Awaited
  <2>2. \A q \in Queue, u \in Thread : ~DeletionFor(q, u)
    BY <1>4, NotDeleting DEF Types, QueueRight
  <2> QED BY <2>1, <2>2, <1>2 DEF AtRest, Awaited
<1>14. LatchesRight'
  <2>1. \A u \in Thread : pc'[u] \notin {"latch", "shutdown_latch"} =>
            pc[u] \notin {"latch", "shutdown_latch"} \/ latch[u] = 0
    BY <1>1, <1>9 DEF Types, CallTypes
  <2>2. \A w \in Worker : at'[w].pc = "arrive" =>
            at[w].pc = "arrive" /\ at'[w].signal = at[w].signal
    BY <1>9 DEF MoveRight, SameWork
  <2> QED BY <2>1, <2>2, <1>8, <1>10, <1>13, LatchesKeep
<1>15. ActiveCounted'
  BY <1>8, <1>10, <1>13 DEF ActiveCounted
<1>16. JobsRight'
  BY <1>8 DEF JobsRight, IsInjective
<1>17. JobsCounted'
  <2>1. \A q \in Queue : d_list'[q] = d_list[q] /\ (IsDeleting(q)' <=> IsDeleting(q))
    BY <1>4, <1>6, <1>7
  <2>2. JobsIn' = JobsIn
    BY <2>1 DEF JobsIn
  <2>3. Uncounted' = Uncounted
    BY <1>1, <1>9 DEF Uncounted, Types, CallTypes
  <2> QED BY <2>2, <2>3, SameCounters DEF counterVars, scene
<1>18. QueueTypes' /\ RegistryTypes' /\ OtherTypes'
  <2>1. QueueTypes'
    <3>1. d_list' \in [Queue -> Seq(Job \cup CallbackSet)]
      BY DEF releaseObjects, Types, QueueTypes
    <3>2. d_list' \in [Queue -> Seq(Job \cup CallbackSet')]
      BY <3>1 DEF CallbackSet, Deletions, Deletion, Callback
    <3> QED BY <3>2 DEF releaseObjects, Types, QueueTypes
  <2>2. RegistryTypes'
    <3>1. free' \subseteq Queue
      BY <1>5 DEF releaseObjects, Types, RegistryTypes
    <3>2. d_lock' \in [readers : SUBSET Thread, writer : Thread \cup {None}]
      BY <1>9 DEF Types, RegistryTypes
    <3>3. d_nextId' \in Nat \ {0} /\ DOMAIN d_queueRegistry' \subseteq 1 .. d_nextId' - 1
          /\ d_queueRegistry' \in [DOMAIN d_queueRegistry' -> Queue]
      BY NoneRegistered
    <3> QED BY <3>1, <3>2, <3>3, <1>8 DEF RegistryTypes
  <2>3. OtherTypes'
    BY <1>9 DEF Types, OtherTypes, counterVars, waitVars, scene
  <2> QED BY <2>1, <2>2, <2>3
<1>19. PausesRight'
  <2>1. \A q \in Queue : \/ d_runState'[q] \in {"NOT_SCHEDULED", "SCHEDULED"}
                         \/ d_runState'[q] = d_runState[q]
    BY <1>7
  <2> QED BY <2>1, <1>4, <1>8, <1>9, PausesKeep
<1>20. AtRest' /\ NoPause'
  BY <1>2, <1>5, <1>9, <1>13 DEF AtRest, NoPause
<1>21. StoppingRight'
  <2>1. ASSUME NEW u \in Thread, pc'[u] \in StopPC PROVE StopperRight(u)'
    <3>1. u = t /\ place = "pool_drain" /\ pc'[t] = "pool_drain"
      BY <2>1, <1>3, <1>9 DEF StopPC, Types, CallTypes
    <3>2. NextCall(t)' = NextCall(t)
      BY <3>1, <1>1, <1>8, <1>9 DEF NextCall
    <3>3. "shutdown" \in Stops /\ d_lock'.writer = t /\ ~enabled'
      BY <3>1, <1>9 DEF Stops, Types, RegistryTypes
    <3> QED BY <3>1, <3>2, <3>3, <1>1, <1>8, <1>20 DEF StopperRight
  <2>2. ~enabled' => d_threadPoolIsOwned'
    BY <1>8, <1>9 DEF StoppingRight
  <2> QED BY <2>1, <2>2, <1>8, <1>20 DEF StoppingRight
<1> QED BY <1>5, <1>9, <1>13, <1>14, <1>15, <1>16, <1>17, <1>18, <1>19, <1>21
           DEF MoveRight, Types

LEMMA ShutdownKeeps ==
    ASSUME PoolInv, StopsRight, NEW t \in Thread, shutdown(t)
    PROVE  PoolInv'
<1>1. /\ Calling(t, "shutdown") /\ CanWrite /\ UNCHANGED <<counterVars, waitVars, scene>>
      /\ pc[t] = "idle" /\ MayCall(t) /\ NextCall(t).op = "shutdown"
  BY DEF shutdown, Calling
<1>2. CASE d_state # "STOPPED" /\ StopActive(t, "shutdown_wait")
  <2>1. "shutdown_wait" \in StopPC
    BY DEF StopPC
  <2> QED BY <1>1, <1>2, <2>1, StopActiveKeeps
<1>3. CASE /\ d_state = "STOPPED" \/ ~enabled
           /\ releaseObjects(Registered) /\ d_queueRegistry' = <<>> /\ d_nextId' = 1
           /\ DisablePool(t)
  BY <1>1, <1>3, ShutdownAtOnceKeeps
<1> QED BY <1>2, <1>3 DEF shutdown

-----------------------------------------------------------------------------
(* The invariant holds at first, and each step keeps it *)

LEMMA InitRight ==
    ASSUME Init, StopsRight
    PROVE  PoolInv
<1> USE Constants
<1>1. /\ NumQueues \in Nat /\ Created \in 0 .. NumQueues /\ Ownership \subseteq BOOLEAN
      /\ program \in Programs
      /\ \A c \in Client : program[c] \in Seq(Calls)
  BY MultiQueueAssumption, ProgramsAssumption DEF Init
<1>2. Registered = 1 .. Created /\ free = Queue \ Registered /\ Registered \subseteq Queue
  BY <1>1 DEF Init, Registered, Queue
<1>3. /\ \A q \in Queue : JobsAt(q) = {} /\ Pausers(q) = {}
      /\ \A w \in Worker, q \in Queue : Phase(w, q) = "none"
  <2>1. ToSet(jobs) = {}
    BY DEF Init, ToSet
  <2>2. \A w \in Worker : at[w].pc = "idle"
    BY DEF Init, Idle
  <2>3. \A t \in Thread : ptr[t] = 0
    BY DEF Init
  <2> QED BY <2>1, <2>2, <2>3 DEF JobsAt, Pausers, Phase, Serving
<1>4. CallTypes
  <2>1. Idle \in WorkSet /\ Idle.pc = "idle" /\ Idle.queue = 0
    BY IdleWork DEF Idle
  <2>2. at \in [Worker -> WorkSet]
        /\ \A w \in Worker : at[w].pc \in {"idle", "foreign"} <=> at[w].queue = 0
    BY <2>1 DEF Init
  <2> QED BY <2>2 DEF Init, CallTypes, CallPC
<1>5. QueueTypes /\ RegistryTypes /\ OtherTypes
  <2>1. QueueTypes
    BY DEF Init, QueueTypes
  <2>2. RegistryTypes
    BY <1>1, <1>2 DEF Init, RegistryTypes, NoLock, Registered, Queue
  <2>3. OtherTypes
    BY <1>1 DEF Init, OtherTypes
  <2> QED BY <2>1, <2>2, <2>3
<1>6. JobsRight
  BY DEF Init, JobsRight, IsInjective
<1>7. \A q \in Queue : QueueRight(q) /\ ~Active(q) /\ \A u \in Thread : ~DeletionFor(q, u)
  <2> SUFFICES ASSUME NEW q \in Queue
               PROVE  /\ QueueRight(q) /\ ~Active(q)
                      /\ \A u \in Thread : ~DeletionFor(q, u)
    OBVIOUS
  <2>1. /\ d_list[q] = <<>> /\ d_runState[q] = "NOT_SCHEDULED" /\ ~IsDeleting(q)
        /\ d_pauseCount[q] = 0 /\ held[q] = "no"
    BY DEF Init, IsDeleting
  <2>2. ~HasCallback(q) /\ ~HasDeletion(q) /\ ~IsScheduled(q)
    BY <1>3, <2>1 DEF HasCallback, HasDeletion, IsScheduled
  <2>3. OnePlace(q) /\ StateRight(q)
    BY <1>3, <2>1, <2>2 DEF OnePlace, StateRight
  <2>4. ListRight(q)
    BY <1>3, <2>1 DEF ListRight
  <2>5. KnownRight(q)
    BY <1>2, <2>1 DEF KnownRight
  <2>6. PauseRight(q)
    BY <1>3, <2>1, FS_EmptySet DEF PauseRight
  <2>7. \A u \in Thread : ~DeletionFor(q, u)
    BY <1>3, <2>1 DEF DeletionFor
  <2> QED BY <2>1, <2>2, <2>3, <2>4, <2>5, <2>6, <2>7 DEF QueueRight, Active
<1>8. QueuesRight /\ AtRest /\ ActiveOnes = {} /\ \A u \in Thread : Awaited(u) = {}
  BY <1>7 DEF QueuesRight, AtRest, ActiveOnes, Awaited
<1>9. CountingDown = {} /\ (\A u \in Thread : Arriving(u) = {}) /\ Uncounted = {}
  BY DEF Init, CountingDown, Arriving, Uncounted, Idle
<1>10. IdsRight
  BY DEF Init, IdsRight
<1>11. BatchesRight
  BY DEF Init, BatchesRight, Idle
<1>12. CallsRight /\ PausesRight
  BY <1>1 DEF Init, CallsRight, PausesRight
<1>13. LatchesRight
  <2>1. Cardinality({}) = 0
    BY FS_EmptySet
  <2>2. \A u \in Thread : latch[u] = 0
    BY DEF Init
  <2>3. \A w \in Worker : at[w].pc # "arrive"
    BY DEF Init, Idle
  <2> QED BY <1>8, <1>9, <2>1, <2>2, <2>3 DEF LatchesRight
<1>14. ActiveCounted
  BY <1>8, <1>9, FS_EmptySet DEF ActiveCounted, Init
<1>15. JobsCounted
  <2>1. JobsIn = {}
    BY DEF Init, JobsIn
  <2> QED BY <2>1, <1>9, FS_EmptySet DEF JobsCounted, Init
<1>16. StoppingRight
  BY DEF Init, StoppingRight, StopPC
<1> QED BY <1>4, <1>5, <1>6, <1>8, <1>10, <1>11, <1>12, <1>13, <1>14, <1>15, <1>16
        DEF PoolInv, Types

LEMMA StutterKeeps ==
    ASSUME PoolInv, UNCHANGED vars
    PROVE  PoolInv'
<1>1. /\ UNCHANGED <<d_queueRegistry, d_nextId, d_state, free, d_lock>>
      /\ UNCHANGED <<d_numActiveQueues, d_numExecuted, d_numEnqueued, d_numDeleted>>
      /\ UNCHANGED <<d_list, d_batchSize, d_enqueueState, d_runState, d_pauseCount,
                     d_processor, held>>
      /\ UNCHANGED <<jobs, enabled, refused, at, d_batch, pc, ptr, step, latch, woken>>
      /\ UNCHANGED <<program, d_threadPoolIsOwned, reported>>
  BY DEF vars, registryVars, counterVars, queueVars, poolVars, returnVars, waitVars, scene
<1>2. CallTypes' /\ RegistryTypes' /\ OtherTypes' /\ BatchesRight' /\ CallsRight'
      /\ IdsRight' /\ JobsRight'
  BY <1>1 DEF PoolInv, Types, CallTypes, RegistryTypes, OtherTypes, BatchesRight,
     CallsRight, IdsRight, JobsRight, IsInjective
<1>3. QueueTypes'
  <2>1. CallbackSet' = CallbackSet
    BY DEF CallbackSet, Deletions, Deletion, Callback
  <2> QED BY <1>1, <2>1 DEF PoolInv, Types, QueueTypes
<1>4. SameWork /\ QuietQueues
  BY <1>1 DEF SameWork, QuietQueues, IsDeleting, Pausers
<1>5. /\ QueuesRight' /\ JobsIn' = JobsIn
      /\ \A u \in Thread : Awaited(u)' = Awaited(u)
      /\ ActiveOnes' = ActiveOnes
  BY <1>4, QuietQueuesSame, SameQueuesKeep DEF PoolInv
<1>6. /\ \A u \in Thread : Arriving(u)' = Arriving(u)
      /\ CountingDown' = CountingDown /\ Uncounted' = Uncounted
  BY <1>1, <1>4, SameWorkPhases DEF Uncounted
<1>7. PausesRight' /\ ActiveCounted' /\ JobsCounted'
  <2>1. PausesRight'
    BY <1>1, PausesKeep DEF IsDeleting
  <2> QED BY <1>1, <1>5, <1>6, <2>1, SameCounters DEF PoolInv, ActiveCounted
<1>8. LatchesRight'
  BY <1>1, <1>5, <1>6, LatchesKeep DEF PoolInv, LatchesRight
<1>9. StoppingRight'
  <2>1. Registered' = Registered
    BY <1>1 DEF Registered
  <2>2. \A u \in Thread : ptr'[u] # 0 =>
           ptr'[u] = ptr[u] /\ (IsDeleting(ptr[u]) => d_enqueueState'[ptr[u]] = "DELETING")
    BY <1>1 DEF IsDeleting
  <2> QED BY <1>1, <1>5, <2>1, <2>2, StopsKeep DEF PoolInv
<1> QED BY <1>2, <1>3, <1>5, <1>7, <1>8, <1>9 DEF PoolInv, Types

LEMMA CallKeeps ==
    ASSUME PoolInv, StopsRight, NEW t \in Thread, call(t)
    PROVE  PoolInv'
<1>1. CASE queueCall(t)
  BY <1>1, FailKeeps, PushKeeps, EnableOrDisableKeeps, SetBatchSizeKeeps,
     InitiatePauseKeeps, ResumeKeeps, CreateQueueKeeps, DeleteQueueKeeps,
     DrainQueueKeeps, NumProcessedResetKeeps, RunJobKeeps DEF queueCall
<1>2. CASE poolCall(t)
  BY <1>2, DrainKeeps, StartKeeps, StopKeeps, ShutdownKeeps DEF poolCall
<1>3. CASE Continue(t)
  BY <1>3, CountEnqueuedKeeps, WaitWhilePausingKeeps, LatchWaitKeeps, DrainPoolKeeps,
     NoActiveQueueKeeps, DeleteAllKeeps, QueuesDeletedKeeps, StopPoolKeeps,
     PoolStoppedKeeps DEF Continue
<1> QED BY <1>1, <1>2, <1>3 DEF call

LEMMA WorkerKeeps ==
    ASSUME PoolInv, NEW w \in Worker, workerStep(w)
    PROVE  PoolInv'
BY TakeCallbackKeeps, ExecuteFrontPausedKeeps, ExecuteFrontKeeps, FinishBatchKeeps,
   DrainWaitWhilePausingKeeps, ReleaseObjectKeeps, CountDownKeeps, ArriveKeeps,
   ForeignReturnsKeeps DEF workerStep, deleteQueueCb

LEMMA StepKeeps ==
    ASSUME PoolInv, StopsRight, [Next]_vars
    PROVE  PoolInv'
<1>1. ASSUME NEW t \in Thread, call(t) PROVE PoolInv'
  BY <1>1, CallKeeps
<1>2. ASSUME NEW t \in Thread, SpuriousWakeup(t) PROVE PoolInv'
  BY <1>2, SpuriousWakeupKeeps
<1>3. ASSUME NEW w \in Worker, workerStep(w) PROVE PoolInv'
  BY <1>3, WorkerKeeps
<1>4. CASE EnqueueForeign
  BY <1>4, EnqueueForeignKeeps
<1>5. CASE UNCHANGED vars
  BY <1>5, StutterKeeps
<1> QED BY <1>1, <1>2, <1>3, <1>4, <1>5 DEF Next, Done

\* PoolInv is an inductive invariant, whatever clients and jobs call, if one
\* client makes the calls that stop the pool.
THEOREM PoolInvariant ==
    ASSUME StopsRight
    PROVE  Spec => []PoolInv
<1>1. Init => PoolInv
  BY InitRight
<1>2. PoolInv /\ [Next]_vars => PoolInv'
  BY StepKeeps
<1> QED BY <1>1, <1>2, PTL DEF Spec

-----------------------------------------------------------------------------
(* What the invariant says of the properties *)

LEMMA NoneOrOne ==
    ASSUME NEW I, NEW W, I = {} \/ W = {}
    PROVE  LET both == Cardinality(I) + Cardinality(W)
           IN /\ I = {} /\ W = {} => both = 0
              /\ (\E i : I = {i}) => both = 1
              /\ (\E w : W = {w}) => both = 1
<1>1. Cardinality({}) = 0 /\ \A x : Cardinality({x}) = 1
  BY FS_EmptySet, FS_Singleton
<1>2. CASE I = {} /\ W = {}
  BY <1>1, <1>2
<1>3. ASSUME NEW i, I = {i} PROVE Cardinality(I) + Cardinality(W) = 1
  <2>1. Cardinality(I) = 1 /\ W = {}
    BY <1>1, <1>3
  <2>2. Cardinality(W) = 0
    BY <1>1, <2>1
  <2> QED BY <2>1, <2>2
<1>4. ASSUME NEW w, W = {w} PROVE Cardinality(I) + Cardinality(W) = 1
  <2>1. Cardinality(W) = 1 /\ I = {}
    BY <1>1, <1>4
  <2>2. Cardinality(I) = 0
    BY <1>1, <2>1
  <2> QED BY <2>1, <2>2
<1> QED BY <1>2, <1>3, <1>4, <1>1

LEMMA CallbacksOf ==
    ASSUME PoolInv, NEW q \in Queue
    PROVE  Callbacks(q) = IF Active(q) THEN 1 ELSE 0
<1> USE DEF PoolInv
<1> DEFINE I == {i \in 1 .. Len(jobs) : jobs[i].queue = q}
           W == {w \in Worker : Serving(w, q)}
<1>1. Callbacks(q) = Cardinality(I) + Cardinality(W)
  BY DEF Callbacks
<1>2. QueueRight(q) /\ (Active(q) <=> ~Unplaced(q))
  BY ActivePlaced DEF QueuesRight, QueueRight, Types
<1>3. \A w \in Worker : Serving(w, q) <=> Phase(w, q) # "none"
  BY DEF Phase, Serving, Types, CallTypes, WorkSet, WorkerPC
<1>4. DOMAIN jobs = 1 .. Len(jobs) /\ Len(jobs) \in Nat /\ IsInjective(jobs)
  BY DEF JobsRight
<1>5. JobsAt(q) = {} => I = {}
  BY <1>4 DEF JobsAt, ToSet
<1>6. ASSUME NEW b \in JobsAt(q)
      PROVE  \E i : I = {i}
  <2>1. PICK i \in 1 .. Len(jobs) : jobs[i] = b /\ b.queue = q
    BY <1>4, <1>6 DEF JobsAt, ToSet
  <2>2. ASSUME NEW k \in I PROVE k = i
    <3>1. k \in DOMAIN jobs /\ jobs[k] \in JobsAt(q)
      BY <1>4, <2>2 DEF JobsAt, ToSet
    <3>2. jobs[k] = b
      BY <3>1, <1>2, <1>6 DEF QueueRight, OnePlace
    <3> QED BY <3>1, <3>2, <2>1, <1>4 DEF IsInjective
  <2> QED BY <2>1, <2>2
<1>7. /\ I = {} /\ W = {} => Callbacks(q) = 0
      /\ (\E i : I = {i}) /\ W = {} => Callbacks(q) = 1
      /\ I = {} /\ (\E w : W = {w}) => Callbacks(q) = 1
  BY <1>1, NoneOrOne
<1> HIDE DEF PoolInv
<1>8. CASE Unplaced(q)
  <2>1. I = {} /\ W = {}
    BY <1>3, <1>5, <1>8 DEF Unplaced
  <2> QED BY <2>1, <1>2, <1>7, <1>8
<1>9. CASE JobsAt(q) # {}
  <2>1. W = {}
    BY <1>2, <1>3, <1>9 DEF QueueRight, OnePlace
  <2>2. \E i : I = {i}
    BY <1>6, <1>9
  <2>3. Active(q)
    BY <1>2, <1>9 DEF Unplaced
  <2> HIDE DEF I, W
  <2> QED BY <2>1, <2>2, <2>3, <1>7
<1>10. CASE \E w \in Worker : Phase(w, q) # "none"
  <2>1. PICK w \in Worker : Phase(w, q) # "none"
    BY <1>10
  <2>2. W = {w} /\ JobsAt(q) = {}
    BY <2>1, <1>2, <1>3 DEF QueueRight, OnePlace
  <2>3. Active(q)
    BY <2>1, <1>2 DEF Unplaced
  <2>4. I = {} /\ \E v : W = {v}
    BY <2>2, <1>5
  <2> HIDE DEF I, W
  <2> QED BY <2>3, <2>4, <1>7
<1> QED BY <1>8, <1>9, <1>10 DEF Unplaced

LEMMA OneCallbackRight ==
    ASSUME PoolInv
    PROVE  OneCallback
<1>1. ASSUME NEW q \in Queue
      PROVE  Active(q) <=> /\ q \notin free
                           /\ \/ d_runState[q] \in {"SCHEDULED", "PAUSING"}
                              \/ d_enqueueState[q] = "DELETING"
  <2>1. QueueRight(q)
    BY DEF PoolInv, QueuesRight
  <2> QED BY <2>1 DEF QueueRight, KnownRight, Active, IsScheduled, IsDeleting
<1> QED BY <1>1, CallbacksOf DEF OneCallback

LEMMA NoJobStrandedRight ==
    ASSUME PoolInv
    PROVE  NoJobStranded
<1> USE DEF PoolInv
<1>1. ~refused
  BY DEF StoppingRight
<1>2. ASSUME NEW q \in Queue, d_runState[q] = "NOT_SCHEDULED",
             d_enqueueState[q] # "DELETING"
      PROVE  d_list[q] = <<>> /\ d_batch[q] = <<>>
  <2>1. QueueRight(q) /\ ~IsScheduled(q) /\ ~IsDeleting(q)
    BY <1>2 DEF QueuesRight, IsScheduled, IsDeleting
  <2>2. d_list[q] = <<>>
    BY <1>2, <2>1 DEF QueueRight, ListRight
  <2>3. ASSUME d_batch[q] # <<>> PROVE FALSE
    <3>1. PICK w \in Worker : at[w].pc = "batch" /\ at[w].queue = q
      BY <2>3 DEF BatchesRight
    <3>2. Phase(w, q) = "batch"
      BY <3>1 DEF Phase, Serving
    <3> QED BY <3>2, <2>1 DEF QueueRight, StateRight, HasCallback
  <2> QED BY <2>2, <2>3
<1>3. ASSUME NEW w \in Worker, at[w].pc = "execute" PROVE d_list[at[w].queue] # <<>>
  <2>1. PICK q \in Queue : q = at[w].queue
    BY <1>3, ServedQueue
  <2>2. Phase(w, q) = "execute" /\ QueueRight(q)
    BY <1>3, <2>1 DEF Phase, Serving, QueuesRight
  <2> QED BY <2>1, <2>2 DEF QueueRight, ListRight
<1> QED BY <1>1, <1>2, <1>3 DEF NoJobStranded

LEMMA NoUseAfterReleaseRight ==
    ASSUME PoolInv
    PROVE  NoUseAfterRelease
<1> SUFFICES ASSUME NEW q \in free
             PROVE  /\ Callbacks(q) = 0
                    /\ \A t \in Thread : ptr[t] # q
                    /\ q \notin Registered
  BY DEF NoUseAfterRelease
<1>1. q \in Queue /\ QueueRight(q)
  BY DEF PoolInv, Types, RegistryTypes, QueuesRight
<1>2. ~Active(q) /\ q \notin Registered /\ Pausers(q) = {}
  BY <1>1 DEF QueueRight, KnownRight, PauseRight, Active, IsScheduled
<1>3. Callbacks(q) = 0
  BY <1>1, <1>2, CallbacksOf
<1> QED BY <1>2, <1>3 DEF Pausers

LEMMA PauseInForceRight ==
    ASSUME PoolInv
    PROVE  PauseInForce
<1> SUFFICES ASSUME NEW q \in Queue, held[q] = "yes", NEW w \in Worker, Serving(w, q),
                    at[w].pc \in {"batch", "finish"}
             PROVE  FALSE
  BY DEF PauseInForce
<1>1. Phase(w, q) = "batch"
  BY DEF Phase
<1> QED BY <1>1 DEF PoolInv, QueuesRight, QueueRight, PauseRight

LEMMA TypesRight ==
    ASSUME PoolInv
    PROVE  TypeOK
<1> USE DEF PoolInv
<1>1. d_numActiveQueues \in Nat
  BY ActiveSizes DEF ActiveCounted
<1>2. d_pauseCount \in [Queue -> Nat]
  <2>1. ASSUME NEW q \in Queue PROVE d_pauseCount[q] \in Nat
    <3>1. IsFiniteSet(Pausers(q))
      BY Constants, FS_Subset DEF Pausers
    <3> QED BY <3>1, FS_CardinalityType DEF QueuesRight, QueueRight, PauseRight
  <2> QED BY <2>1 DEF Types, QueueTypes
<1>3. latch \in [Thread -> Nat]
  <2>1. ASSUME NEW t \in Thread PROVE latch[t] \in Nat
    <3>1. IsFiniteSet(Awaited(t)) /\ IsFiniteSet(Arriving(t))
      BY Constants, FS_Subset DEF Awaited, Arriving
    <3>2. Cardinality(Awaited(t)) \in Nat /\ Cardinality(Arriving(t)) \in Nat
      BY <3>1, FS_CardinalityType
    <3> QED BY <3>2 DEF LatchesRight
  <2> QED BY <2>1 DEF Types, OtherTypes
<1>4. /\ d_lock.readers \subseteq Thread /\ d_lock.writer \in Thread \cup {None}
      /\ \A w \in Worker : at[w].pc \in WorkerPC /\ at[w].queue \in Queue \cup {0}
  BY DEF Types, RegistryTypes, CallTypes, WorkSet
<1>5. refused \in BOOLEAN
  BY DEF StoppingRight
<1> QED BY <1>1, <1>2, <1>3, <1>4, <1>5
        DEF TypeOK, Types, CallTypes, QueueTypes, RegistryTypes, OtherTypes

LEMMA ConsistentRight ==
    ASSUME PoolInv
    PROVE  Consistent
<1>1. ActiveExact
  <2>1. {q \in Queue : Callbacks(q) # 0} = ActiveOnes
    BY CallbacksOf DEF ActiveOnes
  <2> QED BY <2>1 DEF PoolInv, ActiveCounted, ActiveExact, CountingDown
<1>2. CountersExact
  <2>1. Length({q \in Queue : d_enqueueState[q] # "DELETING"}) = Cardinality(JobsIn)
    BY DEF Length, JobsIn, IsDeleting
  <2> QED BY <2>1 DEF PoolInv, JobsCounted, CountersExact, Uncounted
<1> QED BY <1>1, <1>2, TypesRight DEF Consistent

\* A queue that is scheduled, being paused or being deleted has exactly one
\* callback in the thread pool, any other none: its jobs run one after the other.
THEOREM OneCallbackHolds ==
    ASSUME StopsRight
    PROVE  Spec => []OneCallback
BY PoolInvariant, OneCallbackRight, PTL

\* No job is left in a queue that nothing serves, and the thread pool accepts
\* every callback.
THEOREM NoJobStrandedHolds ==
    ASSUME StopsRight
    PROVE  Spec => []NoJobStranded
BY PoolInvariant, NoJobStrandedRight, PTL

\* A queue's object is released when nobody has its address any more.
THEOREM NoUseAfterReleaseHolds ==
    ASSUME StopsRight
    PROVE  Spec => []NoUseAfterRelease
BY PoolInvariant, NoUseAfterReleaseRight, PTL

\* After pauseQueue has returned no job of the queue runs until it is resumed.
THEOREM PauseInForceHolds ==
    ASSUME StopsRight
    PROVE  Spec => []PauseInForce
BY PoolInvariant, PauseInForceRight, PTL

\* The types, and the counters of active queues and of jobs, which agree with
\* the queues, the threads and the callbacks at every step.
THEOREM ConsistentHolds ==
    ASSUME StopsRight
    PROVE  Spec => []Consistent
BY PoolInvariant, ConsistentRight, PTL

-----------------------------------------------------------------------------
(* What is left when a call returns *)

\* A thread in a call goes to another place in it, or returns.
LEMMA CallMoves ==
    ASSUME NEW t \in Thread, call(t)
    PROVE  Return(t) \/ \E place \in CallPC : Goto(t, place)
<1>1. CASE Fail(t) \/ enableOrDisable(t) \/ setBatchSize(t) \/ resume(t)
           \/ createQueue(t) \/ drainQueue(t) \/ numProcessedReset(t) \/ runJob(t)
           \/ start(t) \/ CountEnqueued(t) \/ LatchWait(t) \/ poolStopped(t)
  BY <1>1 DEF Fail, enableOrDisable, setBatchSize, resume, createQueue, drainQueue,
              numProcessedReset, runJob, start, CountEnqueued, LatchWait, poolStopped
<1>2. CASE Push(t) \/ initiatePause(t) \/ deleteQueue(t)
  BY <1>2 DEF Push, initiatePause, deleteQueue, CallPC
<1>3. CASE waitWhilePausing(t) \/ drainPool(t) \/ drain(t)
  BY <1>3 DEF waitWhilePausing, drainPool, drain, CallPC
<1>4. CASE NoActiveQueue(t) \/ deleteAll(t) \/ QueuesDeleted(t)
  BY <1>4 DEF NoActiveQueue, deleteAll, QueuesDeleted, CallPC
<1>5. CASE stop(t) \/ shutdown(t) \/ stopPool(t)
  BY <1>5 DEF stop, shutdown, stopPool, StopActive, DisablePool, CallPC
<1> QED BY <1>1, <1>2, <1>3, <1>4, <1>5 DEF call, queueCall, poolCall, Continue

\* Another thread's call is left where it is.
LEMMA OthersStay ==
    ASSUME CallTypes, NEW t \in Thread, [Next]_vars, ~call(t)
    PROVE  pc'[t] = pc[t] /\ (t \in Client => step'[t] = step[t])
<1>1. ASSUME NEW u \in Thread, call(u)
      PROVE  pc'[t] = pc[t] /\ (t \in Client => step'[t] = step[t])
  <2>1. u # t
    BY <1>1
  <2>2. CASE Return(u)
    BY <2>1, <2>2 DEF Return, CallTypes
  <2>3. ASSUME NEW place \in CallPC, Goto(u, place)
        PROVE  pc'[t] = pc[t] /\ (t \in Client => step'[t] = step[t])
    BY <2>1, <2>3 DEF Goto, CallTypes
  <2> QED BY <1>1, <2>2, <2>3, CallMoves
<1>2. ASSUME NEW w \in Worker, workerStep(w)
      PROVE  pc' = pc /\ step' = step
  BY <1>2 DEF workerStep, TakeCallback, executeFrontPaused, executeFront, finishBatch,
              deleteQueueCb, drainWaitWhilePausing, releaseObject, CountDown, arrive,
              ForeignReturns
<1>3. CASE EnqueueForeign \/ UNCHANGED vars \/ \E u \in Thread : SpuriousWakeup(u)
  BY <1>3 DEF EnqueueForeign, SpuriousWakeup, vars, returnVars
<1> QED BY <1>1, <1>2, <1>3 DEF Next, Done

LEMMA DrainIsCalled ==
    ASSUME NEW t \in Thread, call(t), Calling(t, "drain")
    PROVE  drain(t)
<1>1. pc[t] = "idle" /\ \A o : Calling(t, o) => o = "drain"
  BY DEF Calling
<1>2. ~queueCall(t)
  BY <1>1 DEF queueCall, Fail, Push, enableOrDisable, setBatchSize, initiatePause,
              resume, createQueue, deleteQueue, drainQueue, numProcessedReset, runJob,
              Accepts, QueueCalls, Pushes, Deletes
<1>3. ~Continue(t)
  BY <1>1 DEF Continue, CountEnqueued, waitWhilePausing, LatchWait, drainPool,
              NoActiveQueue, deleteAll, QueuesDeleted, stopPool, poolStopped
<1>4. ~start(t) /\ ~stop(t) /\ ~shutdown(t)
  BY <1>1 DEF start, stop, shutdown
<1> QED BY <1>2, <1>3, <1>4 DEF call, poolCall

LEMMA DrainQueueIsCalled ==
    ASSUME NEW t \in Thread, call(t), Calling(t, "drainQueue")
    PROVE  drainQueue(t)
<1>1. pc[t] = "idle" /\ \A o : Calling(t, o) => o = "drainQueue"
  BY DEF Calling
<1>2. queueCall(t) => drainQueue(t)
  BY <1>1 DEF queueCall, Fail, Push, enableOrDisable, setBatchSize, initiatePause,
              resume, createQueue, deleteQueue, numProcessedReset, runJob,
              Accepts, QueueCalls, Pushes, Deletes
<1>3. ~Continue(t)
  BY <1>1 DEF Continue, CountEnqueued, waitWhilePausing, LatchWait, drainPool,
              NoActiveQueue, deleteAll, QueuesDeleted, stopPool, poolStopped
<1>4. ~poolCall(t)
  BY <1>1 DEF poolCall, drain, start, stop, shutdown
<1> QED BY <1>2, <1>3, <1>4 DEF call

\* Only drain goes on to ask the thread pool.
LEMMA DrainGoesOn ==
    ASSUME CallTypes, NEW t \in Thread, call(t), pc[t] = "idle",
           pc'[t] = "drain_threads"
    PROVE  drain(t)
<1>1. ~Return(t) /\ \A place : Goto(t, place) => place = "drain_threads"
  BY DEF Return, Goto, CallTypes
<1>2. ~queueCall(t)
  BY <1>1 DEF queueCall, Fail, Push, enableOrDisable, setBatchSize, initiatePause,
              resume, createQueue, deleteQueue, drainQueue, numProcessedReset, runJob
<1>3. ~Continue(t)
  BY DEF Continue, CountEnqueued, waitWhilePausing, LatchWait, drainPool,
         NoActiveQueue, deleteAll, QueuesDeleted, stopPool, poolStopped
<1>4. ~start(t) /\ ~stop(t) /\ ~shutdown(t)
  BY <1>1 DEF start, stop, shutdown, StopActive, DisablePool
<1> QED BY <1>2, <1>3, <1>4 DEF call, poolCall

LEMMA InactiveSettled ==
    ASSUME PoolInv, NEW q \in Queue, ~Active(q)
    PROVE  Settled(q)
<1>1. QueueRight(q) /\ ~IsScheduled(q) /\ ~IsDeleting(q)
  BY DEF PoolInv, QueuesRight, Active
<1>2. ASSUME d_batch[q] # <<>> PROVE FALSE
  <2>1. PICK w \in Worker : at[w].pc = "batch" /\ at[w].queue = q
    BY <1>2 DEF PoolInv, BatchesRight
  <2>2. Phase(w, q) = "batch"
    BY <2>1 DEF Phase, Serving
  <2> QED BY <2>2, <1>1 DEF QueueRight, StateRight, HasCallback
<1>3. d_runState[q] \in {"NOT_SCHEDULED", "PAUSED"}
  BY <1>1 DEF IsScheduled, PoolInv, Types, QueueTypes
<1>4. d_runState[q] = "NOT_SCHEDULED" => d_list[q] = <<>>
  BY <1>1 DEF QueueRight, ListRight
<1> QED BY <1>2, <1>3, <1>4 DEF Settled

LEMMA RestSettled ==
    ASSUME PoolInv, AtRest
    PROVE  \A q \in Queue : Settled(q)
BY InactiveSettled DEF AtRest, ActiveOnes

LEMMA DrainSettled ==
    ASSUME PoolInv, NEW t \in Thread, drain(t),
           (d_state # "STOPPED" /\ enabled) \/ pc'[t] # pc[t]
    PROVE  \A q \in Queue : Settled(q)
<1>1. d_numActiveQueues = 0
  <2>1. CASE pc'[t] = pc[t]
    BY <2>1 DEF drain
  <2>2. CASE pc'[t] # pc[t]
    <3>1. ~Return(t)
      BY <2>2 DEF drain, Calling, Return, PoolInv, Types, CallTypes
    <3> QED BY <3>1 DEF drain
  <2> QED BY <2>1, <2>2
<1> QED BY <1>1, NoneActive, RestSettled

\* When stop, shutdown, drain and drainQueue return, no job runs, or is left but
\* in queues that are paused.
THEOREM ReturnsWhenDoneHolds ==
    ASSUME StopsRight
    PROVE  Spec => ReturnsWhenDone
<1>1. ASSUME PoolInv, [Next]_vars, NEW t \in Thread
      PROVE  /\ \/ /\ pc[t] \in {"pool_drain", "stop_lock", "shutdown_relock"}
                   /\ pc'[t] = "idle"
                \/ pc[t] = "idle" /\ pc'[t] = "drain_threads"
                \/ /\ t \in Client /\ step'[t] # step[t]
                   /\ Calling(t, "drain") /\ d_state # "STOPPED" /\ enabled
                => \A q \in Queue : Settled(q)
             /\ \A id \in DOMAIN d_queueRegistry :
                   (/\ Calling(t, "drainQueue") /\ NextCall(t).id = id
                    /\ t \in Client /\ step'[t] # step[t])
                   => /\ d_list[d_queueRegistry[id]] = <<>>
                      /\ Settled(d_queueRegistry[id])
  <2> USE <1>1
  <2>1. CallTypes
    BY DEF PoolInv, Types
  <2>2. ASSUME pc[t] \in {"pool_drain", "stop_lock", "shutdown_relock"}
        PROVE  \A q \in Queue : Settled(q)
    <3>1. AtRest
      BY <2>2 DEF PoolInv, StoppingRight, StopPC, StopperRight
    <3> QED BY <3>1, RestSettled
  <2>3. ASSUME pc[t] = "idle", pc'[t] = "drain_threads"
        PROVE  \A q \in Queue : Settled(q)
    <3>1. call(t)
      BY <2>1, <2>3, OthersStay
    <3> QED BY <2>1, <2>3, <3>1, DrainGoesOn, DrainSettled
  <2>4. ASSUME t \in Client, step'[t] # step[t], Calling(t, "drain"),
               d_state # "STOPPED", enabled
        PROVE  \A q \in Queue : Settled(q)
    <3>1. call(t)
      BY <2>1, <2>4, OthersStay
    <3> QED BY <2>4, <3>1, DrainIsCalled, DrainSettled
  <2>5. ASSUME NEW id \in DOMAIN d_queueRegistry, Calling(t, "drainQueue"),
               NextCall(t).id = id, t \in Client, step'[t] # step[t]
        PROVE  d_list[d_queueRegistry[id]] = <<>> /\ Settled(d_queueRegistry[id])
    <3>1. drainQueue(t)
      BY <2>1, <2>5, OthersStay, DrainQueueIsCalled
    <3>2. PICK q \in Registered : q = d_queueRegistry[id]
      BY DEF Registered
    <3>3. d_list[q] = <<>> /\ Unscheduled(q)
      BY <2>5, <3>1, <3>2 DEF drainQueue, QueueOf, isDrained
    <3>4. q \in Queue /\ ~IsDeleting(q)
      BY <3>2 DEF PoolInv, Types, RegistryTypes, Registered, QueuesRight, QueueRight,
                  KnownRight
    <3>5. ~Active(q)
      BY <3>3, <3>4 DEF Active, IsScheduled, Unscheduled
    <3> QED BY <3>2, <3>3, <3>4, <3>5, InactiveSettled
  <2> QED BY <2>2, <2>3, <2>4, <2>5
<1>2. PoolInv /\ [Next]_vars =>
        [\A t \in Thread :
           /\ \/ /\ pc[t] \in {"pool_drain", "stop_lock", "shutdown_relock"}
                 /\ pc'[t] = "idle"
              \/ pc[t] = "idle" /\ pc'[t] = "drain_threads"
              \/ /\ t \in Client /\ step'[t] # step[t]
                 /\ Calling(t, "drain") /\ d_state # "STOPPED" /\ enabled
              => \A q \in Queue : Settled(q)
           /\ \A id \in DOMAIN d_queueRegistry :
                 (/\ Calling(t, "drainQueue") /\ NextCall(t).id = id
                  /\ t \in Client /\ step'[t] # step[t])
                 => d_list[d_queueRegistry[id]] = <<>> /\ Settled(d_queueRegistry[id])]_vars
  BY <1>1
<1> QED BY <1>2, PoolInvariant, PTL DEF Spec, ReturnsWhenDone

=============================================================================
