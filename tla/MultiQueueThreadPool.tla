------------------------ MODULE MultiQueueThreadPool ------------------------
(***************************************************************************)
(* bdlmt::MultiQueueThreadPool: queues of jobs, each processed serially by *)
(* the threads of a thread pool.  A queue with something to do has one     *)
(* callback, executeFront, in the pool; it runs a batch of the queue's     *)
(* jobs and enqueues itself again.                                         *)
(*                                                                         *)
(* One action is the code under one acquisition of the queue's mutex; a    *)
(* call that holds the pool's reader-writer lock over several actions is   *)
(* recorded in d_lock.  The thread pool is what ThreadPool promises: a     *)
(* first-in first-out list of callbacks and threads that take them; the    *)
(* multi-queue pool owns it, or shares it with other clients.  Jobs may    *)
(* themselves call the pool.                                               *)
(***************************************************************************)
EXTENDS Integers, Sequences, FiniteSets, SequencesExt

CONSTANTS
    Client,      \* threads that call the pool
    Worker,      \* threads of the thread pool
    Job,
    None,
    NumQueues,   \* bound: queue objects alive at the same time
    Created,     \* queues created before the run starts
    Programs,    \* what clients and jobs call
    Ownership    \* whether the pool owns its thread pool

Thread == Client \cup Worker
Queue  == 1 .. NumQueues

\* An operation names what the call is given.
Op(name, id, job) == [op |-> name, id |-> id, job |-> job, size |-> 1]
setBatch(id, n)   == [op |-> "setBatchSize", id |-> id, job |-> None,
                      size |-> n]
Nothing           == Op("nothing", 0, None)

Pushes  == {"enqueueJob", "addJobAtFront"}
Deletes == {"deleteQueue", "deleteQueueWithCleanup"}
Stops   == {"stop", "shutdown"}

QueueCalls == Pushes \cup Deletes
                 \cup {"enableQueue", "disableQueue", "pauseQueue", "resumeQueue",
                       "setBatchSize"}

OpNames == QueueCalls \cup Stops
              \cup {"nothing", "createQueue", "drainQueue", "drain",
                    "numProcessedReset", "start"}

\* What is pushed is a job.
Calls == {call \in [op : OpNames, id : Nat, job : Job \cup {None}, size : Nat \ {0}] :
             call.op \in Pushes => call.job \in Job}

ASSUME MultiQueueAssumption ==
    /\ NumQueues \in Nat
    /\ Created \in 0 .. NumQueues
    /\ Client \cap Worker = {}
    /\ IsFiniteSet(Thread)
    /\ None \notin Thread \cup Job
    /\ Ownership \subseteq BOOLEAN

\* A client makes a sequence of calls, a job makes one.
ASSUME ProgramsAssumption ==
    \A p \in Programs : /\ \A c \in Client : p[c] \in Seq(Calls)
                        /\ \A j \in Job : p[j] \in Calls

\* What client c, or anyone, calls in program p.
CallsOf(p, c)  == {p[c][i].op : i \in DOMAIN p[c]}
MakesCall(p, o) == \/ \E c \in Client : o \in CallsOf(p, c)
                   \/ \E j \in Job : o = p[j].op

\* Of the programs that the theorems are about, one client makes the calls that
\* stop the pool, and no queue is paused where a stopped pool may be shut down.
OneStops(p) ==
    /\ \A j \in Job : p[j].op \notin Stops
    /\ \A c, d \in Client :
          CallsOf(p, c) \cap Stops # {} /\ CallsOf(p, d) \cap Stops # {} => c = d

PausesEnd(p) ==
    MakesCall(p, "stop") /\ MakesCall(p, "shutdown") => ~MakesCall(p, "pauseQueue")

StopsRight == \A p \in Programs : OneStops(p) /\ PausesEnd(p)

VARIABLES
    d_queueRegistry,   \* queue objects by id
    d_nextId,
    d_state,
    d_lock,            \* who holds the reader-writer lock between actions
    d_numActiveQueues,
    d_numExecuted, d_numEnqueued, d_numDeleted,
    free,              \* the objects d_queuePool can hand out
    d_list,            \* the members of the queues' objects ...
    d_batch,
    d_batchSize,
    d_enqueueState,
    d_runState,
    d_pauseCount,
    d_processor,
    jobs,              \* the thread pool's queue of callbacks
    enabled,           \* the thread pool's enabled()
    at,                \* at[w]: the callback worker w runs, and how far it is
    pc,                \* pc[t]: where thread t is in a call of the pool
    ptr,               \* ptr[t]: the queue object pauseQueue goes on to use
    latch,             \* latch[t]: arrivals the latch of t's call waits for
    woken,             \* threads d_pauseCondition was signaled for
    step,              \* step[c]: calls client c has finished
    program,           \* the calls clients and jobs make
    d_threadPoolIsOwned,
    reported,          \* watching: enqueued less executed and deleted, as
                       \* numProcessedReset returned them
    held,              \* held[q]: is a pause of q asked for, or in force?
    refused            \* has the thread pool refused a callback?

registryVars == <<d_queueRegistry, d_nextId, d_state, free>>
counterVars  == <<d_numActiveQueues, d_numExecuted, d_numEnqueued,
                  d_numDeleted>>
queueVars    == <<d_list, d_batchSize, d_enqueueState, d_runState,
                  d_pauseCount, d_processor>>
poolVars     == <<jobs, enabled, refused>>
returnVars   == <<at, d_batch, pc, ptr, step>>
waitVars     == <<latch, woken>>
scene        == <<program, d_threadPoolIsOwned, reported>>
vars == <<registryVars, d_lock, counterVars, queueVars, poolVars, returnVars,
          waitVars, scene, held>>

NoLock == [readers |-> {}, writer |-> None]
Idle   == [pc |-> "idle", queue |-> 0, signal |-> None]

CallPC == {"idle", "count", "pause_wait", "pause_sleep", "latch",
           "drain_threads", "drain_pending", "stop_wait", "stop_lock",
           "shutdown_wait", "shutdown_delete", "shutdown_latch",
           "shutdown_relock", "pool_drain"}
WorkerPC == {"idle", "execute", "batch", "finish", "delete", "release",
             "count_down", "arrive", "foreign"}

\* A callback in the thread pool: executeFront, or deleteQueueCb; or a job of
\* another client of a thread pool that is shared.
Foreign             == [run |-> "foreign", queue |-> 0, signal |-> None]
Callback(q)         == [run |-> "execute", queue |-> q, signal |-> None]
Deletion(q, signal) == [run |-> "delete", queue |-> q, signal |-> signal]

TypeOK ==
    /\ DOMAIN d_queueRegistry \subseteq 1 .. d_nextId - 1
    /\ \A id \in DOMAIN d_queueRegistry : d_queueRegistry[id] \in Queue
    /\ d_state \in {"RUNNING", "STOPPING", "STOPPED"}
    /\ d_lock.readers \subseteq Thread /\ d_lock.writer \in Thread \cup {None}
    /\ {d_numActiveQueues, d_numExecuted, d_numEnqueued, d_numDeleted}
          \subseteq Nat
    /\ free \subseteq Queue
    /\ d_batch \in [Queue -> Seq(Job)]
    /\ d_batchSize \in [Queue -> Nat \ {0}]
    /\ d_enqueueState \in [Queue -> {"ENABLED", "DISABLED", "DELETING"}]
    /\ d_runState \in
          [Queue -> {"NOT_SCHEDULED", "SCHEDULED", "PAUSING", "PAUSED"}]
    /\ d_pauseCount \in [Queue -> Nat]
    /\ d_processor \in [Queue -> Worker \cup {None}]
    /\ enabled \in BOOLEAN /\ refused \in BOOLEAN
    /\ \A w \in Worker : at[w].pc \in WorkerPC /\ at[w].queue \in Queue \cup {0}
    /\ pc \in [Thread -> CallPC]
    /\ ptr \in [Thread -> Queue \cup {0}]
    /\ latch \in [Thread -> Nat]
    /\ woken \subseteq Thread
    /\ held \in [Queue -> {"no", "asked", "yes"}]

\* A pool that was started and in which Created queues were created.
Init ==
    /\ d_queueRegistry = [id \in 1 .. Created |-> id]
    /\ d_nextId = Created + 1
    /\ d_state = "RUNNING"
    /\ d_lock = NoLock
    /\ d_numActiveQueues = 0
    /\ d_numExecuted = 0 /\ d_numEnqueued = 0 /\ d_numDeleted = 0
    /\ free = Created + 1 .. NumQueues
    /\ d_list = [q \in Queue |-> <<>>]
    /\ d_batch = [q \in Queue |-> <<>>]
    /\ d_batchSize = [q \in Queue |-> 1]
    /\ d_enqueueState = [q \in Queue |-> "ENABLED"]
    /\ d_runState = [q \in Queue |-> "NOT_SCHEDULED"]
    /\ d_pauseCount = [q \in Queue |-> 0]
    /\ d_processor = [q \in Queue |-> None]
    /\ jobs = <<>>
    /\ enabled = TRUE
    /\ refused = FALSE
    /\ at = [w \in Worker |-> Idle]
    /\ pc = [t \in Thread |-> "idle"]
    /\ ptr = [t \in Thread |-> 0]
    /\ latch = [t \in Thread |-> 0]
    /\ woken = {}
    /\ step = [c \in Client |-> 0]
    /\ program \in Programs
    /\ d_threadPoolIsOwned \in Ownership
    /\ reported = 0
    /\ held = [q \in Queue |-> "no"]

-----------------------------------------------------------------------------
(* Calls: a client makes those of its program in turn; a job makes its one  *)
(* call and returns.                                                        *)

MayCall(t) ==
    IF t \in Client THEN step[t] < Len(program[t]) ELSE at[t].pc = "batch"

NextCall(t) ==
    IF t \in Client THEN program[t][step[t] + 1]
                    ELSE program[Head(d_batch[at[t].queue])]

Calling(t, o) == pc[t] = "idle" /\ MayCall(t) /\ NextCall(t).op = o

\* The call returns; so does, if it was made by one, the job.
Return(t) ==
    /\ pc' = [pc EXCEPT ![t] = "idle"]
    /\ ptr' = [ptr EXCEPT ![t] = 0]
    /\ IF t \in Client
       THEN /\ step' = [step EXCEPT ![t] = @ + 1]
            /\ UNCHANGED <<at, d_batch>>
       ELSE LET q == at[t].queue IN
            /\ d_batch' = [d_batch EXCEPT ![q] = Tail(@)]
            /\ at' = [at EXCEPT ![t].pc = IF Len(d_batch[q]) = 1 THEN "finish"
                                          ELSE "batch"]
            /\ UNCHANGED step

Goto(t, place) ==
    /\ pc' = [pc EXCEPT ![t] = place]
    /\ UNCHANGED <<at, d_batch, step>>

\* Nothing but the thread's own place changes.
OnlyCall == UNCHANGED <<registryVars, counterVars, queueVars, poolVars,
                        waitVars, scene, held>>

CanRead  == d_lock.writer = None
CanWrite == d_lock = NoLock

ReadLock(t)   == d_lock' = [d_lock EXCEPT !.readers = @ \cup {t}]
ReadUnlock(t) == d_lock' = [d_lock EXCEPT !.readers = @ \ {t}]

\* The queues that have an id.
Registered == {d_queueRegistry[id] : id \in DOMAIN d_queueRegistry}

findIfUsable(id) ==
    d_state = "RUNNING" /\ enabled /\ id \in DOMAIN d_queueRegistry

\* d_threadPool_p->enqueueJob, for each of the callbacks.
Submit(callbacks) ==
    /\ jobs' = IF enabled THEN jobs \o callbacks ELSE jobs
    /\ refused' = (refused \/ ~enabled)
    /\ UNCHANGED enabled

\* d_pauseCondition.broadcast()
Broadcast(q) ==
    woken' = woken \cup {t \in Thread : pc[t] = "pause_sleep" /\ ptr[t] = q}

-----------------------------------------------------------------------------
(* The calls on one queue, under the pool's lock and the queue's mutex *)

\* A call for which findIfUsable or the queue returns an error.
Rejects(call) ==
    LET q == d_queueRegistry[call.id] IN
    CASE call.op \in {"enqueueJob", "addJobAtFront"} ->
            d_enqueueState[q] # "ENABLED"
      [] call.op \in {"enableQueue", "disableQueue"} ->
            d_enqueueState[q] = "DELETING"
      [] call.op = "pauseQueue" ->
            d_enqueueState[q] = "DELETING" \/ d_runState[q] \in {"PAUSING", "PAUSED"}
      [] call.op = "resumeQueue" ->
            d_runState[q] \notin {"PAUSING", "PAUSED"}
      [] OTHER -> FALSE

Fail(t) ==
    /\ \E o \in QueueCalls : Calling(t, o)
    /\ NextCall(t).op \in Deletes => CanWrite
    /\ CanRead
    /\ findIfUsable(NextCall(t).id) => Rejects(NextCall(t))
    /\ Return(t)
    /\ OnlyCall /\ UNCHANGED d_lock

\* The call o of thread t finds its queue and goes ahead.
Accepts(t, o) ==
    /\ Calling(t, o)
    /\ CanRead
    /\ findIfUsable(NextCall(t).id)
    /\ ~Rejects(NextCall(t))

QueueOf(t) == d_queueRegistry[NextCall(t).id]

\* The callback of a queue that had none is given to the thread pool.
Schedule(q) ==
    /\ d_runState' = [d_runState EXCEPT ![q] = "SCHEDULED"]
    /\ d_numActiveQueues' = d_numActiveQueues + 1
    /\ Submit(<<Callback(q)>>)

\* Mutant: a push gives a callback to a queue that is paused.
NeedsCallback_UnlessScheduled(q) == d_runState[q] # "SCHEDULED"

NeedsCallback(q) == d_runState[q] = "NOT_SCHEDULED"

\* pushBack and pushFront
Push(t) ==
    LET q == QueueOf(t)
        j == NextCall(t).job
    IN  /\ \/ /\ Accepts(t, "enqueueJob")
              /\ d_list' = [d_list EXCEPT ![q] = Append(@, j)]
           \/ /\ Accepts(t, "addJobAtFront")
              /\ d_list' = [d_list EXCEPT ![q] = <<j>> \o @]
        /\ IF NeedsCallback(q) THEN Schedule(q)
           ELSE UNCHANGED <<d_runState, d_numActiveQueues, poolVars>>
        /\ Goto(t, "count")
        /\ ReadLock(t)
        /\ UNCHANGED <<registryVars, d_numExecuted, d_numEnqueued, d_numDeleted,
                       d_batchSize, d_enqueueState, d_pauseCount, d_processor,
                       ptr, waitVars, scene, held>>

\* The job, which may be running by now, is counted.
CountEnqueued(t) ==
    /\ pc[t] = "count"
    /\ d_numEnqueued' = d_numEnqueued + 1
    /\ ReadUnlock(t)
    /\ Return(t)
    /\ UNCHANGED <<registryVars, d_numActiveQueues, d_numExecuted, d_numDeleted,
                   queueVars, poolVars, waitVars, scene, held>>

enableOrDisable(t) ==
    /\ \/ /\ Accepts(t, "enableQueue")
          /\ d_enqueueState' = [d_enqueueState EXCEPT ![QueueOf(t)] = "ENABLED"]
       \/ /\ Accepts(t, "disableQueue")
          /\ d_enqueueState' = [d_enqueueState EXCEPT ![QueueOf(t)] = "DISABLED"]
    /\ Return(t)
    /\ UNCHANGED <<registryVars, d_lock, counterVars, d_list, d_batchSize,
                   d_runState, d_pauseCount, d_processor, poolVars, waitVars,
                   scene, held>>

setBatchSize(t) ==
    /\ Accepts(t, "setBatchSize")
    /\ d_batchSize' = [d_batchSize EXCEPT ![QueueOf(t)] = NextCall(t).size]
    /\ Return(t)
    /\ UNCHANGED <<registryVars, d_lock, counterVars, d_list, d_enqueueState,
                   d_runState, d_pauseCount, d_processor, poolVars, waitVars,
                   scene, held>>

\* Mutant: the queue counts as paused while its job still runs.
initiatePause_AtOnce(t) ==
    LET q == QueueOf(t) IN
    /\ Accepts(t, "pauseQueue")
    /\ d_runState' = [d_runState EXCEPT ![q] = "PAUSED"]
    /\ d_pauseCount' = [d_pauseCount EXCEPT ![q] = @ + 1]
    /\ held' = [held EXCEPT ![q] = "asked"]
    /\ ptr' = [ptr EXCEPT ![t] = q]
    /\ Goto(t, "pause_wait")
    /\ UNCHANGED <<registryVars, d_lock, counterVars, d_list, d_batchSize,
                   d_enqueueState, d_processor, poolVars, waitVars, scene>>

\* pauseQueue keeps the queue's address and gives up the pool's lock.
initiatePause(t) ==
    LET q == QueueOf(t) IN
    /\ Accepts(t, "pauseQueue")
    /\ d_runState' = [d_runState EXCEPT
                        ![q] = IF @ = "NOT_SCHEDULED" THEN "PAUSED" ELSE "PAUSING"]
    /\ d_pauseCount' = [d_pauseCount EXCEPT ![q] = @ + 1]
    /\ held' = [held EXCEPT ![q] = "asked"]
    /\ ptr' = [ptr EXCEPT ![t] = q]
    /\ Goto(t, "pause_wait")
    /\ UNCHANGED <<registryVars, d_lock, counterVars, d_list, d_batchSize,
                   d_enqueueState, d_processor, poolVars, waitVars, scene>>

\* The thread that runs the queue's job does not wait for it, and nobody waits
\* when no job runs.
waitWhilePausing(t) ==
    LET q == ptr[t] IN
    /\ pc[t] = "pause_wait" \/ (pc[t] = "pause_sleep" /\ t \in woken)
    /\ woken' = woken \ {t}
    /\ \/ /\ d_runState[q] = "PAUSING"
          /\ pc[t] = "pause_wait" => d_processor[q] \notin {t, None}
          /\ Goto(t, "pause_sleep")
          /\ UNCHANGED <<ptr, d_pauseCount, held>>
       \/ /\ \/ d_runState[q] # "PAUSING"
             \/ pc[t] = "pause_wait" /\ d_processor[q] \in {t, None}
          /\ d_pauseCount' = [d_pauseCount EXCEPT ![q] = @ - 1]
          /\ held' = [held EXCEPT ![q] = IF @ = "asked" /\ d_processor[q] # t
                                         THEN "yes" ELSE @]
          /\ Return(t)
    /\ UNCHANGED <<registryVars, d_lock, counterVars, d_list, d_batchSize,
                   d_enqueueState, d_runState, d_processor, poolVars, latch,
                   scene>>

\* A wait on a condition variable may return for no reason.
SpuriousWakeup(t) ==
    /\ pc[t] = "pause_sleep"
    /\ woken' = woken \cup {t}
    /\ UNCHANGED <<registryVars, d_lock, counterVars, queueVars, poolVars,
                   returnVars, latch, scene, held>>

resume(t) ==
    LET q == QueueOf(t) IN
    /\ Accepts(t, "resumeQueue")
    /\ \/ /\ d_runState[q] = "PAUSING"
          /\ d_runState' = [d_runState EXCEPT ![q] = "SCHEDULED"]
          /\ Broadcast(q)
          /\ UNCHANGED <<d_numActiveQueues, poolVars>>
       \/ /\ d_runState[q] = "PAUSED" /\ d_list[q] # <<>>
          /\ Schedule(q)
          /\ UNCHANGED woken
       \/ /\ d_runState[q] = "PAUSED" /\ d_list[q] = <<>>
          /\ d_runState' = [d_runState EXCEPT ![q] = "NOT_SCHEDULED"]
          /\ UNCHANGED <<woken, d_numActiveQueues, poolVars>>
    /\ held' = [held EXCEPT ![q] = "no"]
    /\ Return(t)
    /\ UNCHANGED <<registryVars, d_lock, d_numExecuted, d_numEnqueued,
                   d_numDeleted, d_list, d_batchSize, d_enqueueState,
                   d_pauseCount, d_processor, latch, scene>>

-----------------------------------------------------------------------------
(* Creating and deleting queues *)

createQueue(t) ==
    /\ Calling(t, "createQueue")
    /\ CanWrite
    /\ \E q \in free :
          /\ free' = free \ {q}
          /\ d_queueRegistry' =
                [id \in DOMAIN d_queueRegistry \cup {d_nextId} |->
                    IF id = d_nextId THEN q ELSE d_queueRegistry[id]]
    /\ d_nextId' = d_nextId + 1
    /\ Return(t)
    /\ UNCHANGED <<d_state, d_lock, counterVars, queueVars, poolVars, waitVars,
                   scene, held>>

Unscheduled(q) == d_runState[q] \in {"NOT_SCHEDULED", "PAUSED"}

\* The number of jobs in the queues Qs.
Length(Qs) == Cardinality(UNION {{q} \X DOMAIN d_list[q] : q \in Qs})

\* The ids in ascending order, as the registry is iterated over.
IsOrderOf(order, ids) ==
    ToSet(order) = ids /\ \A i, k \in DOMAIN order : i < k => order[i] < order[k]

\* enqueueDeletion of the queues with the given ids: deleteQueueCb is given to
\* the thread pool, or waits in front of the queue until its job has returned.
enqueueDeletion(t, ids, signal) ==
    LET Qs      == {d_queueRegistry[id] : id \in ids}
        now     == {id \in ids : Unscheduled(d_queueRegistry[id])}
        Job_(q) == Deletion(q, IF d_processor[q] = t THEN None ELSE signal)
    IN  /\ d_enqueueState' = [q \in Queue |-> IF q \in Qs THEN "DELETING"
                                              ELSE d_enqueueState[q]]
        /\ d_numDeleted' = d_numDeleted + Length(Qs)
        /\ d_numActiveQueues' = d_numActiveQueues + Cardinality(now)
        /\ \E order \in [1 .. Cardinality(now) -> now] :
              /\ IsOrderOf(order, now)
              /\ Submit([i \in 1 .. Cardinality(now) |->
                           Job_(d_queueRegistry[order[i]])])
        /\ d_runState' = [q \in Queue |-> IF q \in Qs /\ ~Unscheduled(q)
                                          THEN "PAUSING" ELSE d_runState[q]]
        /\ d_list' = [q \in Queue |-> IF q \in Qs /\ ~Unscheduled(q)
                                      THEN <<Job_(q)>> \o d_list[q]
                                      ELSE d_list[q]]
        /\ UNCHANGED <<d_numExecuted, d_numEnqueued, d_batchSize, d_pauseCount,
                       d_processor>>

\* deleteQueue waits for the queue to be gone, unless it is called by a job of
\* that queue or is given a cleanup functor.
deleteQueue(t) ==
    LET id    == NextCall(t).id
        waits == NextCall(t).op = "deleteQueue"
    IN  /\ Accepts(t, "deleteQueue") \/ Accepts(t, "deleteQueueWithCleanup")
        /\ CanWrite
        /\ d_queueRegistry' = [i \in DOMAIN d_queueRegistry \ {id} |->
                                  d_queueRegistry[i]]
        /\ enqueueDeletion(t, {id}, IF waits THEN t ELSE None)
        /\ IF waits /\ d_processor[QueueOf(t)] # t
           THEN /\ Goto(t, "latch")
                /\ latch' = [latch EXCEPT ![t] = 1]
                /\ UNCHANGED ptr
           ELSE Return(t) /\ UNCHANGED latch
        /\ UNCHANGED <<d_nextId, d_state, free, d_lock, woken, scene, held>>

LatchWait(t) ==
    /\ pc[t] = "latch" /\ latch[t] = 0
    /\ Return(t)
    /\ OnlyCall /\ UNCHANGED d_lock

\* releaseObject of the queues in Qs: reset, without their mutexes.  The batch
\* size is not reset.
releaseObjects(Qs) ==
    /\ free' = free \cup Qs
    /\ d_list' = [q \in Queue |-> IF q \in Qs THEN <<>> ELSE d_list[q]]
    /\ d_enqueueState' = [q \in Queue |-> IF q \in Qs THEN "ENABLED"
                                          ELSE d_enqueueState[q]]
    /\ d_runState' = [q \in Queue |-> IF q \in Qs THEN "NOT_SCHEDULED"
                                      ELSE d_runState[q]]
    /\ d_pauseCount' = [q \in Queue |-> IF q \in Qs THEN 0 ELSE d_pauseCount[q]]
    /\ d_processor' = [q \in Queue |-> IF q \in Qs THEN None
                                       ELSE d_processor[q]]
    /\ held' = [q \in Queue |-> IF q \in Qs THEN "no" ELSE held[q]]
    /\ UNCHANGED d_batchSize

-----------------------------------------------------------------------------
(* The threads of the thread pool *)

\* A thread takes the first callback.
TakeCallback(w) ==
    /\ at[w] = Idle /\ jobs # <<>>
    /\ at' = [at EXCEPT ![w] = [pc     |-> Head(jobs).run,
                                queue  |-> Head(jobs).queue,
                                signal |-> Head(jobs).signal]]
    /\ jobs' = Tail(jobs)
    /\ UNCHANGED <<registryVars, d_lock, counterVars, queueVars, enabled,
                   refused, d_batch, pc, ptr, step, waitVars, scene, held>>

\* Another client of a shared thread pool gives it a job, one at a time, and
\* the job returns.  The thread pool stays enabled.
EnqueueForeign ==
    /\ ~d_threadPoolIsOwned
    /\ Foreign \notin ToSet(jobs)
    /\ jobs' = Append(jobs, Foreign)
    /\ UNCHANGED <<registryVars, d_lock, counterVars, queueVars, enabled, refused,
                   returnVars, waitVars, scene, held>>

ForeignReturns(w) ==
    /\ at[w].pc = "foreign"
    /\ at' = [at EXCEPT ![w] = Idle]
    /\ UNCHANGED <<registryVars, d_lock, counterVars, queueVars, poolVars, d_batch,
                   pc, ptr, step, waitVars, scene, held>>

\* Mutant: a pausing thread is not told.
setPaused_NoBroadcast(w, q) ==
    /\ d_runState' = [d_runState EXCEPT ![q] = "PAUSED"]
    /\ UNCHANGED woken
    /\ IF d_enqueueState[q] = "DELETING"
       THEN Submit(<<Head(d_list[q])>>) /\ UNCHANGED d_numActiveQueues
       ELSE d_numActiveQueues' = d_numActiveQueues - 1 /\ UNCHANGED poolVars
    /\ at' = [at EXCEPT ![w] = Idle]

\* The callback of thread w ends, and leaves queue q paused.
setPaused(w, q) ==
    /\ d_runState' = [d_runState EXCEPT ![q] = "PAUSED"]
    /\ IF d_pauseCount[q] # 0 THEN Broadcast(q) ELSE UNCHANGED woken
    /\ IF d_enqueueState[q] = "DELETING"
       THEN Submit(<<Head(d_list[q])>>) /\ UNCHANGED d_numActiveQueues
       ELSE d_numActiveQueues' = d_numActiveQueues - 1 /\ UNCHANGED poolVars
    /\ at' = [at EXCEPT ![w] = Idle]

executeFrontPaused(w) ==
    LET q == at[w].queue IN
    /\ at[w].pc = "execute"
    /\ d_runState[q] = "PAUSING"
    /\ setPaused(w, q)
    /\ UNCHANGED <<registryVars, d_lock, d_numExecuted, d_numEnqueued,
                   d_numDeleted, d_list, d_batchSize, d_enqueueState,
                   d_pauseCount, d_processor, d_batch, pc, ptr, step,
                   latch, scene, held>>

\* Mutant: the whole batch size is counted, even of a shorter queue.
executeFront_CountsBatchSize(w) ==
    LET q     == at[w].queue
        count == IF d_enqueueState[q] = "DELETING" THEN 1
                 ELSE IF d_batchSize[q] < Len(d_list[q]) THEN d_batchSize[q]
                 ELSE Len(d_list[q])
    IN  /\ at[w].pc = "execute"
        /\ d_runState[q] # "PAUSING"
        /\ d_numExecuted' = IF d_enqueueState[q] = "DELETING" THEN d_numExecuted
                            ELSE d_numExecuted + d_batchSize[q]
        /\ d_batch' = [d_batch EXCEPT ![q] = SubSeq(d_list[q], 1, count)]
        /\ d_list' = [d_list EXCEPT ![q] = SubSeq(@, count + 1, Len(@))]
        /\ d_processor' = [d_processor EXCEPT ![q] = w]
        /\ at' = [at EXCEPT ![w].pc = "batch"]
        /\ UNCHANGED <<registryVars, d_lock, d_numActiveQueues, d_numEnqueued,
                       d_numDeleted, d_batchSize, d_enqueueState, d_runState,
                       d_pauseCount, poolVars, pc, ptr, step, waitVars,
                       scene, held>>

\* The jobs of the next batch are taken from the queue.
executeFront(w) ==
    LET q     == at[w].queue
        count == IF d_enqueueState[q] = "DELETING" THEN 1
                 ELSE IF d_batchSize[q] < Len(d_list[q]) THEN d_batchSize[q]
                 ELSE Len(d_list[q])
    IN  /\ at[w].pc = "execute"
        /\ d_runState[q] # "PAUSING"
        /\ d_numExecuted' = IF d_enqueueState[q] = "DELETING" THEN d_numExecuted
                            ELSE d_numExecuted + count
        /\ d_batch' = [d_batch EXCEPT ![q] = SubSeq(d_list[q], 1, count)]
        /\ d_list' = [d_list EXCEPT ![q] = SubSeq(@, count + 1, Len(@))]
        /\ d_processor' = [d_processor EXCEPT ![q] = w]
        /\ at' = [at EXCEPT ![w].pc = "batch"]
        /\ UNCHANGED <<registryVars, d_lock, d_numActiveQueues, d_numEnqueued,
                       d_numDeleted, d_batchSize, d_enqueueState, d_runState,
                       d_pauseCount, poolVars, pc, ptr, step, waitVars,
                       scene, held>>

\* A job that makes no call runs.
runJob(t) ==
    /\ Calling(t, "nothing")
    /\ Return(t)
    /\ OnlyCall /\ UNCHANGED d_lock

\* Mutant: the queue goes to rest with the jobs that came during the batch.
finishBatch_Rests(w) ==
    LET q == at[w].queue IN
    /\ at[w].pc = "finish"
    /\ d_processor' = [d_processor EXCEPT ![q] = None]
    /\ \/ /\ d_runState[q] = "SCHEDULED"
          /\ d_runState' = [d_runState EXCEPT ![q] = "NOT_SCHEDULED"]
          /\ d_numActiveQueues' = d_numActiveQueues - 1
          /\ at' = [at EXCEPT ![w] = Idle]
          /\ UNCHANGED <<poolVars, woken>>
       \/ d_runState[q] # "SCHEDULED" /\ setPaused(w, q)
    /\ UNCHANGED <<registryVars, d_lock, d_numExecuted, d_numEnqueued,
                   d_numDeleted, d_list, d_batchSize, d_enqueueState,
                   d_pauseCount, d_batch, pc, ptr, step, latch, scene, held>>

\* The batch has run: enqueue the callback again, or leave the queue alone.
finishBatch(w) ==
    LET q == at[w].queue IN
    /\ at[w].pc = "finish"
    /\ d_processor' = [d_processor EXCEPT ![q] = None]
    /\ \/ /\ d_runState[q] = "SCHEDULED" /\ d_list[q] # <<>>
          /\ Submit(<<Callback(q)>>)
          /\ at' = [at EXCEPT ![w] = Idle]
          /\ UNCHANGED <<d_runState, d_numActiveQueues, woken>>
       \/ /\ d_runState[q] = "SCHEDULED" /\ d_list[q] = <<>>
          /\ d_runState' = [d_runState EXCEPT ![q] = "NOT_SCHEDULED"]
          /\ d_numActiveQueues' = d_numActiveQueues - 1
          /\ at' = [at EXCEPT ![w] = Idle]
          /\ UNCHANGED <<poolVars, woken>>
       \/ /\ d_runState[q] # "SCHEDULED"
          /\ setPaused(w, q)
    /\ UNCHANGED <<registryVars, d_lock, d_numExecuted, d_numEnqueued,
                   d_numDeleted, d_list, d_batchSize, d_enqueueState,
                   d_pauseCount, d_batch, pc, ptr, step, latch, scene, held>>

\* Mutant: the queue is released beside a thread that pauses it.
drainWaitWhilePausing_NoWait(w) ==
    /\ at[w].pc = "delete"
    /\ at' = [at EXCEPT ![w].pc = "release"]
    /\ UNCHANGED <<registryVars, d_lock, counterVars, queueVars, poolVars,
                   d_batch, pc, ptr, step, waitVars, scene,
                   held>>

\* drainWaitWhilePausing
drainWaitWhilePausing(w) ==
    /\ at[w].pc = "delete"
    /\ d_pauseCount[at[w].queue] = 0
    /\ at' = [at EXCEPT ![w].pc = "release"]
    /\ UNCHANGED <<registryVars, d_lock, counterVars, queueVars, poolVars,
                   d_batch, pc, ptr, step, waitVars, scene,
                   held>>

releaseObject(w) ==
    /\ at[w].pc = "release"
    /\ releaseObjects({at[w].queue})
    /\ at' = [at EXCEPT ![w].pc = "count_down"]
    /\ UNCHANGED <<d_queueRegistry, d_nextId, d_state, d_lock, counterVars,
                   poolVars, d_batch, pc, ptr, step, waitVars, scene>>

CountDown(w) ==
    /\ at[w].pc = "count_down"
    /\ d_numActiveQueues' = d_numActiveQueues - 1
    /\ at' = [at EXCEPT ![w] = IF at[w].signal = None THEN Idle
                               ELSE [@ EXCEPT !.pc = "arrive"]]
    /\ UNCHANGED <<registryVars, d_lock, d_numExecuted, d_numEnqueued,
                   d_numDeleted, queueVars, poolVars, d_batch, pc, ptr, step, waitVars, scene, held>>

arrive(w) ==
    /\ at[w].pc = "arrive"
    /\ latch' = [latch EXCEPT ![at[w].signal] = @ - 1]
    /\ at' = [at EXCEPT ![w] = Idle]
    /\ UNCHANGED <<registryVars, d_lock, counterVars, queueVars, poolVars,
                   d_batch, pc, ptr, step, woken, scene, held>>

deleteQueueCb(w) ==
    drainWaitWhilePausing(w) \/ releaseObject(w) \/ CountDown(w) \/ arrive(w)

-----------------------------------------------------------------------------
(* drain and drainQueue: repeated looks under the pool's lock *)

\* The first look at a pool that runs: no queue is active.  More is not asked of
\* a thread pool that is shared.
drain(t) ==
    /\ Calling(t, "drain")
    /\ CanRead
    /\ \/ /\ d_state = "STOPPED" \/ ~enabled
          /\ Return(t)
          /\ UNCHANGED d_lock
       \/ /\ ~(d_state = "STOPPED" \/ ~enabled)
          /\ d_numActiveQueues = 0
          /\ \/ /\ d_threadPoolIsOwned
                /\ Goto(t, "drain_threads")
                /\ ReadLock(t)
                /\ UNCHANGED ptr
             \/ /\ ~d_threadPoolIsOwned
                /\ Return(t)
                /\ UNCHANGED d_lock
    /\ OnlyCall

\* Then the thread pool is asked twice, while its threads go on.
drainPool(t) ==
    /\ \/ /\ pc[t] = "drain_threads"
          /\ IF \A w \in Worker : at[w] = Idle
             THEN Goto(t, "drain_pending") /\ UNCHANGED <<ptr, d_lock>>
             ELSE Goto(t, "idle") /\ ReadUnlock(t) /\ UNCHANGED ptr
       \/ /\ pc[t] = "drain_pending"
          /\ IF jobs = <<>> THEN Return(t) ELSE Goto(t, "idle") /\ UNCHANGED ptr
          /\ ReadUnlock(t)
    /\ OnlyCall

\* Mutant: a queue whose last job runs is drained.
isDrained_EmptyList(q) == d_list[q] = <<>>

isDrained(q) == d_list[q] = <<>> /\ Unscheduled(q)

drainQueue(t) ==
    /\ Calling(t, "drainQueue")
    /\ CanRead
    /\ NextCall(t).id \in DOMAIN d_queueRegistry => isDrained(QueueOf(t))
    /\ Return(t)
    /\ OnlyCall /\ UNCHANGED d_lock

-----------------------------------------------------------------------------
\* The counters are returned and zeroed, one by one; the number of executed
\* jobs may grow meanwhile, which comes to the same as after.
numProcessedReset(t) ==
    /\ Calling(t, "numProcessedReset")
    /\ CanWrite
    /\ reported' = reported + d_numEnqueued - d_numExecuted - d_numDeleted
    /\ d_numExecuted' = 0 /\ d_numDeleted' = 0 /\ d_numEnqueued' = 0
    /\ Return(t)
    /\ UNCHANGED <<registryVars, d_lock, d_numActiveQueues, queueVars, poolVars,
                   waitVars, program, d_threadPoolIsOwned, held>>

-----------------------------------------------------------------------------
(* start, stop and shutdown *)

\* start waits while the pool is being stopped.  The thread pool may fail to
\* start: then the queues are enabled and the pool is not.
start(t) ==
    /\ Calling(t, "start")
    /\ CanWrite
    /\ \/ /\ d_state = "RUNNING"
          /\ UNCHANGED <<d_state, d_enqueueState, enabled>>
       \/ /\ d_state = "STOPPED"
          /\ d_enqueueState' =
                [q \in Queue |-> IF q \in Registered THEN "ENABLED"
                                 ELSE d_enqueueState[q]]
          /\ \/ d_state' = "RUNNING"
                /\ enabled' = (enabled \/ d_threadPoolIsOwned)
             \/ d_threadPoolIsOwned /\ UNCHANGED <<d_state, enabled>>
    /\ Return(t)
    /\ UNCHANGED <<d_queueRegistry, d_nextId, free, d_lock, counterVars, d_list,
                   d_batchSize, d_runState, d_pauseCount, d_processor, jobs,
                   refused, waitVars, scene, held>>

\* The thread pool is disabled under the write lock, which is kept; one that is
\* shared is left alone.
DisablePool(t) ==
    \/ /\ d_threadPoolIsOwned
       /\ enabled' = FALSE
       /\ d_lock' = [d_lock EXCEPT !.writer = t]
       /\ Goto(t, "pool_drain")
       /\ UNCHANGED <<ptr, jobs, refused, d_state>>
    \/ /\ ~d_threadPoolIsOwned
       /\ d_state' = "STOPPED"
       /\ Return(t)
       /\ UNCHANGED <<d_lock, poolVars>>

StopActive(t, place) ==
    /\ d_state' = "STOPPING"
    /\ Goto(t, place)
    /\ UNCHANGED <<ptr, d_lock, poolVars, d_queueRegistry, d_nextId, free,
                   queueVars, held>>

stop(t) ==
    /\ Calling(t, "stop")
    /\ CanWrite
    /\ \/ d_state # "STOPPED" /\ StopActive(t, "stop_wait")
       \/ /\ d_state = "STOPPED"
          /\ Return(t)
          /\ UNCHANGED <<registryVars, d_lock, queueVars, poolVars, held>>
    /\ UNCHANGED <<counterVars, waitVars, scene>>

\* A pool that does not run is shut down at once: its queues are released.
shutdown(t) ==
    /\ Calling(t, "shutdown")
    /\ CanWrite
    /\ \/ /\ d_state # "STOPPED" /\ enabled
          /\ StopActive(t, "shutdown_wait")
       \/ /\ d_state = "STOPPED" \/ ~enabled
          /\ releaseObjects(Registered)
          /\ d_queueRegistry' = <<>>
          /\ d_nextId' = 1
          /\ DisablePool(t)
    /\ UNCHANGED <<counterVars, waitVars, scene>>

\* while (0 < d_numActiveQueues) yield();
NoActiveQueue(t) ==
    /\ d_numActiveQueues = 0
    /\ \/ pc[t] = "stop_wait"     /\ Goto(t, "stop_lock")
       \/ pc[t] = "shutdown_wait" /\ Goto(t, "shutdown_delete")
    /\ OnlyCall /\ UNCHANGED <<ptr, d_lock>>

\* shutdown deletes every queue and waits for them.
deleteAll(t) ==
    /\ pc[t] = "shutdown_delete"
    /\ CanWrite
    /\ enqueueDeletion(t, DOMAIN d_queueRegistry, t)
    /\ latch' = [latch EXCEPT ![t] = Cardinality(DOMAIN d_queueRegistry)]
    /\ d_queueRegistry' = <<>>
    /\ d_nextId' = 1
    /\ Goto(t, "shutdown_latch")
    /\ UNCHANGED <<d_state, free, d_lock, ptr, woken, scene, held>>

QueuesDeleted(t) ==
    /\ pc[t] = "shutdown_latch" /\ latch[t] = 0
    /\ Goto(t, "shutdown_relock")
    /\ OnlyCall /\ UNCHANGED <<ptr, d_lock>>

\* The thread pool is stopped, under the write lock.
stopPool(t) ==
    /\ pc[t] \in {"stop_lock", "shutdown_relock"}
    /\ CanWrite
    /\ DisablePool(t)
    /\ UNCHANGED <<d_queueRegistry, d_nextId, free, counterVars, queueVars,
                   waitVars, scene, held>>

poolStopped(t) ==
    /\ pc[t] = "pool_drain"
    /\ jobs = <<>> /\ \A w \in Worker : at[w] = Idle
    /\ d_state' = "STOPPED"
    /\ d_lock' = NoLock
    /\ Return(t)
    /\ UNCHANGED <<d_queueRegistry, d_nextId, free, counterVars, queueVars,
                   poolVars, waitVars, scene, held>>

-----------------------------------------------------------------------------
queueCall(t) ==
    \/ Fail(t) \/ Push(t) \/ enableOrDisable(t) \/ setBatchSize(t)
    \/ initiatePause(t) \/ resume(t) \/ createQueue(t) \/ deleteQueue(t)
    \/ drainQueue(t) \/ numProcessedReset(t) \/ runJob(t)

poolCall(t) == drain(t) \/ start(t) \/ stop(t) \/ shutdown(t)

Continue(t) ==
    \/ CountEnqueued(t) \/ waitWhilePausing(t) \/ LatchWait(t) \/ drainPool(t)
    \/ NoActiveQueue(t) \/ deleteAll(t) \/ QueuesDeleted(t) \/ stopPool(t)
    \/ poolStopped(t)

call(t) == queueCall(t) \/ poolCall(t) \/ Continue(t)

workerStep(w) ==
    \/ TakeCallback(w) \/ executeFrontPaused(w) \/ executeFront(w)
    \/ finishBatch(w) \/ deleteQueueCb(w) \/ ForeignReturns(w)

Finished == \A c \in Client : pc[c] = "idle" /\ step[c] = Len(program[c])

Done ==
    /\ Finished /\ jobs = <<>> /\ \A w \in Worker : at[w] = Idle
    /\ UNCHANGED vars

Next ==
    \/ \E t \in Thread : call(t) \/ SpuriousWakeup(t)
    \/ \E w \in Worker : workerStep(w)
    \/ EnqueueForeign
    \/ Done

Spec == Init /\ [][Next]_vars

\* Every thread that can go on does, and jobs return.
FairSpec ==
    /\ Spec
    /\ \A t \in Thread : WF_vars(call(t))
    /\ \A w \in Worker : WF_vars(workerStep(w))

-----------------------------------------------------------------------------
(* Properties *)

Serving(w, q) ==
    at[w].pc \notin {"idle", "count_down", "arrive"} /\ at[w].queue = q

\* The callbacks of queue q that the thread pool has, or runs.
Callbacks(q) == Cardinality({i \in 1 .. Len(jobs) : jobs[i].queue = q})
                + Cardinality({w \in Worker : Serving(w, q)})

\* "Since there is at most one representative functor per queue, each queue is
\* guaranteed to be processed serially": there is exactly one while the queue
\* is scheduled, being paused or being deleted, and none otherwise.
OneCallback ==
    \A q \in Queue :
        Callbacks(q) = IF /\ q \notin free
                          /\ \/ d_runState[q] \in {"SCHEDULED", "PAUSING"}
                             \/ d_enqueueState[q] = "DELETING"
                       THEN 1 ELSE 0

\* No job is stranded: a queue that nothing will serve is empty, a callback
\* finds a job at the front (the assertion in executeFront), and the thread
\* pool never refuses a callback (the assertions on the status of its
\* enqueueJob): stop and shutdown disable it only when no queue needs it.
NoJobStranded ==
    /\ ~refused
    /\ \A q \in Queue :
          (d_runState[q] = "NOT_SCHEDULED" /\ d_enqueueState[q] # "DELETING")
             => d_list[q] = <<>> /\ d_batch[q] = <<>>
    /\ \A w \in Worker : at[w].pc = "execute" => d_list[at[w].queue] # <<>>

\* d_numActiveQueues, on which stop, shutdown and drain rely, counts the
\* queues the thread pool has still to do with.
ActiveExact ==
    d_numActiveQueues = Cardinality({q \in Queue : Callbacks(q) # 0})
        + Cardinality({w \in Worker : at[w].pc = "count_down"})

\* numElements() is the number of jobs in the queues, once the calls that have
\* queued a job have counted it, and given what numProcessedReset has returned:
\* no reset loses a job that is counted beside it.
CountersExact ==
    reported + d_numEnqueued - d_numExecuted - d_numDeleted
        + Cardinality({t \in Thread : pc[t] = "count"})
    = Length({q \in Queue : d_enqueueState[q] # "DELETING"})

\* The counters agree with the queues.
Consistent == TypeOK /\ ActiveExact /\ CountersExact

\* No queue is released while a callback, a pausing thread or the registry
\* still has its address.
NoUseAfterRelease ==
    \A q \in free :
        /\ Callbacks(q) = 0
        /\ \A t \in Thread : ptr[t] # q
        /\ q \notin Registered

\* After pauseQueue returns no job of the queue runs until it is resumed.
PauseInForce ==
    \A q \in Queue : held[q] = "yes" =>
        \A w \in Worker : ~(Serving(w, q) /\ at[w].pc \in {"batch", "finish"})

Settled(q) ==
    d_batch[q] = <<>> /\ (d_list[q] # <<>> => d_runState[q] = "PAUSED")

\* stop and shutdown return, drain goes on to ask the thread pool, or returns if
\* that is shared, and drainQueue returns, when no job runs and none is left
\* but in paused queues.
ReturnsWhenDone ==
    [][\A t \in Thread :
         /\ \/ /\ pc[t] \in {"pool_drain", "stop_lock", "shutdown_relock"}
               /\ pc'[t] = "idle"
            \/ pc[t] = "idle" /\ pc'[t] = "drain_threads"
            \/ /\ t \in Client /\ step'[t] # step[t]
               /\ Calling(t, "drain") /\ d_state # "STOPPED" /\ enabled
            => \A q \in Queue : Settled(q)
         /\ \A id \in DOMAIN d_queueRegistry :
               (/\ Calling(t, "drainQueue") /\ NextCall(t).id = id
                /\ t \in Client /\ step'[t] # step[t])
               => d_list[d_queueRegistry[id]] = <<>> /\ Settled(d_queueRegistry[id])]_vars

\* The clients get through their calls: pauseQueue, deleteQueue, the drains,
\* stop and shutdown return.
CallsReturn == <>Finished

=============================================================================
