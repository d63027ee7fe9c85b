----------------------------- MODULE ThreadPool -----------------------------
(***************************************************************************)
(* bdlmt::ThreadPool: a queue of jobs served by between MinThreads and     *)
(* MaxThreads worker threads that are created on demand and leave when     *)
(* they have been idle for too long.                                       *)
(*                                                                         *)
(* All state is guarded by d_mutex, so the code between two acquisitions   *)
(* of the mutex (a wait on a condition variable releases it) is one        *)
(* action; a job runs outside the mutex.  Workers sleep on a list of wait  *)
(* nodes, the most recent first, each with a condition of its own; callers *)
(* of drain, stop and shutdown sleep on d_drainCond.                       *)
(***************************************************************************)
EXTENDS Integers, Sequences, FiniteSets

CONSTANTS
    Thread,      \* worker threads that may ever be alive at the same time
    Job,         \* functors clients enqueue
    Null,        \* the null functor that tells a worker to leave
    Caller,      \* client threads
    Scripts,     \* the calls clients make, in order: functions of clients
    MinThreads,  \* d_minThreads
    MaxThreads,  \* d_maxThreads
    MayFail      \* may the creation of a thread fail?

Enqueue(j) == [op |-> "enqueue", job |-> j]
Op(name)   == [op |-> name, job |-> Null]

\* "join" is the client's own: it waits for the other clients to be done.
Operation == {Enqueue(j) : j \in Job}
        \cup {Op(o) : o \in {"start", "drain", "stop", "shutdown", "join"}}

ASSUME PoolAssumption ==
    /\ MinThreads \in Nat
    /\ MaxThreads \in Nat
    /\ MinThreads <= MaxThreads
    /\ IsFiniteSet(Thread)
    /\ Null \notin Job
    /\ Scripts \subseteq [Caller -> Seq(Operation)]
    /\ MayFail \in BOOLEAN

\* The scripts in which one client decides what threads there should be.
Manages(s, c) ==
    \E i \in DOMAIN s[c] : s[c][i].op \in {"start", "stop", "shutdown"}
OneManager ==
    \A s \in Scripts : \A c, d \in Caller : Manages(s, c) /\ Manages(s, d) => c = d

VARIABLES
    d_queue,             \* pending jobs
    d_threadCount,
    d_numActiveThreads,
    d_createFailures,    \* threads that could not be created, the first one too
    d_enabled,
    d_waitHead,          \* the wait nodes from d_waitHead on, by their thread
    worker,              \* worker[t]: where thread t is in workerThread
    hasJob,              \* hasJob[t]: d_hasJob of the thread's wait node
    timed,               \* timed[t]: the thread's wait has a timeout
    functor,             \* functor[t]: the job thread t is running
    caller,              \* caller[c]: the wait client c is in, or "idle"
    woken,               \* woken[c]: d_drainCond was signaled since c waits
    script,              \* script[c]: the calls client c makes
    step,                \* step[c]: calls client c has finished
    status,              \* status[j]: what became of job j
    reply                \* reply[j]: what enqueueJob returned for j

poolVars   == <<d_queue, d_threadCount, d_numActiveThreads, d_enabled,
                d_waitHead, d_createFailures>>
workerVars == <<worker, hasJob, timed, functor>>
callerVars == <<caller, woken, script, step>>
jobVars    == <<status, reply>>
vars       == <<poolVars, workerVars, callerVars, jobVars>>

WorkerState == {"none", "start", "wait", "run", "done"}
CallerState == {"idle", "drain", "stop", "shutdown", "start_failed"}
Status      == {"new", "queued", "running", "done", "cancelled", "refused"}

TypeOK ==
    /\ d_queue \in Seq(Job \cup {Null})
    /\ d_threadCount \in Nat
    /\ d_numActiveThreads \in Nat
    /\ d_createFailures \in Nat
    /\ d_enabled \in BOOLEAN
    /\ d_waitHead \in Seq(Thread)
    /\ worker \in [Thread -> WorkerState]
    /\ hasJob \in [Thread -> BOOLEAN]
    /\ timed \in [Thread -> BOOLEAN]
    /\ functor \in [Thread -> Job \cup {Null}]
    /\ caller \in [Caller -> CallerState]
    /\ woken \in [Caller -> BOOLEAN]
    /\ script \in Scripts
    /\ step \in [Caller -> Nat]
    /\ status \in [Job -> Status]
    /\ reply \in [Job -> {"none", "ok", "error"}]

Init ==
    /\ d_queue = <<>>
    /\ d_threadCount = 0
    /\ d_numActiveThreads = 0
    /\ d_createFailures = 0
    /\ d_enabled = FALSE
    /\ d_waitHead = <<>>
    /\ worker = [t \in Thread |-> "none"]
    /\ hasJob = [t \in Thread |-> FALSE]
    /\ timed = [t \in Thread |-> FALSE]
    /\ functor = [t \in Thread |-> Null]
    /\ caller = [c \in Caller |-> "idle"]
    /\ woken = [c \in Caller |-> FALSE]
    /\ script \in Scripts
    /\ step = [c \in Caller |-> 0]
    /\ status = [j \in Job |-> "new"]
    /\ reply = [j \in Job |-> "none"]

-----------------------------------------------------------------------------
\* d_drainCond.broadcast(), when the condition holds.
BroadcastIf(condition) ==
    woken' = [c \in Caller |-> woken[c] \/ (condition /\ caller[c] # "idle")]

\* Mutant: nobody is woken.
doEnqueueJobs_NoWake(queue, jobs) ==
    /\ d_queue' = queue \o jobs
    /\ UNCHANGED <<d_waitHead, hasJob>>

\* doEnqueueJob for each of the given jobs: each wakes the thread at the head
\* of the wait list, if there is one.
doEnqueueJobs(queue, jobs) ==
    /\ d_queue' = queue \o jobs
    /\ d_waitHead' = SubSeq(d_waitHead, Len(jobs) + 1, Len(d_waitHead))
    /\ hasJob' = [t \in Thread |->
                    \/ hasJob[t]
                    \/ \E i \in 1 .. Len(d_waitHead) :
                          i <= Len(jobs) /\ d_waitHead[i] = t]

\* startNewThread, once for each thread of S.
startNewThreads(S) ==
    /\ \A t \in S : worker[t] = "none"
    /\ worker' = [t \in Thread |-> IF t \in S THEN "start" ELSE worker[t]]
    /\ d_threadCount' = d_threadCount + Cardinality(S)

-----------------------------------------------------------------------------
(* workerThread: each action is one pass from an acquisition of the mutex   *)
(* to its release.                                                          *)

\* The job returns and is destroyed, outside the mutex.
RunJob(t) ==
    /\ worker[t] = "run"
    /\ worker' = [worker EXCEPT ![t] = "done"]
    /\ status' = [status EXCEPT ![functor[t]] = "done"]
    /\ functor' = [functor EXCEPT ![t] = Null]
    /\ UNCHANGED <<poolVars, hasJob, timed, callerVars, reply>>

\* Mutant: nobody waiting in drain is told that the pool is idle.
Sleep_NoBroadcast(t, active, list) ==
    /\ d_queue = <<>>
    /\ d_waitHead' = <<t>> \o list
    /\ hasJob' = [hasJob EXCEPT ![t] = FALSE]
    /\ timed' = [timed EXCEPT ![t] = MinThreads <= active]
    /\ worker' = [worker EXCEPT ![t] = "wait"]
    /\ d_numActiveThreads' = active
    /\ UNCHANGED <<d_queue, d_threadCount, d_createFailures, d_enabled,
                   functor, callerVars, jobVars>>

\* The queue is empty: attach the wait node to the head of the list and wait,
\* with a timeout unless the thread is needed to keep the minimum.
Sleep(t, active, list) ==
    /\ d_queue = <<>>
    /\ BroadcastIf(active = 0)
    /\ d_waitHead' = <<t>> \o list
    /\ hasJob' = [hasJob EXCEPT ![t] = FALSE]
    /\ timed' = [timed EXCEPT ![t] = MinThreads <= active]
    /\ worker' = [worker EXCEPT ![t] = "wait"]
    /\ d_numActiveThreads' = active
    /\ UNCHANGED <<d_queue, d_threadCount, d_createFailures, d_enabled,
                   functor, caller, script, step, jobVars>>

\* The thread leaves the pool.
Leave(t, list) ==
    /\ d_threadCount' = d_threadCount - 1
    /\ worker' = [worker EXCEPT ![t] = "none"]
    /\ hasJob' = [hasJob EXCEPT ![t] = FALSE]
    /\ timed' = [timed EXCEPT ![t] = FALSE]
    /\ d_waitHead' = list

\* The thread takes the job at the front of the queue; a null job ends it.
TakeJob(t, active, list) ==
    /\ d_queue # <<>>
    /\ d_queue' = Tail(d_queue)
    /\ \/ /\ Head(d_queue) = Null
          /\ Leave(t, list)
          /\ BroadcastIf(d_threadCount = 1)
          /\ d_numActiveThreads' = active
          /\ UNCHANGED <<functor, status>>
       \/ /\ Head(d_queue) # Null
          /\ d_numActiveThreads' = active + 1
          /\ d_waitHead' = list
          /\ worker' = [worker EXCEPT ![t] = "run"]
          /\ hasJob' = [hasJob EXCEPT ![t] = FALSE]
          /\ timed' = [timed EXCEPT ![t] = FALSE]
          /\ functor' = [functor EXCEPT ![t] = Head(d_queue)]
          /\ status' = [status EXCEPT ![Head(d_queue)] = "running"]
          /\ UNCHANGED <<d_threadCount, woken>>
    /\ UNCHANGED <<d_createFailures, d_enabled, caller, script, step, reply>>

LookForJob(t, active, list) ==
    Sleep(t, active, list) \/ TakeJob(t, active, list)

StartWorker(t) ==
    /\ worker[t] = "start"
    /\ LookForJob(t, d_numActiveThreads, d_waitHead)

\* Mutant: the job that returned still counts as active.
FinishJob_StillActive(t) ==
    /\ worker[t] = "done"
    /\ LookForJob(t, d_numActiveThreads, d_waitHead)

FinishJob(t) ==
    /\ worker[t] = "done"
    /\ LookForJob(t, d_numActiveThreads - 1, d_waitHead)

WakeUp(t) ==
    /\ worker[t] = "wait" /\ hasJob[t]
    /\ LookForJob(t, d_numActiveThreads, d_waitHead)

\* The wait timed out before a job was announced: unlink the wait node, and
\* leave if there are threads enough.
TimeOut(t) ==
    /\ worker[t] = "wait" /\ ~hasJob[t] /\ timed[t]
    /\ \E i \in 1 .. Len(d_waitHead) :
          LET list == SubSeq(d_waitHead, 1, i - 1)
                        \o SubSeq(d_waitHead, i + 1, Len(d_waitHead))
          IN  /\ d_waitHead[i] = t
              /\ \/ /\ d_threadCount > MinThreads
                    /\ Leave(t, list)
                    /\ UNCHANGED <<d_queue, d_numActiveThreads, d_createFailures,
                                   d_enabled, functor, callerVars, jobVars>>
                 \/ /\ d_threadCount <= MinThreads
                    /\ LookForJob(t, d_numActiveThreads, list)

-----------------------------------------------------------------------------
(* The clients' calls *)

NextCall(c) == script[c][step[c] + 1]
Calling(c, o) ==
    /\ caller[c] = "idle"
    /\ step[c] < Len(script[c])
    /\ NextCall(c).op = o

Return(c) ==
    /\ step' = [step EXCEPT ![c] = @ + 1]
    /\ UNCHANGED script
    /\ caller' = [caller EXCEPT ![c] = "idle"]
    /\ woken' = [woken EXCEPT ![c] = FALSE]

WaitIn(c, state) ==
    /\ caller' = [caller EXCEPT ![c] = state]
    /\ woken' = [woken EXCEPT ![c] = FALSE]
    /\ UNCHANGED <<script, step>>

\* startThreadIfNeeded, after job j was queued, and the return of enqueueJob:
\* an error is returned when the pool is left without a thread.
StartThreadIfNeeded(j) ==
    LET needed == /\ Len(d_queue) + 1 + d_numActiveThreads > d_threadCount
                  /\ d_threadCount < MaxThreads
    IN  \/ /\ ~needed
           /\ UNCHANGED <<d_threadCount, d_createFailures, worker>>
           /\ reply' = [reply EXCEPT ![j] = "ok"]
        \/ /\ needed
           /\ \E t \in Thread : startNewThreads({t})
           /\ UNCHANGED d_createFailures
           /\ reply' = [reply EXCEPT ![j] = "ok"]
        \/ /\ needed /\ MayFail
           /\ d_createFailures' = d_createFailures + 1
           /\ UNCHANGED <<d_threadCount, worker>>
           /\ reply' = [reply EXCEPT ![j] = IF d_threadCount = 0 THEN "error"
                                            ELSE "ok"]

enqueueJob(c) ==
    LET j == NextCall(c).job IN
    /\ Calling(c, "enqueue")
    /\ Return(c)
    /\ \/ /\ ~d_enabled
          /\ status' = [status EXCEPT ![j] = "refused"]
          /\ reply' = [reply EXCEPT ![j] = "error"]
          /\ UNCHANGED <<poolVars, workerVars>>
       \/ /\ d_enabled
          /\ doEnqueueJobs(d_queue, <<j>>)
          /\ StartThreadIfNeeded(j)
          /\ status' = [status EXCEPT ![j] = "queued"]
          /\ UNCHANGED <<d_numActiveThreads, d_enabled, timed, functor>>

Busy == (d_threadCount # 0 /\ d_queue # <<>>) \/ d_numActiveThreads # 0

drain(c) ==
    /\ Calling(c, "drain")
    /\ d_enabled' = FALSE
    /\ IF Busy THEN WaitIn(c, "drain") ELSE Return(c)
    /\ UNCHANGED <<d_queue, d_threadCount, d_numActiveThreads,
                   d_createFailures, d_waitHead, workerVars, jobVars>>

drainAgain(c) ==
    /\ caller[c] = "drain" /\ woken[c]
    /\ IF Busy THEN WaitIn(c, "drain") ELSE Return(c)
    /\ UNCHANGED <<poolVars, workerVars, jobVars>>

Nulls(n) == [i \in 1 .. n |-> Null]

stop(c) ==
    /\ Calling(c, "stop")
    /\ d_enabled' = FALSE
    /\ doEnqueueJobs(d_queue, Nulls(d_threadCount))
    /\ IF d_threadCount # 0 THEN WaitIn(c, "stop") ELSE Return(c)
    /\ UNCHANGED <<d_threadCount, d_numActiveThreads, d_createFailures,
                   worker, timed, functor, jobVars>>

stopAgain(c) ==
    /\ caller[c] = "stop" /\ woken[c]
    /\ IF d_threadCount # 0 THEN WaitIn(c, "stop") ELSE Return(c)
    /\ UNCHANGED <<poolVars, workerVars, jobVars>>

\* The jobs still queued are destroyed.
CancelQueued ==
    status' = [j \in Job |-> IF status[j] = "queued" THEN "cancelled"
                             ELSE status[j]]

\* Mutant: shutdown leaves the queued jobs in place.
shutdown_KeepQueue(c) ==
    /\ Calling(c, "shutdown") \/ caller[c] = "start_failed"
    /\ d_enabled' = FALSE
    /\ doEnqueueJobs(d_queue, Nulls(d_threadCount))
    /\ IF d_threadCount # 0 THEN WaitIn(c, "shutdown") ELSE Return(c)
    /\ UNCHANGED <<d_threadCount, d_numActiveThreads, d_createFailures,
                   worker, timed, functor, jobVars>>

\* shutdown, called by the client or by a start that failed.
shutdown(c) ==
    /\ Calling(c, "shutdown") \/ caller[c] = "start_failed"
    /\ d_enabled' = FALSE
    /\ CancelQueued
    /\ doEnqueueJobs(<<>>, Nulls(d_threadCount))
    /\ IF d_threadCount # 0 THEN WaitIn(c, "shutdown") ELSE Return(c)
    /\ UNCHANGED <<d_threadCount, d_numActiveThreads, d_createFailures,
                   worker, timed, functor, reply>>

shutdownAgain(c) ==
    /\ caller[c] = "shutdown" /\ woken[c]
    /\ \/ /\ d_threadCount # 0
          /\ WaitIn(c, "shutdown")
          /\ UNCHANGED <<d_queue, status>>
       \/ /\ d_threadCount = 0
          /\ Return(c)
          /\ d_queue' = <<>>
          /\ CancelQueued
    /\ UNCHANGED <<d_threadCount, d_numActiveThreads, d_createFailures,
                   d_enabled, d_waitHead, workerVars, reply>>

\* Mutant: start creates one thread too few.
start_OneShort(c) ==
    LET missing == IF d_threadCount + 1 < MinThreads
                   THEN MinThreads - d_threadCount - 1 ELSE 0
    IN  /\ Calling(c, "start")
        /\ d_enabled' = TRUE
        /\ \E S \in SUBSET Thread :
              /\ startNewThreads(S)
              /\ Cardinality(S) = missing
              /\ Return(c)
        /\ UNCHANGED <<d_queue, d_numActiveThreads, d_createFailures, d_waitHead, hasJob, timed,
                       functor, jobVars>>

\* start: the creation of any of the missing threads may fail; the mutex is
\* then released and the pool shut down.
start(c) ==
    LET missing == IF d_threadCount < MinThreads
                   THEN MinThreads - d_threadCount ELSE 0
    IN  /\ Calling(c, "start")
        /\ d_enabled' = TRUE
        /\ \E S \in SUBSET Thread :
              /\ startNewThreads(S)
              /\ \/ /\ Cardinality(S) = missing
                    /\ Return(c)
                    /\ UNCHANGED d_createFailures
                 \/ /\ MayFail /\ Cardinality(S) < missing
                    /\ WaitIn(c, "start_failed")
                    /\ d_createFailures' = d_createFailures + 1
        /\ UNCHANGED <<d_queue, d_numActiveThreads, d_waitHead, hasJob, timed,
                       functor, jobVars>>

join(c) ==
    /\ Calling(c, "join")
    /\ \A d \in Caller \ {c} : step[d] = Len(script[d])
    /\ Return(c)
    /\ UNCHANGED <<poolVars, workerVars, jobVars>>

\* A wait on a condition variable may return for no reason.
SpuriousWakeup(c) ==
    /\ caller[c] \in {"drain", "stop", "shutdown"}
    /\ woken' = [woken EXCEPT ![c] = TRUE]
    /\ UNCHANGED <<poolVars, workerVars, caller, script, step, jobVars>>

-----------------------------------------------------------------------------
workerThread(t) ==
    StartWorker(t) \/ RunJob(t) \/ FinishJob(t) \/ WakeUp(t)

Continue(c) ==
    \/ drainAgain(c) \/ stopAgain(c) \/ shutdownAgain(c)
    \/ caller[c] = "start_failed" /\ shutdown(c)

call(c) ==
    \/ enqueueJob(c) \/ drain(c) \/ stop(c) \/ shutdown(c) \/ start(c)
    \/ join(c)

Done ==
    /\ \A c \in Caller : caller[c] = "idle" /\ step[c] = Len(script[c])
    /\ UNCHANGED vars

PoolNext ==
    \/ \E t \in Thread : workerThread(t) \/ TimeOut(t)
    \/ \E c \in Caller : call(c) \/ Continue(c) \/ SpuriousWakeup(c)
    \/ Done

Spec == Init /\ [][PoolNext]_vars

\* Workers and signaled callers are scheduled, and jobs return.
FairSpec ==
    /\ Spec
    /\ \A t \in Thread : WF_vars(workerThread(t))
    /\ \A c \in Caller : WF_vars(Continue(c)) /\ WF_vars(call(c))

-----------------------------------------------------------------------------
(* Properties *)

Alive    == {t \in Thread : worker[t] # "none"}
Signaled == {t \in Thread : worker[t] = "wait" /\ hasJob[t]}
Asleep   == {t \in Thread : worker[t] = "wait" /\ ~hasJob[t]}
Active   == {t \in Thread : worker[t] \in {"run", "done"}}

Nodes(list)    == {list[i] : i \in 1 .. Len(list)}
Distinct(list) == \A i, k \in 1 .. Len(list) : list[i] = list[k] => i = k

\* The wait list links each sleeping thread once, and no other thread: the
\* nodes are locals of workerThread, so a node left behind is a dangling one.
WaitListExact == Nodes(d_waitHead) = Asleep /\ Distinct(d_waitHead)

\* The counters that decide when drain and stop return, and when a thread is
\* created, agree with the threads there are.
CountsAccurate ==
    /\ d_threadCount = Cardinality(Alive)
    /\ d_threadCount <= MaxThreads
    /\ d_numActiveThreads = Cardinality(Active)

\* The pool's own records of its threads are right.
Consistent == TypeOK /\ WaitListExact /\ CountsAccurate

\* No lost wakeup: a thread is left asleep only while every job in the queue
\* has a thread of its own on its way to take it.
NoSleeperWithBacklog ==
    d_waitHead # <<>> => Len(d_queue) <= Cardinality(Signaled)

\* The pool grows with its load: unless it is at its maximum, or a thread could
\* not be created, it has a thread for every job that is queued or running.
\* (Null jobs take threads away.)
JobsHaveThreads ==
    \/ d_createFailures # 0
    \/ \E i \in 1 .. Len(d_queue) : d_queue[i] = Null
    \/ Len(d_queue) + d_numActiveThreads <= d_threadCount
    \/ d_threadCount = MaxThreads

\* "A client-defined minimum number of threads is always maintained": while
\* the pool is enabled, and no call is changing that, it has MinThreads.
MinThreadsMaintained ==
    d_enabled /\ (\A c \in Caller : caller[c] = "idle")
    => d_threadCount >= MinThreads

\* The pool has the threads its load and its minimum ask for.
EnoughThreads == JobsHaveThreads /\ MinThreadsMaintained

Returns(c, o) == step'[c] = step[c] + 1 /\ NextCall(c).op = o

\* drain and stop return when every accepted job is done or cancelled,
\* shutdown when none is left at all; after stop and shutdown no thread of the
\* pool runs any more.
ReturnsWhenDone ==
    [][\A c \in Caller :
         /\ Returns(c, "drain") \/ Returns(c, "stop") =>
               \A j \in Job : /\ status'[j] # "running"
                              /\ status'[j] = "queued" => reply'[j] = "error"
         /\ Returns(c, "shutdown") =>
               \A j \in Job : status'[j] \notin {"queued", "running"}
         /\ Returns(c, "stop") \/ Returns(c, "shutdown") =>
               \A t \in Thread : worker'[t] = "none"]_vars

\* A job that was accepted is run, or cancelled by shutdown.
JobsRun ==
    \A j \in Job : status[j] = "queued" /\ reply[j] = "ok"
                      ~> status[j] \in {"done", "cancelled"}

\* drain, stop, shutdown and a start that failed return.
CallsReturn == \A c \in Caller : caller[c] # "idle" ~> caller[c] = "idle"

\* What was accepted is run, and who waits for that returns.
Progress == JobsRun /\ CallsReturn

=============================================================================
