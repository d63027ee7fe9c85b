# Verification of the concurrent components of BDE

BDE is a large C++ foundation library. Most of it is sequential: containers,
value types, codecs, and wrappers of the operating system. Its concurrent core
is three packages that build on each other:

    bdlmt   thread pools, event schedulers        monitors over queues of jobs
      |
    bdlcc   concurrent queues, pools, caches      lock-free words and semaphores
      |
    bslmt   mutexes, semaphores, barriers, locks  atomic words and OS primitives

This directory holds TLA+ models of that core, the TLC configurations that
check them, and TLAPS proofs. Paths below are relative to `src/groups/`.

## Inventory

| component | state | operations | what is hard | what must hold |
|---|---|---|---|---|
| `bdlcc::FixedQueueIndexManager` | two index words, one state word (generation, state) per element | reserve, commit and abort a push or a pop; clear; disable, enable | lock-free swaps by threads with stale registers; generations that wrap | reservations are exclusive and in order; full and empty are true when reported; every call returns |
| `bdlcc::FixedQueue` | the manager, the elements, two counters of waiting threads, two semaphores | push, pop, try forms, removeAll, disable, enable; a guard and a proctor for exceptions | sleeping on a condition computed from two separate loads; constructors that throw | a bounded FIFO; no lost wakeup; each element built and destroyed once |
| `bdlmt::ThreadPool` | queue of jobs, wait list, two counters, enabled flag | enqueueJob, start, drain, stop, shutdown; workers | threads created on demand and leaving on a timeout; lifecycle calls that overlap; creation that fails | counters exact; no sleeper beside a backlog; accepted jobs run; calls return |
| `bslmt::ReaderWriterMutexImpl` | one word (readers, pending, writer), a mutex, a semaphore | lockRead, lockWrite, try forms, three unlocks | a fast path around the mutex; a semaphore posted after the word is changed | a writer is alone; one token per waiting writer; nobody starves |
| `bdlmt::MultiQueueThreadPool` | registry of queues, each with run and enqueue state, pause count, batch | create, delete, pause, resume, enqueue, drain, shutdown | jobs that delete or pause their own queue; queues returned to a pool | jobs of a queue run one at a time and in order; pause and delete wait for the job in progress |
| `bdlmt::EventScheduler` | two time queues, the event the dispatcher is at, the dispatcher's flags, the callback inside each event | schedule, cancel and reschedule (with or without waiting), cancelAll, start, stop; the dispatcher | the queues have a lock of their own, which clients take without the scheduler's; a stale cached time; callbacks that are moved out of an event and back; waiting for one's own event | an event runs once or is cancelled; nothing runs early; no event sleeps past its time; a wait means the callback is over |
| `bslmt::FastPostSemaphoreImpl` | one word (available, disabled generation, blocked), mutex, condition | post, postWithRedundantSignal, wait, timedWait, tryWait, take, takeAll, disable, enable | posts without the mutex; waits that count below zero and give back; a disable and an enable beside a thread that is going to sleep | the word is exact; no lost wakeup; a disabled wait returns |
| `bdlcc::BoundedQueue` | a ring of nodes, two indices, two counts of operations under way, two semaphores, a counter of threads that wait for the empty queue | push, pop, try forms, removeAll, waitUntilEmpty, disable and enable of each side | an operation posts for others that finished before it; a push that throws leaves a node behind; a counter compared on a circle | a bounded FIFO; both semaphores are posted exactly what was finished; waiters are told of emptiness truly and always |
| `bslmt::Sluice` | the pending and the signaled generation, a pool of descriptors, a semaphore each | enter, wait, timedWait, signalOne, signalAll | signals posted after the mutex is released; a timeout that meets a signal; descriptors used again | signals go to the oldest; a signaled thread leaves; descriptors are counted exactly |
| `bdlmt::FixedThreadPool`, `MultipriorityThreadPool`, `ThreadMultiplexor`, `TimerEventScheduler`, `Signaler`, `Throttle` | queues of jobs and gates | as `ThreadPool` and `EventScheduler` | the same | the same |
| `bslmt::Barrier`, `Latch`, `Turnstile`, `Once`, `QLock` | small monitors | arrive, wait, timed wait | timeouts against releases; destruction beside the last waiter | all or none released; no use after destruction |
| `bdlcc` `SingleProducerQueueImpl`, `SingleConsumerQueueImpl`, SPSC queue, `ObjectPool`, `TimeQueue`, `SkipList`, `Cache` | lock-free lists and rings, lists in order of time | push, pop, get, release | ABA, throwing constructors, disabling | FIFO, no lost element, no double release |

How they interact: `FixedQueue` calls the index manager for every reservation
and sleeps on `bslmt::Semaphore`; `ThreadPool` uses a mutex and conditions and
is called back by the jobs it runs; `FixedThreadPool` and `ThreadMultiplexor`
are clients of `FixedQueue`; `MultiQueueThreadPool` enqueues into a
`ThreadPool` and guards its registry with `ReaderWriterMutex`; the event
schedulers keep their events in `SkipList`s or `TimeQueue`s and call back into
code that calls them; `BoundedQueue` sleeps on two `FastPostSemaphore`s;
`Sluice` on a `Semaphore` for each generation.

The rest of the repository (the other packages of `bsl` and `bdl`, `bal`,
`bbl`, vendored code, tools) is listed in `PROJECT.json` with the reason it is
not modelled. In short: it is sequential code over data, whose defects a unit
test reaches, or input and output.

## Modules

| module | models |
|---|---|
| `FixedQueueIndexManager` | the words of the manager and one action per atomic operation (load, swap, store) of each of its functions, with a program counter and registers per thread |
| `FixedQueueIndexManagerClient` | the manager alone, driven by clients that reserve, commit, abort, clear, disable and enable in any order the contract allows |
| `FixedQueue` | the queue: `EXTENDS` the manager and adds the queue's own atomic operations, the elements and the semaphores |
| `FixedQueueProofs` | inductive invariants and theorems about the fixed queue, that it implements `BoundedFifo`, and that it loses no wakeup |
| `BoundedFifo` | the abstract specification `FixedQueue` and `BoundedQueue` implement |
| `ThreadPool` | the pool: one action per critical section of `d_mutex`, and the job itself outside it |
| `ThreadPoolProofs` | inductive invariant and theorems about `ThreadPool` |
| `ReaderWriterMutexImpl` | the lock: one action per operation on the word, the mutex or the semaphore |
| `ReaderWriterMutexProofs` | inductive invariant and theorems about the lock |
| `MultiQueueThreadPool` | the queues, their registry and the lifecycle of the pool, over a thread pool of which only the promise is kept |
| `MultiQueueThreadPoolProofs` | inductive invariant and theorems about the multi-queue pool |
| `EventScheduler` | the scheduler: the dispatcher's loop and the calls of clients and of callbacks, with a clock; one action per operation on a time queue or critical section of `d_mutex` |
| `EventSchedulerProofs` | inductive invariant and theorems about the scheduler |
| `FastPostSemaphoreImpl` | the semaphore: one action per access to the word, the mutex or the condition |
| `FastPostSemaphoreProofs` | inductive invariants and theorems about the semaphore |
| `BoundedQueue` | the queue: one action per access to a shared word, over semaphores of which only the promise is kept |
| `BoundedQueueProofs` | inductive invariant and theorems about the bounded queue |
| `Sluice` | the sluice: one action per critical section and per operation on a semaphore |
| `SluiceProofs` | inductive invariant and theorems about the sluice |
| `MC*` | constants for TLC: which threads make which calls |

### State and actions against the code

*Index manager.* `d_pushIndex` is a record of the combined index and the
disabled bit, `d_popIndex` a number, `d_states[i]` the generation and state of
an element; `index`, `generation`, `nextCombinedIndex`, `nextGeneration` are
the functions of the same name, with the wrap of the index range. `loaded`,
`saved` and `own` are the local variables `loadedPushIndex` and the like.
A `testAndSwap` is one action with a disjunct for success and one for each
branch the code takes on the value it gets back. The assertions of the source
are the property `ReserveAsserts`.

*Fixed queue.* The construction, copy or destruction of an element is one
action with the store that publishes it: between the reservation and that
store no other thread may touch the element, which is what `ExclusiveElement`
shows. `throw` in a thread's role makes its constructors throw.

*Thread pool.* A worker's pass from one acquisition of the mutex to the next
(`LookForJob`) is one action: finish the last job, sleep, time out and leave,
or take a job. The wait list is a sequence from its head. `startThreadIfNeeded`
and `startNewThread` are part of the call they belong to. `script[c]` is what
client `c` calls, in order; `join` is the client's own wait for the others.

*Event scheduler.* `queue[k]` is one of the two `SkipList`s as a sequence of
events, `key` the time an event has there (which a removed event keeps, as its
node does), `d_callback` what is inside the event: the user's callback, the
marker the dispatcher leaves while it runs it, or nothing. Each operation on a
list is one action, since the list has its own lock; so an event may be added
between the dispatcher's look at one queue (`LoopTop`) and at the other
(`Choose`), and before the adder locks `d_mutex` to signal. `Act` removes the
event it chose (`DispatchOnce`), queues it again (`DispatchRecurring`), or puts
it off because its own clock says so (`PutOff`); events that are cancelled or
moved meanwhile are found out there. `d_mutex` is free between actions except
from `front` to the end of `act` (`MutexFree`); `d_dispatcherMutex` is held
while `stop` joins. A callback makes the one call its event's program names, as
the thread `"dispatcher"`; in the run no callback makes a call that waits
(`cancelEventAndWait` and the like), which is the contract, and by
`ProgramsAssumption` none starts or stops the scheduler it is run by. An event
whose `fate` is `created` exists and has its time, but is not in its queue yet:
`scheduleEvent` reads `d_cachedNow` before `addEvent` takes the queue's lock.
`fate`, `covers` and
`quiet` are not in the code: they record what became of an event and for which
events a call has promised to wait. A wait ends at the next iteration of the
dispatcher, which may already be the next run of the same event.

*Fast-post semaphore.* `d_state` is a record of the packed word's fields;
TypeOK shows that none leaves its range for fewer than 2^24 threads, so that
the additions on the word are additions on the fields. Every load, swap and
addition is an action, with the slow paths' re-reading loops; `seen[t]` is the
word a thread loaded, `tokens` (not in the code) what was posted and not taken.
A thread that was signaled does not time out at the same time: a condition
variable reports one or the other. `AlwaysSignals` is the static
`s_postAlwaysSignals` (TRUE by default,
`bsl/bslmt/bslmt_fastpostsemaphoreimpl.cpp:77`).

*Bounded queue.* `sem` has for each side what the semaphore holds and its
disabled generation; a wait that fails or sleeps counts against the value
(`getValueRaw`) as in the semaphore, because `isEmpty` reads that value.
`count[s]` are the two halves of `d_pushCount` and `d_popCount`, added to and
swapped as the code does. `my[t]` are the local variables of the call.

*Sluice.* What runs under `d_mutex` is one action; what a signal posts once it
has released the mutex is remembered in `owed` and posted by `post`. `pc` is
`woken` or `expired` between a thread's return from the semaphore and its second
critical section. `d_descriptorPool` is the stack of free descriptors and
`allocated` the set of those that were ever created. `ahead[g]` (not in the
code) is the set of generations that were there when `g` began.

*Reader-writer mutex.* The three bit fields of `d_state` are a record; TypeOK
shows that no field leaves its range, so that the sum is the packed word
(for fewer than 2^28 threads). `holds[t]` is the lock the caller has, from the
return of the call to the operation that frees it.

*Multi-queue thread pool.* An action is the code under one acquisition of a
queue's mutex; `d_lock` records the calls that keep the reader-writer lock over
several of them (a push that has yet to count its job, `drain` between its two
looks at the thread pool, `stop` and `shutdown` while they wait for it). The
thread pool is what `ThreadPool` is checked for: `jobs` is its first-in
first-out queue of callbacks, `at[w]` what worker `w` does, `enabled` whether
it takes jobs; `DisablePool` and `poolStopped` are its `drain` or `stop`. When
it is shared (`d_threadPoolIsOwned` is false) it is started and stopped by
somebody else, who keeps it enabled, and other clients' jobs come between
(`EnqueueForeign`, one in the queue at a time).
`executeFront` is split where the code gives up the mutex: `executeFront`
(a batch is taken), the jobs, `finishBatch`; `executeFrontPaused` is its early
return. A job may call the pool: `program[j]` is its one call. `ptr[t]` is the
address `pauseQueue` keeps between its two locks, and `free` holds the objects
`d_queuePool` may hand out again. `held` is not in the code: it says whether a
`pauseQueue` has returned and nothing resumed the queue since; nor is
`reported`, the sum of what `numProcessedReset` returned, with which the
counters are exact across resets.
A `deleteQueueWithCleanup` is the form that takes a functor and does not wait;
the functor itself is left out.

Not in any model: memory orders weaker than sequential consistency, printing,
metrics, signal masks and thread attributes, `percentBusy`, and the accessors
that change nothing unless a property uses them (`length` is modelled, since
blocking depends on it).

## What is checked

Properties are defined, with a sentence each, at the end of the module they
belong to; `PROJECT.json` names them per run.

| run | instance | shows |
|---|---|---|
| `index_manager` | 3 threads, ring of 3, combined index about to wrap | exclusive reservations, in order; full and empty true; the source's assertions; calls return |
| `fixed_queue` | 3 threads, ring of 2, four roles | no lost wakeup, exact length at rest, element lifetimes, refinement of `BoundedFifo`, only calls with good reason stay asleep |
| `thread_pool` | 2 clients, 2 or 3 threads, creation may fail | wait list and counters exact, no sleeper beside a backlog, the pool grows, keeps its minimum, runs or cancels each accepted job, calls return |
| `multi_queue` | 2 clients, 2 threads, 2 queues, 3 jobs that may call the pool, eight programs, thread pool owned or shared | one callback per queue that has something to do, none stranded or refused, counters exact, no release under a pausing thread, a pause holds, calls return, and not too early |
| `multi_queue_shutdown_pause` | stop and shutdown beside a pauseQueue | **violation**: shutdown of a stopped pool releases a queue that a pauseQueue still uses |
| `reader_writer_mutex` | 4 threads, calls without end | mutual exclusion, unlock's branch, one token, no reader enters before a waiting writer, nobody starves |
| `reader_writer_mutex_try_write` | tryLockWrite beside a reader | **violation**: a reader and a writer hold the lock together |
| `event_scheduler` | 2 clients, 2 one-time events and a recurring one, callbacks that call, times 1 to 3, five programs | nothing runs early, twice or after its cancellation; no signal is lost; a wait means the callback is over; what is due is dispatched; calls return |
| `semaphore` | 3 threads, six scripts of posts, waits, timed waits, takes, disable and enable | the word is exact; nothing posted lies beside a blocked thread; calls return unless there is nothing to return for |
| `bounded_queue` | 3 threads, ring of 2, ten scripts | refinement of `BoundedFifo`; the counts at rest; waitUntilEmpty returns truly; calls return unless the queue is full, empty or not empty |
| `bounded_queue_all_throw` | every node left to a push that threw | **violation**: an empty queue blocks every later push and pop |
| `sluice` | 2 threads that wait, 2 that signal, 2 descriptors, without end | descriptors exact; nobody is overtaken; who was signaled leaves; nobody starves |

Each violation is a disagreement between the code and a sentence of its
documentation, quoted with its line under `findings`. Further configurations
(`IMTwoGen`, `FQStrand`, `FQTurn`, `TPTwoStops`, `TPRestart`, `ESOrder`,
`BQCircle`) are not among the runs; each reproduces a behaviour of the section
below.

In every module `Consistent` is the type invariant together with the
bookkeeping that the other properties rest on, one named conjunct for each
thing that could go wrong: `ExclusiveElement`, `ReservationKept` and
`ReserveAsserts` in the index manager; `ExclusiveElement` and
`ElementLifetime` in the fixed queue; `WaitListExact` and `CountsAccurate` in the thread pool;
`UnlockMatches` and `OneToken` in the lock; `ActiveExact` and `CountersExact` in
the multi-queue pool; `CallbackKept` and `StopMeansStopped` in the scheduler;
`WordExact` in the semaphore; the counts and posts at rest in the bounded
queue; `DescriptorsExact` in the sluice.

The properties that need a word of explanation:

- `RightAtRest` of the fixed queue (`LengthAtRest`, `NoLostPopWakeup`,
  `NoStrandedPusher`) looks at states in which every thread is
  outside the queue or asleep on a semaphore nobody posts. It is stronger
  than deadlock freedom: the length is the number of live elements, and such a state is allowed only if the queue really is
  empty (or full and enabled).
- `ImplementsFifo` maps the ring to a sequence of items, each reserved or
  published. Elements are ordered by the reservation; a popper that has
  acquired an element without having advanced `d_popIndex` is accounted for by
  `HeadIndex`.
- `EnoughThreads` has as a conjunct `MinThreadsMaintained`, which rests on two
  guards of the worker, each of which is enough by itself for it: the untimed sleep when few threads are active and
  the test of `d_threadCount` after a timeout.
- `ReturnsWhenDone`: drain and stop return when every accepted job is done or
  cancelled, shutdown when no job is queued or running; after stop and shutdown
  no worker thread is left.
- `OneCallback` of the multi-queue pool is the serial execution its
  documentation promises; with the type of `at` it says that at most one worker
  serves a queue. `NoJobStranded` includes the assertion after each of its calls
  of the thread pool's `enqueueJob`: no callback is refused. Both hold for programs in which one client at
  a time stops or shuts down the pool (see below).
- `MutualExclusion` of the reader-writer mutex is checked, and proved, for
  threads that use `tryLockWrite` only where nobody reads; the violation run
  shows why the condition is there.

- `CallsReturn` of the queues and the semaphore allows a call to sleep for ever
  where the state it sleeps in is a good reason: no element, no room, nothing
  posted, a queue that is not empty. It is stated as `[]<>`, so that a thread
  may not leave such a state and stay in a call elsewhere.
- `NoLostWakeup` of the semaphore: if something is available while a thread
  sleeps, some thread is on its way to take it, to signal or to broadcast, or
  has been woken. A thread that sleeps although waiting was disabled after it
  came must still be owed the broadcast of that disable.
- `DispatchesRight`: a callback starts no earlier than the time its event had
  when it was started, whatever clients moved it meanwhile, and only if nobody
  else removed it; `WaitedMeansDone` is about the events a call that waits was
  for (each event is scheduled once, as each `scheduleEvent` makes a new one).
- `EmptyReported` of the bounded queue: a `waitUntilEmpty` that succeeds was
  there at a moment at which the queue was empty.
- `ImplementsFifo` of the bounded queue: an element joins the abstract sequence
  at its place when the push draws its index, and leaves it when a pop draws
  its own; a push that throws is the abstract `Fail`, a pop whose assignment
  throws the abstract `Discard`.
- `NoOvertaking` of the sluice: while a generation has threads that were not
  signaled, none that began later is signaled.

### Disagreements no run is spent on

Seen while modelling, each at the line given. Where a configuration is named,
TLC finds the behaviour with it:

- When only two generations fit the range of the index manager, a pop with a
  stale register takes the next generation for the previous one
  (`bdlcc_fixedqueueindexmanager.cpp:547`, comment at 144) and reports an empty
  queue that is not: `IMTwoGen`, property `EmptyMeansEmpty`. It takes a
  capacity of about half the index range.
- A `disable` between the two swaps of a push (`bdlcc_fixedqueueindexmanager.cpp:465`)
  leaves the push index behind for as long as the queue is disabled: `length`
  is short by one, and a `popFront` sleeps beside an element
  (`bdlcc_fixedqueue.h:325` says it blocks while the queue is empty): `FQStrand`,
  property `NoStrandedPopper`.
- A `tryPushBack` that sleeps between its load of the push index
  (`bdlcc_fixedqueueindexmanager.cpp:359`) and its swap while the index makes a
  whole turn takes a place out of its turn, and the queue is a FIFO no longer:
  `FQTurn`, a range of four indices and property `ImplementsFifo`. With the
  range of the code it takes 2^31 pushes during one sleep. `Timely` is the
  condition under which this cannot be; the scripts of the run satisfy it.
- Two clients stop a `ThreadPool` and one starts it again: a null job left in
  the queue (`bdlmt_threadpool.cpp:652`) ends a thread of the next start, below
  the minimum (`bdlmt_threadpool.h:38` and 74): `TPTwoStops`, property
  `MinThreadsMaintained`.
- `start` and `enqueueJob` beside `stop` count threads that were told to leave
  (`bdlmt_threadpool.cpp:637`), and an accepted job is never run
  (`bdlmt_threadpool.h:628`): `TPRestart`, property `JobsRun`.
- The dispatcher of `EventScheduler` prefers an overdue one-time event to a
  recurring event with an earlier time (`bdlmt_eventscheduler.cpp:245`), though
  events are said to be dispatched in the order of their times
  (`bdlmt_eventscheduler.h:64`): `ESOrder`, property `InOrder`.
- Two `tryWait`s of `FastPostSemaphoreImpl` at the same time may both fail
  although something was available: each takes the word below zero for the
  other. Without `s_postAlwaysSignals`, such a moment also makes a `post` of
  two send no signal.
- `BoundedQueue::isEmpty` is false for a moment while a failing `tryPushBack`
  takes and gives back (`bdlcc_boundedqueue.h:889` is where a pop looks): if it
  is the last pop that looks then, threads in `waitUntilEmpty` sleep beside an
  empty queue. The scripts with `waitUntilEmpty` have no `tryPushBack`.
- The counter of empty waiters is compared on a circle
  (`bdlcc_boundedqueue.h:1391`), and what was seen of it (`d_emptyCountSeen`)
  only follows when a pop empties the queue. After 2^31 + 1 calls of
  `waitUntilEmpty` that found the queue empty and returned at once, the next one
  is taken for one that came long ago, and returns success although the queue
  is not empty and has not been since the call: `BQCircle`, a circle of four
  and a single thread that waits three times, pushes and waits, property
  `EmptyReported`. `FewWaits`, at most 2^31 calls, is a condition under which
  this cannot be; the scripts of the run satisfy it up to its limit, with two
  waits on a circle of four, so that the comparison is used at the distance
  where its answer turns.
- `ThreadPool::enqueueJob` returns an error when the first thread cannot be
  created but leaves the job in the queue (`bdlmt_threadpool.cpp:196`, comment
  at 193), where a later call that creates a thread finds it.
- A worker of `ThreadPool` decides from the number of active threads alone
  whether its wait has a timeout (`bdlmt_threadpool.cpp:331`): two that fall
  asleep in turn with none active both wait without one, and a pool with a
  minimum of one keeps both.
- Two clients in `MultiQueueThreadPool::stop` while a third calls `start`: the
  second stop has seen no active queue before the start, and disables the
  thread pool under a queue scheduled after it (`bdlmt_multiqueuethreadpool.cpp:901`);
  the assertion at 294 then fails.
- A queue object that is used again keeps its batch size: `reset`
  (`bdlmt_multiqueuethreadpool.cpp:429`) does not set it back to the 1 that
  `setBatchSize` documents as the initial value for all queues.
- `shutdown` of a stopped pool drops the jobs of paused queues without adding
  them to `d_numDeleted` (line 800), `numProcessedReset` zeroes the counters
  while jobs wait, and a job is counted as enqueued after it may have run
  (`bdlmt_multiqueuethreadpool.h:1032`): after each, `numElements()` may differ
  from the number of jobs, below zero included. `CountersExact` is checked
  without the first two and allows for the third.

### Bounds

Threads, capacity, calls per thread and scripts are the constants of the cfg
files. The index manager needs three threads for its helping paths: one that
acquired an element without advancing the index, one that helps, and one whose
register is stale. A ring of 3 does not divide the index range, so that
generations and indices wrap at different times; `StartIndex` puts the wrap in
the middle of the run. The queue's ring of 2 with two calls per thread passes
through empty, partly full and full; ring of 1 makes every operation meet the
boundary. Two clients and three workers are the least with which one worker
sleeps, one runs and one starts while both clients are inside calls.
In the multi-queue pool two clients meet on one queue while two workers serve
it and another, so that a callback can be in the thread pool, in its first
lock, in a job or past it while the queue is paused, resumed or deleted; three
jobs are the least that leave one in the queue behind a running one and allow
one to call the pool. Each of the eight programs is a combination of calls the
hazards name.
In the scheduler two one-time events and a recurring one are the least that can
overtake each other in both queues while one is waited for; with the clock at 3
and an interval of 1 the recurring event is queued again twice, and the clock
stops (`MaxTime`) only so that the runs are finite. The programs of the
semaphore and of the bounded queue are chosen per hazard; three threads are the
least with which two compete and one serves them. `Generations` (16) is above
the number of disables in a script; the theorem needs no such bound, the field
wraps. A ring of two nodes is what `BoundedQueue` makes of any smaller capacity
and is gone round more than once by three pushes. The wrap of its index at 2^64
is not reached.
The sluice runs without end: two waiting threads, two signalers and two
descriptors make the pending generation follow a signaled one, and each
descriptor be used again with posts still owed to it; with three waiting
threads there are 12 million states, and the theorems cover any number.
`MaxCalls` is the only bound on a run's length in the queue models, the length
of the scripts in the pool; the reader-writer model has none.

### Fairness

`FairSpec` gives weak fairness to the steps of threads inside a call: the
operating system schedules runnable threads. Nobody is forced to call except
where calls come from a program (the thread pools, the scheduler, the scripts
of the semaphore and the bounded queue), whose threads go through it. In the
multi-queue pool jobs return, and the loops that spin on `yield` (drain, stop,
`drainWaitWhilePausing`) are actions enabled when the loop would end. In the
sluice nobody is forced to enter or to signal; a thread that waits goes on when
its semaphore is posted, and a signaler posts what it owes. `NoStarvation` there
says of each thread that is inside: if signals never end, it leaves.

Strong fairness is assumed where a step is possible only now and then although
its thread never stops trying: the acquisition of the reader-writer mutex's
mutex, which is the condition of its documentation ("To the extent the
implementation's underlying mutex prevents a thread from starving ..."); the
calls of the scheduler, whose `d_mutex` the dispatcher, woken for no reason,
may hold again and again; and the steps of the semaphore and the bounded queue,
whose mutex and tokens others may take first. The mutexes and semaphores
underneath promise that much to a thread that waits for them. Spurious wakeups
have no fairness: they may happen for ever or never.
Condition variables and semaphores elsewhere need no more than weak fairness in
the instances here, since each waits for a state that, once reached, is kept
until the waiter has moved.

## What is proved

All theorems hold for every value of the constants that satisfies the
assumption of the module (finite sets of threads, `MinThreads <= MaxThreads`,
and the like).

*Thread pool* (`ThreadPoolProofs`): `PoolIsConsistent`, and with it `TypeCorrect`, `WaitListIsExact`,
`CountsAreAccurate`, `NoWakeupLost`. They are proved together: `PoolInv` is the
conjunction of the four, and none is inductive alone. The types need the
counts (a counter that is decremented must not be zero), the counts need the
wait list (a worker that leaves after a timeout is unlinked exactly once), and
the absence of a sleeper beside a backlog needs both. The lemmas `ListAttach`,
`ListUnlink` and `ListPop` say what the three operations on the wait list do to
the set of threads on it; each action then has a lemma of its own.

`EnoughThreadsHolds` and `ReturnsWhenDoneHolds` are about what the pool does for
its clients, and need more: `ManagedInv` (`ManagedInvariant`). Its key is
`NullsRight`: while a stop or a shutdown waits, the queue ends in exactly as
many null jobs as there are threads, and at no other time does it hold one; so
every null job is taken by a thread it was meant for, and a job that is put in
the queue is never behind one. `CallersRight` ties a client that waits to the
call it makes, `StatusRight` what became of a job to the queue and the threads
(a counter of zero then says that nothing runs), `MinimumRight` is the minimum
wherever no failed `start` is about to be undone, and `SleeperIsSpare` derives
from `PoolInv` that a thread that times out is not needed. These hold where one
client makes the calls that start and stop the pool (`OneManager`; the others
enqueue, drain and join as they like): `TPTwoStops` and `TPRestart` show what
becomes of the null jobs when two do. `ReturnsWhenDoneHolds` also takes
`MaxThreads # 0`, since a pool that may have no thread accepts jobs and keeps
them, and its drain returns at once. `MCThreadPool` has TLC evaluate
`OneManager`'s condition on the scripts of the run.

*Reader-writer mutex* (`ReaderWriterMutexProofs`): `LockIsConsistent`, `TypeCorrect`,
`WritersAreAlone`, `UnlockIsRight`, `TokensAreExact`, `NoReaderEnters`, all
under `TryWritersAlone` (a thread may call `tryLockWrite` only if none reads).
`LockInv` strengthens mutual exclusion with: the fields of the word count what
they should (`CountsExact`), the mutex is owned exactly by the threads between
its acquisition and release, a writer included (`OwnerExact`), the writer bit
is set exactly while a writer waits or holds (`WriterBit`), a token exists
exactly while a writer waits and the readers have left (`Token`), and a word a
reader is about to swap shows no writer (`SeenTame`). The last is why the fast
path is safe: a swap that succeeds proves that no writer is in.

*Fast-post semaphore* (`FastPostSemaphoreProofs`): `WordIsConsistent` (and
`WordIsExact`), for any number of threads, any scripts and any width of the
generation field. `SemInv` adds to the types and to `WordExact` only
`MutexHeld`: a thread that has found something available under the mutex keeps
it until it has taken it, so that nobody else is at that place; without it the
thread might take what was taken meanwhile. What is available is posted less
taken less what waiting threads hold for the moment, hence never more than was
posted. `NoWakeupLost`, under `AlwaysSignals`, is proved from `SemInv` and
`WakeInv`, which adds to `NoLostWakeup` that a thread that has decided to sleep
is as safe as one that sleeps (`DecidedSafe`: between the two it holds the mutex
that a post takes before it signals) and that those to be woken are asleep
(`WaitersKnown`).

*Sluice* (`SluiceProofs`): `SluiceIsConsistent` (with `DescriptorsAreExact`) and
`NobodyIsOvertaken`, for any finite sets of threads and descriptors and any
number of signalers. `SluiceInv` says besides that tokens match places
(`Tokens`), that a descriptor counts its threads (`Counted`) and is in the pool
exactly when it was created and has none (`PoolExact`), that the pending and the
signaled generation are distinct and have something left to signal (`Current`),
that every other generation with threads is signaled as a whole (`Closed`), and
that what is ahead of a generation has threads (`AheadLives`). `Closed` is the
heart: it is why a signal may go to the pending generation as soon as there is
no signaled one.

*Event scheduler* (`EventSchedulerProofs`): `ConsistentHolds`, `NoWakeupIsLost`,
`DispatcherIsRight` and `WaitingWaits`, for any clients, events, times and
programs made of `Calls`. They follow from one invariant, `SchedulerInv`
(`InvariantHolds`), whose parts need each other:

- `QueuesOrdered`: each queue is sorted by the keys of its events. Without it
  the front of a queue says nothing about the events behind it.
- `CurrentDue`: between its look at the queues and the end of a callback the
  dispatcher is at one event, whose time has come. A client that moves the event
  meanwhile needs `d_mutex`, which the dispatcher holds until it has decided.
- `FatesRight` and `CallbacksRight`: an event is in its queue exactly while it is
  pending, and holds its callback then, or the marker while the callback runs;
  what is cancelled and cleared holds nothing. An event that is being added is
  new, so nobody else can find it: this is what lets `addEvent` take no mutex.
- `FrontIsLeast` strengthens `NoLostWakeup` backwards to the moment at which only
  the recurring queue was read: what was read stays the least time, or whoever
  put an event before it is about to signal. `Choose` turns it into
  `NoLostWakeup` when it goes to sleep.
- `QuietRight`: events a call has promised to wait for are over, so they are not
  queued again, and once the call has returned they do not run. `WaitedMeansDone`
  holds although recurring events are told apart by their times only: a running
  event that was cancelled keeps its key, so its own time is always equal.
- `InsideCalls` and `ThreadRight` keep program counters, programs and the
  dispatcher's thread together.

The lemmas about the queues say what taking an event out of a sorted injective
sequence and inserting one by its key do to its members and its order
(`DropOne`, `AddOne`, `PrefixLength`, `HeadIsLeast`); the operations `addR`,
`updateR` and `remove` have one each, and every action cites those.

*Multi-queue thread pool* (`MultiQueueThreadPoolProofs`): `ConsistentHolds`,
`OneCallbackHolds`, `NoJobStrandedHolds`, `NoUseAfterReleaseHolds`,
`PauseInForceHolds` and `ReturnsWhenDoneHolds`: every safety property of the
run, for any number of queues, jobs, workers and clients and any programs, jobs
that call the pool included. They follow from `PoolInv` (`PoolInvariant`), which
has a part for each thing that can be seen from two sides:

- for each queue, `OnePlace` (its callback is in one place: in the thread pool's
  queue or at one worker), `StateRight` (the run and enqueue states say which,
  and `d_processor` who is in a batch), `ListRight` (what a callback will find
  in the list), `KnownRight` (registered, being deleted or free) and
  `PauseRight` (`d_pauseCount` counts the calls that wait, and an object is not
  released under one). A callback relies on the list, the list on who may have
  taken from it, and that on there being one callback: none is inductive alone;
- `LatchesRight`: a latch stands for the deletions its thread waits for and the
  arrivals still to come, so it is zero only when all are over, and never less;
- `ActiveCounted`: `d_numActiveQueues` counts the queues the thread pool has to do
  with and the workers that are about to count one off. A stop that sees zero
  has therefore nothing left to wait for (`AtRest`);
- `StoppingRight` keeps that true until the call returns: what the stopper saw
  when it gave up the lock still holds when it has it again, because the state
  `STOPPING` keeps everybody else from scheduling a queue;
- `JobsCounted`: the counters' difference is the number of jobs in the lists,
  but for the pushes that are yet to count theirs.

The hypothesis is `StopsRight`, on the programs: one client makes the calls that
stop or shut down the pool (`OneStops`; two are the disagreement above), and no
queue is paused in a program that both stops and shuts down (`PausesEnd`: the
run `multi_queue_shutdown_pause` shows what happens otherwise). `MCMultiQueueThreadPool`
has TLC evaluate it on the programs of the run.

*Bounded queue* (`BoundedQueueProofs`): `ConsistentHolds`, for any capacity, any
threads and any scripts of `Calls`, constructors and assignments that throw
included. It follows from `QueueInv` (`AccountsBalance`), the accounts of the
ring, which hold in the middle of operations too:

- `PlacesCounted`: the capacity is the rights of pushes (the tokens of
  `d_pushSemaphore`, those about to be posted, and the places threads took a
  token for and have not indexed), the places between the two indices, and
  those popped and not yet announced;
- `ValuesCounted`: the values in the ring are the rights of pops and the values
  pushed and not yet announced. A node left by a push that threw is not a value:
  the pop that skips it keeps its right (`Wants`) and gives back the place;
- `Counted`: a count of operations started exceeds that of those finished by the
  operations under way, so a quiescent count means there are none, and
  `SwapRight`: somebody is then on the way to swap it for zero;
- `RingRight` and `OrderRight`: no push has a right to a place a pop looks at, and
  before any place under construction there are values enough for all rights of
  pops. These two are why a node may be read with no lock, and why the pop that
  takes the next index never finds a place still being filled.

The sums are cardinalities (`SumOf`), for which the lemmas say what a step of one
thread changes (`SumChange`, `Deltas`); `Balance` is the case of the operations
that leave the two indices alone, and `Accounts` of those that move one.

`QueueIsFifo` is the refinement: every step of the queue is a step of
`BoundedFifo` on `itemsBar` and `outBar`, or changes neither. It needs `FifoInv`
(`PlacesInOrder`), which adds to the accounts what a place holds: a value is
there from the moment it is constructed until the pop that indexed it takes it
(`ValuesThere`), no two pops look at the same place (`LooksApart`), and a thread
has a value only when its pop took one (`OutRight`). `Slid`, `Grown` and `Changed`
say what the three ways of moving the indices do to the sequence; the steps that
touch no place leave the two expressions alone by `QuietFifo`. A pop takes its
value where it takes its index, although it moves it out later: until then the
node is its own.

`EmptinessIsTrue` is `EmptyReported` from `EmptyInv` (`ReadingsInOrder`): the
counter of empty waiters is the number of waits begun and no reading of it is
ahead (`ReadingsRight`), and a waiter that came before a reading which a sight of
the empty queue followed has been waiting at that sight (`ToldRight`). The two
need `FewWaits`, that the calls of `waitUntilEmpty` are at most half the circle,
for the comparison to be that of the numbers (`OnCircle`): the last distance at
which it still is. `BQCircle` is the counterexample with two waits more.
`MCBoundedQueue` has TLC evaluate it on the scripts
of the run.

*Fixed queue* (`FixedQueueProofs`): `ConsistentHolds`, for any capacity, range of
indices, finite set of threads and calls, with constructors that throw,
`removeAll` and `disable`. The argument is the one the source makes for its
state words: an element changes state by a swap that expects its generation, and
a swap that succeeds hands it to one thread or takes it back from it. `SafeInv`
(`ElementsAreSafe`) says so of every point between two swaps:

- `CallRight`: where a thread holds a reservation at all, and in which call it is;
- `HeldRight`: a reservation keeps its element in the state (`Mode`) and the
  generation it was given with, and a thread on its way to dispose of an element
  still finds it `READING`;
- `ExclusiveElement`: two reservations are of two elements. Hence an `EMPTY` or
  `FULL` element, which a swap may take, is held by nobody (`NobodyHolds`), and
  one in `WRITING` or `READING` by the one thread that may store to its state
  (`NobodyElseHolds`): neither part is inductive without the other;
- `ElementLifetime`: an element is live when `FULL`, and is not when `EMPTY` or
  `WRITING`;
- `WaitersCounted`: the two counters of waiting threads, for the types.

Nothing is asked of the age of the index that a thread has loaded, so that
theorem holds also when a thread sleeps while the indices and the generations
come round to where they were. What is said of order cannot: a swap that
succeeds a whole turn late takes a place out of its turn (`FQTurn`). So
`RingIsFifo`, that the queue implements `BoundedFifo`, is proved for the
behaviours in which `Timely` always holds: between the load of an index and the
swap that relies on it, the index does not come round to within one capacity of
where it was. This is a hypothesis on how long a thread may sleep, 2^31 less one
capacity of pushes or pops in the code, and not on what the queue does. Its
argument has two halves.

`RingIsKept` lays the ring out on a line. A *position* is the number of places
pushed (or popped) before it; its index is `Word(p)`, which comes round, and
`Elem(p)` the element of that index. `Ring(h, q, e)` says that `h` positions
have been popped and `q` pushed, and that element `i` is at position `e[i]`:
`SlotRight` bounds each one by `h`, `q` and the capacity according to its state,
and `PushRight`, `PopRight` and `OwnRight` say which position a thread means by
the index it has in its registers. `RingInv` is that there are such positions.
It is inductive because two positions less than a turn apart with the same index
are one (`Circle`): a swap that finds the generation it expects, then, finds the
position it expects, and a helper that moves an index on (`PushMoves`,
`PopMoves`) moves it to the next position or not at all. The generations are two
at least (`GenerationsAreTwo`), which is what `k_MAX_CAPACITY` is for
(`bdlcc_fixedqueueindexmanager.cpp:104` and 330).

`FifoInv` adds that a pop has a value only once it has emptied the element
(`Unpopped`), and reads the refinement mapping by position: the items of the queue are those of
the positions from `First(h, e)`, the oldest that nobody pops yet, to
`Past(q, e)`, the first that nobody has reserved, without a gap (`Contents`,
`ItemsCounted`), so that `itemsBar` is the sequence of their items (`BarIs`). A
push that reserves appends a place (`PushAcquireFifo`), a constructor that returns
fills it (`ConstructFifo`), and a pop, `removeAll` and the abandoned push whose
turn has come take the first (`HeadLeaves`); every other step leaves both
expressions alone (`OnwardFifo`).

`RestIsRight` is `RightAtRest`, that no wakeup is lost and the length is right
once nothing moves. It needs a second hypothesis of the same kind, for the
threads that look at an index and conclude something without a swap that
succeeds. `TimelyLooks` says that when `reservePushIndex` or `reservePopIndex`
swaps, and perhaps concludes full or empty, the index it loaded is not to within
two capacities of a turn old, and that between the two loads of `length()` the
push index moves by less than half the range of the indices. (In the code that
is about 2^30 pushes during one call of `length()`. A queue with so large a capacity
that the indices have only two generations could not keep the first part:
`IMTwoGen` shows what goes wrong there.) `RestInv` is `RingInv` and

- `CountRight`: a thread that clears the elements before its place, after its
  constructor threw, has counted that place already;
- `PushAwake`: the tokens that are in the pushers' semaphore or that some thread
  is about to post (`Owes`) are enough, either for every thread that sleeps or
  may be going to sleep (`Dozers`), or for every free element that no pusher is
  about to try (`Free`, `Pushers`), and in a disabled queue for the sleepers as
  well; or a `disable` is about to wake them all. It is a disjunction because a
  `popFront` posts a token only when it sees somebody wait: the two counts move
  at different steps, and each step keeps one side or hands over to the other;
- `PopAwake`: the same for the poppers and the values in the queue, while no
  thread disables it. A popper that takes its last look at the length sees only
  the values pushed before it loaded the push index, so the account is of the
  values after that position (`After`, `Near`);
- `Advancing`: a position is passed before its value is there, unless its pusher
  is still between its two swaps, so that a length that counts positions counts
  each value; and `LooksRight`, that the push index in the register of such a
  popper means a position that is not too far back to compare.

At rest no thread is between two operations, so nobody owes a token or tries
(`NothingMoves`), and the accounts say that who still sleeps has nothing to wait
for (`PushersAtRest`, `PoppersAtRest`); `LengthIsRight` reads the length off the
ring. That the poppers' half is only claimed of a queue that nobody disables is
the disagreement of `FQStrand`.

`ReportsAreTrue`, under the same two hypotheses, is about the moment of each
report. A reservation looks at one element and speaks for the whole ring:
`FullIsFull`, `EmptyIsEmpty` and `FullIsOldest` say why it may (the element at the
index is a generation behind, or ahead, only if all the others are), and the
theorem concludes that every step has `FullIsTrue`, `EmptyIsTrue` and
`OldestIsTaken`, the predicates that `IMRing` checks of the index manager.

All of this was checked by TLC first: `Timely`, the ring, `Owned` and `Unpopped`
hold in every state of `fixed_queue`, with the positions kept in auxiliary
variables, and so do `TimelyLooks`, `CountRight`, `PushAwake`, `PopAwake` and
`Advancing`, and the three predicates of `ReportsAreTrue` at each step, there and
with a richer set of roles and with one element in a range wide enough for the
calls. Two assumptions on the constants were found wanting while proving and are now
stated: that `None` is no thread, and that the range of the indices is at least
four (it is 2^31).

Only model-checked: the index manager under `FixedQueueIndexManagerClient`
(`Consistent` and `ReportsTrue`; `ElementsAreSafe` and `ReportsAreTrue` prove the
same of the queue that extends the manager), and all liveness (`CallsReturn`,
`Progress`, `NobodyStarves`, `DueDispatched`, `SignaledLeave`, `NoStarvation`):
liveness under fairness is out of the prover's reach.

## Not modelled

Of the modelled components: memory orders weaker than sequential consistency;
a thread pool that is stopped under a `MultiQueueThreadPool` that shares it;
destructors, whose contract is that nobody is inside; a clock that goes back under the event scheduler; the
`SkipList` itself, which the scheduler's model takes at its contract, each call
atomic.

Of the concurrent core: `TimerEventScheduler` (the dispatcher of
`EventScheduler` over two `TimeQueue`s and object catalogs), `FixedThreadPool`
and `ThreadMultiplexor` (clients of the queues here), `Barrier`, `Latch`,
`Turnstile`, `Once` and `QLock`, the single-producer and single-consumer
queues, `ObjectPool` and the lists of `SkipList`. None is out of reach; they
would come in that order, each with a module and a run as the ones above, and
the queues with `BoundedFifo` (its bound left out) as their specification. Of
the proofs, those of the index manager under its own client would be next.

The rest of the repository has no protocol between actors: see the notes in
`PROJECT.json`.
