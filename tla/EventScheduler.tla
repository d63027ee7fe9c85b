--------------------------- MODULE EventScheduler ---------------------------
(***************************************************************************)
(* bdlmt::EventScheduler: a dispatcher thread runs the callbacks of        *)
(* one-time and of recurring events when their times have come, while      *)
(* clients schedule, reschedule and cancel them and wait for callbacks     *)
(* that are running.                                                       *)
(*                                                                         *)
(* The two queues are lists with a lock of their own, which clients change *)
(* without d_mutex; each of their operations is one step.  The dispatcher  *)
(* holds d_mutex over several such steps, everybody else over one.  Time   *)
(* does not go back.                                                       *)
(***************************************************************************)
EXTENDS Integers, Sequences, FiniteSets, SequencesExt

CONSTANTS
    Client,
    Once,         \* one-time events
    Recurring,    \* recurring events
    OtherClock,   \* events whose time is a time of another clock
    None,
    Interval,     \* d_interval of the recurring events
    MaxTime,      \* bound: the clock stops there
    Programs      \* what clients and callbacks call

Event  == Once \cup Recurring
Kind   == {"once", "recurring"}
Thread == Client \cup {"dispatcher"}
Never  == MaxTime + Interval + 1    \* later than any event's time

\* What a call is given: an event and a time, where it takes them.
Call(name, e, t) == [op |-> name, event |-> e, time |-> t]
Nothing          == Call("nothing", None, 0)

Schedules   == {"scheduleEvent", "scheduleRecurringEvent"}
Reschedules == {"rescheduleEvent", "rescheduleEventAndWait"}
Cancels     == {"cancelEvent", "cancelEventAndWait"}
CancelsAll  == {"cancelAllEvents", "cancelAllEventsAndWait"}
Waits       == {"cancelEventAndWait", "cancelAllEventsAndWait"}

\* A call is given an event of the kind it takes, and a time the clock reaches.
Calls ==
    {Call(o, None, 0) : o \in {"nothing", "start", "stop"} \cup CancelsAll}
    \cup {Call(o, e, t) : o \in {"scheduleEvent"} \cup Reschedules,
                          e \in Once, t \in 0 .. MaxTime}
    \cup {Call("scheduleRecurringEvent", e, t) : e \in Recurring, t \in 0 .. MaxTime}
    \cup {Call(o, e, 0) : o \in Cancels, e \in Event}

ASSUME EventSchedulerAssumption ==
    /\ Once \cap Recurring = {}
    /\ OtherClock \subseteq Event
    /\ None \notin Event
    /\ "dispatcher" \notin Client
    /\ Interval \in Nat \ {0} /\ MaxTime \in Nat \ {0}

\* A callback neither starts nor stops the scheduler it is run by.
ASSUME ProgramsAssumption ==
    \A p \in Programs :
        /\ \A c \in Client : p[c] \in Seq(Calls)
        /\ \A e \in Event : p[e] \in Calls /\ p[e].op \notin {"start", "stop"}

VARIABLES
    clock,
    queue,         \* d_eventQueue and d_recurringQueue
    key,           \* the time of an event, which it keeps when it is removed
    d_callback,
    d_nowOffset,   \* does the event consult another clock?
    d_cachedNow,
    current,       \* d_currentEvent and d_currentRecurringEvent
    at,            \* where the dispatcher is; "none" when there is no thread
    deadline,      \* until when it sleeps
    signaled,      \* was d_queueCondition signaled since?
    d_running,
    d_dispatcherAwaited,
    pc, step, program,
    covers,        \* covers[c]: events c's call promises to have waited for
    fate,          \* what became of an event
    quiet          \* events a call that cancels and waits has returned for

eventVars == <<queue, key, d_callback, d_nowOffset, fate>>
loopVars  == <<d_cachedNow, current, deadline, d_dispatcherAwaited>>
callVars  == <<pc, step, covers, quiet>>
vars == <<clock, eventVars, loopVars, at, signaled, d_running, callVars, program>>

KindOf(e) == IF e \in Once THEN "once" ELSE "recurring"

NoEvent == [k \in Kind |-> None]

TypeOK ==
    /\ clock \in 1 .. MaxTime /\ d_cachedNow \in 0 .. clock
    /\ queue \in [Kind -> Seq(Event)] /\ current \in [Kind -> Event \cup {None}]
    /\ \A k \in Kind : /\ \A e \in ToSet(queue[k]) \cup ({current[k]} \ {None}) :
                              KindOf(e) = k
                       /\ IsInjective(queue[k])
    /\ key \in [Event -> 0 .. Never]
    /\ d_callback \in [Event -> {"null", "user", "marker"}]
    /\ d_nowOffset \in [Event -> BOOLEAN]
    /\ at \in {"none", "begin", "loop", "front", "act", "sleep", "run", "return"}
    /\ deadline \in 0 .. Never
    /\ {signaled, d_running, d_dispatcherAwaited} \subseteq BOOLEAN
    /\ pc \in [Thread -> {"idle", "add", "signal", "clear", "second", "await",
                          "asleep", "join"}]
    /\ step \in [Client -> Nat]
    /\ program \in Programs
    /\ covers \in [Client -> SUBSET Event]
    /\ fate \in [Event -> {"unscheduled", "created", "pending", "cancelled",
                           "removed", "dispatched"}]
    /\ quiet \subseteq Event

\* A scheduler that was not started and has no events.
Init ==
    /\ clock = 1
    /\ queue = [k \in Kind |-> <<>>]
    /\ key = [e \in Event |-> 0]
    /\ d_callback = [e \in Event |-> "null"]
    /\ d_nowOffset = [e \in Event |-> e \in OtherClock]
    /\ d_cachedNow = clock
    /\ current = NoEvent
    /\ at = "none" /\ deadline = 0 /\ signaled = FALSE
    /\ d_running = FALSE /\ d_dispatcherAwaited = FALSE
    /\ pc = [t \in Thread |-> "idle"]
    /\ step = [c \in Client |-> 0]
    /\ program \in Programs
    /\ covers = [c \in Client |-> {}]
    /\ fate = [e \in Event |-> "unscheduled"]
    /\ quiet = {}

\* The dispatcher is inside the callback of e, or about to restore it.
Running(e) == at \in {"run", "return"} /\ e = current[KindOf(e)]

\* The dispatcher does not hold d_mutex.
MutexFree == at \notin {"front", "act"}

\* stop holds d_dispatcherMutex while it joins the dispatcher.
DispatcherMutexFree == \A c \in Client : pc[c] # "join"

-----------------------------------------------------------------------------
(* The queues: SkipLists in the order of the keys, and among equal keys of  *)
(* insertion.                                                               *)

Queued(e) == e \in ToSet(queue[KindOf(e)])

frontRaw(k) == IF queue[k] = <<>> THEN None ELSE Head(queue[k])

Inserted(s, e, time) ==
    InsertAt(s, Cardinality({i \in DOMAIN s : key[s[i]] <= time}) + 1, e)

\* The queue without the event, which is in it at most once.
Without(s, e) ==
    IF e \in ToSet(s) THEN RemoveAt(s, CHOOSE i \in DOMAIN s : s[i] = e) ELSE s

\* addR, updateR and remove; the event is at the front when newFront holds.
addR(e) ==
    queue' = [queue EXCEPT ![KindOf(e)] = Inserted(@, e, key[e])]

updateR(e, time) ==
    /\ queue' = [queue EXCEPT ![KindOf(e)] = Inserted(Without(@, e), e, time)]
    /\ key' = [key EXCEPT ![e] = time]

remove(e) == queue' = [queue EXCEPT ![KindOf(e)] = Without(@, e)]

newFront(e) == e = Head(queue'[KindOf(e)])

-----------------------------------------------------------------------------
(* The dispatcher *)

Begin ==
    /\ at = "begin"
    /\ at' = "loop"
    /\ d_cachedNow' = clock
    /\ UNCHANGED <<clock, eventVars, current, deadline, d_dispatcherAwaited,
                   signaled, d_running, callVars, program>>

\* Mutant: a dispatcher that was stopped leaves the threads waiting.
LoopTop_StopFirst ==
    /\ at = "loop"
    /\ d_dispatcherAwaited' = (d_dispatcherAwaited /\ ~d_running)
    /\ pc' = [t \in Thread |-> IF pc[t] = "asleep" /\ d_dispatcherAwaited /\ d_running
                               THEN "await" ELSE pc[t]]
    /\ \/ /\ ~d_running
          /\ at' = "none"
          /\ current' = NoEvent
       \/ /\ d_running
          /\ at' = "front"
          /\ current' = [NoEvent EXCEPT !["recurring"] = frontRaw("recurring")]
    /\ UNCHANGED <<clock, eventVars, d_cachedNow, deadline, signaled, d_running,
                   step, covers, quiet, program>>

\* With d_mutex locked, the events of the last iteration are released and the
\* threads that wait for it are told; then the recurring queue is read.
LoopTop ==
    /\ at = "loop"
    /\ d_dispatcherAwaited' = FALSE
    /\ pc' = [t \in Thread |-> IF pc[t] = "asleep" /\ d_dispatcherAwaited
                               THEN "await" ELSE pc[t]]
    /\ \/ /\ ~d_running
          /\ at' = "none"
          /\ current' = NoEvent
       \/ /\ d_running
          /\ at' = "front"
          /\ current' = [NoEvent EXCEPT !["recurring"] = frontRaw("recurring")]
    /\ UNCHANGED <<clock, eventVars, d_cachedNow, deadline, signaled, d_running,
                   step, covers, quiet, program>>

\* d_cachedNow after chooseNextEvent has seen the fronts r and e.
RefreshedNow(r, e) ==
    IF (r = None /\ d_cachedNow > key[e]) \/ (e = None /\ d_cachedNow > key[r])
    THEN d_cachedNow ELSE clock

\* An overdue one-time event comes before any recurring event.
chosen(r, e) ==
    IF r = None THEN e
    ELSE IF e = None THEN r
    ELSE IF key[e] < key[r] \/ key[e] < clock THEN e ELSE r

sleep(until) ==
    /\ at' = "sleep"
    /\ deadline' = until
    /\ signaled' = FALSE
    /\ current' = NoEvent

\* The one-time queue is read, an event chosen, and its time waited for.
Choose ==
    LET r == current["recurring"]
        e == frontRaw("once")
        c == chosen(r, e)
    IN  /\ at = "front"
        /\ \/ /\ r = None /\ e = None
              /\ sleep(Never)
              /\ UNCHANGED d_cachedNow
           \/ /\ c # None
              /\ d_cachedNow' = RefreshedNow(r, e)
              /\ IF key[c] > d_cachedNow'
                 THEN sleep(key[c])
                 ELSE /\ at' = "act"
                      /\ current' = [NoEvent EXCEPT ![KindOf(c)] = c]
                      /\ UNCHANGED <<deadline, signaled>>
        /\ UNCHANGED <<clock, eventVars, d_dispatcherAwaited, d_running, callVars,
                       program>>

\* Mutant: a signal does not end the wait for the first event's time.
Wake_AtDeadline ==
    /\ at = "sleep"
    /\ \/ signaled /\ deadline = Never
       \/ clock >= deadline
    /\ at' = "loop"
    /\ UNCHANGED <<clock, eventVars, loopVars, signaled, d_running, callVars,
                   program>>

Wake ==
    /\ at = "sleep"
    /\ signaled \/ clock >= deadline
    /\ at' = "loop"
    /\ UNCHANGED <<clock, eventVars, loopVars, signaled, d_running, callVars,
                   program>>

\* A wait on a condition variable may return for no reason.
WakeSpuriously ==
    /\ at = "sleep"
    /\ at' = "loop"
    /\ UNCHANGED <<clock, eventVars, loopVars, signaled, d_running, callVars,
                   program>>

\* Nothing more is done in this iteration: the loop releases d_mutex.
NextIteration ==
    at' = "loop" /\ UNCHANGED current

\* The callback is moved out of the event and a marker left in its place; the
\* event is queued again for its next time before the callback runs.
DispatchRecurring(e) ==
    /\ \/ /\ Queued(e)
          /\ updateR(e, key[e] + Interval)
          /\ d_callback' = [d_callback EXCEPT ![e] = "marker"]
          /\ at' = "run" /\ UNCHANGED current
       \/ /\ ~Queued(e)
          /\ d_callback' = [d_callback EXCEPT ![e] = "null"]
          /\ NextIteration
          /\ UNCHANGED <<queue, key>>
    /\ UNCHANGED fate

\* Mutant: an event that was cancelled meanwhile is run all the same.
DispatchOnce_Anyway(e) ==
    /\ remove(e)
    /\ fate' = [fate EXCEPT ![e] = "dispatched"]
    /\ at' = "run"
    /\ UNCHANGED <<current, key, d_callback>>

\* The event is run by the one who removes it from the queue.
DispatchOnce(e) ==
    /\ \/ /\ Queued(e)
          /\ remove(e)
          /\ fate' = [fate EXCEPT ![e] = "dispatched"]
          /\ at' = "run" /\ UNCHANGED current
       \/ /\ ~Queued(e)
          /\ NextIteration
          /\ UNCHANGED <<queue, fate>>
    /\ UNCHANGED <<key, d_callback>>

\* By the event's own clock it is not time yet: it is put off, unless it was
\* cancelled.
PutOff(e) ==
    /\ IF Queued(e) THEN updateR(e, d_cachedNow + 1) ELSE UNCHANGED <<queue, key>>
    /\ current' = NoEvent
    /\ at' = "loop"
    /\ UNCHANGED <<fate, d_callback>>

Act ==
    /\ at = "act"
    /\ \E e \in Event :
          /\ e = current[KindOf(e)]
          /\ \/ e \in Once /\ DispatchOnce(e)
             \/ e \in Recurring /\ DispatchRecurring(e)
             \/ d_nowOffset[e] /\ PutOff(e)
    /\ UNCHANGED <<clock, d_nowOffset, d_cachedNow, deadline, d_dispatcherAwaited,
                   signaled, d_running, callVars, program>>

\* Mutant: the callback is put back although the event was cancelled.
Restored_Always(e) == IF e \in Once THEN "null" ELSE "user"

\* What is in the event after its callback has returned: the callback if the
\* marker is still there.
Restored(e) ==
    IF e \in Recurring /\ d_callback[e] = "marker" THEN "user" ELSE "null"

CallbackReturned ==
    /\ at = "return"
    /\ \E e \in Event :
          /\ e = current[KindOf(e)]
          /\ d_callback' = [d_callback EXCEPT ![e] = Restored(e)]
    /\ at' = "loop"
    /\ UNCHANGED <<clock, queue, key, d_nowOffset, fate, loopVars, signaled,
                   d_running, callVars, program>>

Dispatcher ==
    Begin \/ LoopTop \/ Choose \/ Wake \/ Act \/ CallbackReturned

-----------------------------------------------------------------------------
(* Calls: a client makes those of its program in turn, a callback makes its *)
(* one call and returns.                                                    *)

NextCall(t) ==
    IF t \in Client THEN program[t][step[t] + 1]
    ELSE program[IF current["once"] # None THEN current["once"]
                                           ELSE current["recurring"]]

Calling(t, o) ==
    /\ pc[t] = "idle"
    /\ IF t \in Client THEN step[t] < Len(program[t]) ELSE at = "run"
    /\ NextCall(t).op \in o

\* The event of t's call; a handle can be used once the event was scheduled.
Scheduled(e) == fate[e] \notin {"unscheduled", "created"}
EventOf(t) == NextCall(t).event
HasHandle(t) == Scheduled(EventOf(t))

\* The call returns; so does, if it was made by one, the callback.
Return(t) ==
    /\ pc' = [pc EXCEPT ![t] = "idle"]
    /\ IF t \in Client
       THEN /\ step' = [step EXCEPT ![t] = @ + 1]
            /\ quiet' = IF NextCall(t).op \in Waits THEN quiet \cup covers[t]
                                                    ELSE quiet
            /\ covers' = [covers EXCEPT ![t] = {}]
            /\ UNCHANGED at
       ELSE at' = "return" /\ UNCHANGED <<step, quiet, covers>>

Goto(t, place) ==
    /\ pc' = [pc EXCEPT ![t] = place]
    /\ UNCHANGED <<step, quiet, covers, at>>

Signal == signaled' = (signaled \/ at = "sleep")

nothing(t) ==
    /\ Calling(t, {"nothing"})
    /\ Return(t)
    /\ UNCHANGED <<clock, eventVars, loopVars, signaled, d_running, program>>

\* The time of a one-time event is raised to the cached time; a recurring
\* event without a start time starts after its interval.
startTime(call) ==
    IF call.op = "scheduleRecurringEvent"
    THEN IF call.time = 0 THEN clock + Interval ELSE call.time
    ELSE IF call.time < d_cachedNow THEN d_cachedNow ELSE call.time

\* An event is created.
scheduleEvent(t) ==
    /\ Calling(t, Schedules)
    /\ fate[EventOf(t)] = "unscheduled"
    /\ fate' = [fate EXCEPT ![EventOf(t)] = "created"]
    /\ key' = [key EXCEPT ![EventOf(t)] = startTime(NextCall(t))]
    /\ d_callback' = [d_callback EXCEPT ![EventOf(t)] = "user"]
    /\ Goto(t, "add")
    /\ UNCHANGED <<clock, queue, d_nowOffset, loopVars, signaled, d_running,
                   program>>

addEvent(t) ==
    /\ pc[t] = "add"
    /\ addR(EventOf(t))
    /\ fate' = [fate EXCEPT ![EventOf(t)] = "pending"]
    /\ IF newFront(EventOf(t)) THEN Goto(t, "signal") ELSE Return(t)
    /\ UNCHANGED <<clock, key, d_callback, d_nowOffset, loopVars, signaled,
                   d_running, program>>

\* Mutant: d_mutex is not locked to signal.
signalDispatcher_Unlocked(t) ==
    /\ pc[t] = "signal"
    /\ Signal
    /\ Return(t)
    /\ UNCHANGED <<clock, eventVars, loopVars, d_running, program>>

signalDispatcher(t) ==
    /\ pc[t] = "signal"
    /\ MutexFree
    /\ Signal
    /\ Return(t)
    /\ UNCHANGED <<clock, eventVars, loopVars, d_running, program>>

\* An event that is not queued is not moved, but its clock is forgotten.
rescheduleEvent(t) ==
    LET e    == EventOf(t)
        time == startTime(NextCall(t))
    IN  /\ Calling(t, Reschedules) /\ HasHandle(t)
        /\ MutexFree
        /\ d_nowOffset' = [d_nowOffset EXCEPT ![e] = FALSE]
        /\ \/ /\ Queued(e)
              /\ updateR(e, time)
              /\ IF newFront(e) THEN Signal ELSE UNCHANGED signaled
           \/ ~Queued(e) /\ UNCHANGED <<queue, key, signaled>>
        /\ IF NextCall(t).op = "rescheduleEventAndWait"
              /\ (~Queued(e) \/ current["once"] = e)
           THEN Goto(t, "await") ELSE Return(t)
        /\ UNCHANGED <<clock, d_callback, fate, loopVars, d_running, program>>

Cover(t, E) == IF t \in Client THEN [covers EXCEPT ![t] = @ \cup E] ELSE covers

\* After a cancellation, the dispatcher may be running the event still if it
\* recurs or was not found.
MustAwait(call, removed) ==
    call.op = "cancelEventAndWait" /\ (call.event \in Recurring \/ ~removed)

cancelEvent(t) ==
    LET e == EventOf(t) IN
    /\ Calling(t, Cancels) /\ HasHandle(t)
    /\ remove(e)
    /\ \/ /\ Queued(e)
          /\ fate' = [fate EXCEPT ![e] = "cancelled"]
          /\ pc' = [pc EXCEPT ![t] = "clear"]
          /\ covers' = Cover(t, {e})
          /\ UNCHANGED <<at, step, quiet>>
       \/ /\ ~Queued(e)
          /\ UNCHANGED fate
          /\ IF MustAwait(NextCall(t), FALSE)
             THEN /\ pc' = [pc EXCEPT ![t] = "await"]
                  /\ covers' = Cover(t, {e})
                  /\ UNCHANGED <<at, step, quiet>>
             ELSE Return(t)
    /\ UNCHANGED <<clock, key, d_callback, d_nowOffset, loopVars, signaled,
                   d_running, program>>

\* The callback of a cancelled event is destroyed, a recurring one's under
\* d_mutex.
clearCallback(t) ==
    LET e == EventOf(t) IN
    /\ pc[t] = "clear"
    /\ e \in Recurring => MutexFree
    /\ d_callback' = [d_callback EXCEPT ![e] = "null"]
    /\ IF MustAwait(NextCall(t), TRUE) THEN Goto(t, "await") ELSE Return(t)
    /\ UNCHANGED <<clock, queue, key, d_nowOffset, fate, loopVars, signaled,
                   d_running, program>>

\* One queue is emptied after the other.
cancelAllEvents(t) ==
    LET k == IF pc[t] = "second" THEN "recurring" ELSE "once" IN
    /\ Calling(t, CancelsAll) \/ pc[t] = "second"
    /\ queue' = [queue EXCEPT ![k] = <<>>]
    /\ fate' = [e \in Event |-> IF e \in ToSet(queue[k]) THEN "removed" ELSE fate[e]]
    /\ IF pc[t] = "second" /\ NextCall(t).op = "cancelAllEvents"
       THEN Return(t)
       ELSE /\ pc' = [pc EXCEPT ![t] = IF @ = "second" THEN "await" ELSE "second"]
            /\ covers' = Cover(t, {e \in Event : KindOf(e) = k
                                                 /\ Scheduled(e)})
            /\ UNCHANGED <<at, step, quiet>>
    /\ UNCHANGED <<clock, key, d_callback, d_nowOffset, loopVars, signaled,
                   d_running, program>>

\* Mutant: a call that cancels everything waits for the one-time event only.
AwaitsDispatcher_Once(call) ==
    CASE call.op = "cancelAllEventsAndWait" -> current["once"] # None
      [] call.event \in Recurring ->
            /\ current["recurring"] # None
            /\ key[current["recurring"]] = key[call.event]
      [] OTHER -> current["once"] = call.event

\* Whether the call must wait for the dispatcher's next iteration: recurring
\* events are told apart by their times.
AwaitsDispatcher(call) ==
    CASE call.op = "cancelAllEventsAndWait" -> current # NoEvent
      [] call.event \in Recurring ->
            /\ current["recurring"] # None
            /\ key[current["recurring"]] = key[call.event]
      [] OTHER -> current["once"] = call.event

await(t) ==
    /\ pc[t] = "await"
    /\ MutexFree
    /\ \/ /\ AwaitsDispatcher(NextCall(t))
          /\ d_dispatcherAwaited' = TRUE
          /\ Goto(t, "asleep")
       \/ /\ ~AwaitsDispatcher(NextCall(t))
          /\ Return(t)
          /\ UNCHANGED d_dispatcherAwaited
    /\ UNCHANGED <<clock, eventVars, d_cachedNow, current, deadline, signaled,
                   d_running, program>>

AwaitSpuriously(t) ==
    /\ pc[t] = "asleep"
    /\ Goto(t, "await")
    /\ UNCHANGED <<clock, eventVars, loopVars, signaled, d_running, program>>

\* A thread for the dispatcher is created, if that does not fail.
start(t) ==
    /\ Calling(t, {"start"})
    /\ DispatcherMutexFree /\ MutexFree
    /\ pc' = [pc EXCEPT ![t] = "idle"]
    /\ step' = [step EXCEPT ![t] = @ + 1]
    /\ \/ /\ ~d_running
          /\ at' = "begin"
          /\ d_running' = TRUE
       \/ UNCHANGED <<at, d_running>>
    /\ UNCHANGED <<clock, eventVars, loopVars, signaled, covers, quiet, program>>

stop(t) ==
    /\ Calling(t, {"stop"})
    /\ DispatcherMutexFree /\ MutexFree
    /\ d_running' = FALSE
    /\ IF d_running THEN Signal /\ Goto(t, "join")
                    ELSE UNCHANGED signaled /\ Return(t)
    /\ UNCHANGED <<clock, eventVars, loopVars, program>>

join(t) ==
    /\ pc[t] = "join"
    /\ at = "none"
    /\ Return(t)
    /\ UNCHANGED <<clock, eventVars, loopVars, signaled, d_running, program>>

CallStep(t) ==
    \/ nothing(t) \/ scheduleEvent(t) \/ addEvent(t) \/ signalDispatcher(t)
    \/ rescheduleEvent(t) \/ cancelEvent(t) \/ clearCallback(t)
    \/ cancelAllEvents(t) \/ await(t) \/ start(t) \/ stop(t) \/ join(t)

Tick ==
    /\ clock < MaxTime
    /\ clock' = clock + 1
    /\ UNCHANGED <<eventVars, loopVars, at, signaled, d_running, callVars, program>>

Done(c) == pc[c] = "idle" /\ step[c] = Len(program[c])

\* No client has a call to make, and no event is due before the clock stops.
Rest ==
    /\ \A c \in Client : Done(c)
    /\ at = "none" \/ (at = "sleep" /\ ~signaled /\ deadline > MaxTime)
    /\ UNCHANGED vars

Next ==
    \/ Dispatcher \/ WakeSpuriously \/ Tick \/ Rest
    \/ \E t \in Thread : CallStep(t) \/ AwaitSpuriously(t)

Spec == Init /\ [][Next]_vars

\* Time passes and no thread is kept from running forever.
FairSpec ==
    /\ Spec
    /\ WF_vars(Tick)
    /\ WF_vars(Dispatcher)
    /\ \A t \in Thread : SF_vars(CallStep(t))

-----------------------------------------------------------------------------
(* Properties *)

Starts(e) == at = "act" /\ at' = "run" /\ e = current[KindOf(e)]

\* A callback is run no earlier than the last time its event was scheduled
\* for, although clients reschedule events while the dispatcher chooses one.
NeverEarly == [][\A e \in Event : Starts(e) => key[e] <= clock]_vars

\* Of the dispatcher and the clients that cancel an event, one wins: the
\* callback of an event whose cancellation succeeded is not started, nor that
\* of a one-time event twice; what is called is the callback.
OneWins ==
    [][\A e \in Event :
          Starts(e) => fate[e] = "pending" /\ d_callback[e] = "user"]_vars

\* What the dispatcher starts is due, and still wanted.
DispatchesRight == NeverEarly /\ OneWins

\* A dispatcher that sleeps past the time of a queued event has been
\* signaled, or some thread is about to lock d_mutex and signal it.
NoLostWakeup ==
    (at = "sleep" /\ ~signaled) =>
        /\ d_running
        /\ \/ \A e \in Event : Queued(e) => deadline <= key[e]
           \/ \E t \in Thread : pc[t] = "signal"

\* A recurring event has its callback except while it runs; the callback of
\* a cancelled event is gone when the call has cleared it and the dispatcher
\* is done with it, so that what it holds is released.
CallbackKept ==
    /\ \A e \in Event : Queued(e) /\ ~Running(e) => d_callback[e] = "user"
    /\ \A e \in Event :
          (/\ fate[e] = "cancelled"
           /\ ~Running(e)
           /\ \A t \in Thread : pc[t] = "clear" => EventOf(t) # e)
             => d_callback[e] # "user"

\* When nobody is inside stop, a scheduler that is not running has no
\* dispatcher.
StopMeansStopped == (~d_running /\ DispatcherMutexFree) => at = "none"

\* The queues, the callbacks and the thread agree.
Consistent == TypeOK /\ CallbackKept /\ StopMeansStopped

\* When a call that cancels and waits has returned, the callbacks of the
\* events it was for are not running and do not start again; a call that
\* reschedules and waits does not return into the callback's run.
WaitedMeansDone ==
    /\ [][\A e \in quiet' : ~Running(e)']_vars
    /\ [][\A c \in Client, e \in Once :
             /\ step'[c] # step[c]
             /\ NextCall(c).op = "rescheduleEventAndWait" /\ e = EventOf(c)
             => ~Running(e)']_vars

\* Of the events that were all scheduled before the dispatcher looks, the one
\* with the earliest time is dispatched first.
InOrder ==
    [][\A e, f \in Event : Starts(e) /\ Queued(f) => key[e] <= key[f]]_vars

\* A scheduler that is not stopped dispatches what is due.
DueDispatched ==
    d_running ~> (~d_running \/ \A e \in Event : Queued(e) => key[e] > MaxTime)

\* Every call returns.
CallsReturn ==
    \A c \in Client : (pc[c] # "idle") ~> (pc[c] = "idle")

=============================================================================
