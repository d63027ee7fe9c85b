----------------------------- MODULE FixedQueue -----------------------------
(***************************************************************************)
(* bdlcc::FixedQueue: the bounded queue built from the index manager, an   *)
(* array of elements and two counting semaphores, on which blocked pushers *)
(* and poppers sleep.                                                      *)
(*                                                                         *)
(* A thread runs one call at a time.  The manager's steps are those of     *)
(* FixedQueueIndexManager; the steps added here are the atomic operations  *)
(* of the queue itself: the counters of waiting threads, the semaphores,   *)
(* the two loads of length(), and the accesses to the elements, each one   *)
(* action with the store that publishes it.                                *)
(***************************************************************************)
EXTENDS FixedQueueIndexManager

CONSTANTS
    Roles,        \* who calls what: functions from threads to operations
    MaxCalls      \* bound: calls each thread makes

Blocking == {"pushBack", "popFront"}
Pushing  == {"pushBack", "tryPushBack"}
Popping  == {"popFront", "tryPopFront"}
AllCalls == Pushing \cup Popping \cup {"removeAll", "disable", "enable"}

\* The element constructors of a thread with the role "throw" throw.
ASSUME QueueAssumption ==
    /\ Roles \subseteq [Thread -> SUBSET (AllCalls \cup {"throw", "once"})]
    /\ MaxCalls \in Nat \ {0}
    /\ IsFiniteSet(Thread) /\ None \notin Thread

VARIABLES
    d_elements,           \* d_elements[i]: the value at i, or NoValue
    d_numWaitingPoppers,
    d_popControlSema,     \* count of the semaphore
    d_numWaitingPushers,
    d_pushControlSema,
    role,                 \* role[t]: the operations thread t calls
    op,                   \* op[t]: the call in progress
    calls,                \* calls[t]: calls made so far
    value,                \* value[t]: the argument of a push, the value popped
    count,                \* count[t]: poppedItems, or a loop counter of posts
    limit                 \* limit[t]: numItems of removeAll

waitVars  == <<d_numWaitingPoppers, d_popControlSema,
               d_numWaitingPushers, d_pushControlSema>>
queueVars == <<d_elements, waitVars>>
callVars  == <<role, op, calls, value, count, limit>>
vars      == <<managerVars, queueVars, callVars>>

\* A pushed value is named by the call that pushes it.
NoValue == <<>>
Value   == Thread \X (1 .. MaxCalls)

QueuePC == ManagerPC \cup
    {"commit_push", "check_poppers", "post_popper",
     "check_pushers", "post_pusher",
     "enter_wait", "length_push", "length_pop", "check_enabled", "wait",
     "leave_wait",
     "remove_push", "remove_pop", "count_pushers", "post_pushers",
     "disabled"}

TypeOK ==
    /\ ManagerTypeOK
    /\ pc \in [Thread -> QueuePC]
    /\ d_elements \in [Slot -> Value \cup {NoValue}]
    /\ d_numWaitingPoppers \in 0 .. Cardinality(Thread)
    /\ d_numWaitingPushers \in 0 .. Cardinality(Thread)
    /\ d_popControlSema \in Nat
    /\ d_pushControlSema \in Nat
    /\ role \in Roles
    /\ op \in [Thread -> AllCalls \cup {"none"}]
    /\ calls \in [Thread -> 0 .. MaxCalls]
    /\ value \in [Thread -> Value \cup {NoValue}]
    /\ count \in [Thread -> Nat]
    /\ limit \in [Thread -> 0 .. Capacity]

Init ==
    /\ InitRing
    /\ d_elements = [i \in Slot |-> NoValue]
    /\ d_numWaitingPoppers = 0
    /\ d_popControlSema = 0
    /\ d_numWaitingPushers = 0
    /\ d_pushControlSema = 0
    /\ role \in Roles
    /\ op = [t \in Thread |-> "none"]
    /\ calls = [t \in Thread |-> 0]
    /\ value = [t \in Thread |-> NoValue]
    /\ count = [t \in Thread |-> 0]
    /\ limit = [t \in Thread |-> 0]

-----------------------------------------------------------------------------
(* Calls and returns *)

Entry(o) ==
    CASE o \in Pushing     -> "push_load"
      [] o \in Popping     -> "pop_load"
      [] o = "removeAll"   -> "remove_push"

\* The bound of the client: a thread with the role "once" makes one call.
MayCall(t) == calls[t] < IF "once" \in role[t] THEN 1 ELSE MaxCalls

Call(t, o) ==
    /\ o \in role[t] \ {"disable", "enable"}
    /\ MayCall(t)
    /\ Goto(t, "idle", Entry(o))
    /\ op' = [op EXCEPT ![t] = o]
    /\ calls' = [calls EXCEPT ![t] = @ + 1]
    /\ value' = [value EXCEPT ![t] = IF o \in Pushing THEN <<t, calls'[t]>>
                                                      ELSE NoValue]
    /\ saved' = [saved EXCEPT ![t] = None]
    /\ count' = [count EXCEPT ![t] = 0]
    /\ UNCHANGED <<sharedVars, loaded, own, result, queueVars, role, limit>>

\* Return to the caller; registers are dead and take their initial values.
Finish(t, from) ==
    /\ Goto(t, from, "idle")
    /\ op' = [op EXCEPT ![t] = "none"]
    /\ saved' = [saved EXCEPT ![t] = None]
    /\ loaded' = [loaded EXCEPT ![t] = 0]
    /\ result' = [result EXCEPT ![t] = "none"]
    /\ count' = [count EXCEPT ![t] = 0]
    /\ limit' = [limit EXCEPT ![t] = 0]
    /\ UNCHANGED <<own, role, calls>>

\* Steps that leave the registers, or the call's own variables, alone.
OnlyMoves == UNCHANGED <<loaded, saved, own, result>>

ManagerCall(t) == ManagerStep(t) /\ UNCHANGED <<queueVars, callVars>>

-----------------------------------------------------------------------------
(* tryPushBack and pushBack *)

\* The element is constructed at own[t] and the reservation committed.
ConstructAndCommit(t) ==
    /\ op[t] \in Pushing /\ own[t] # None /\ "throw" \notin role[t]
    /\ Goto(t, "ret", "check_poppers")
    /\ d_elements' = [d_elements EXCEPT ![index(own[t])] = value[t]]
    /\ StoreFull(t)
    /\ own' = [own EXCEPT ![t] = None]
    /\ UNCHANGED <<d_pushIndex, d_popIndex, loaded, saved, result,
                   waitVars, callVars>>

CheckPoppers(t) ==
    /\ \/ /\ d_numWaitingPoppers # 0
          /\ Goto(t, "check_poppers", "post_popper")
          /\ OnlyMoves
          /\ UNCHANGED <<role, op, calls, count, limit>>
       \/ /\ d_numWaitingPoppers = 0
          /\ Finish(t, "check_poppers")
    /\ UNCHANGED <<sharedVars, queueVars, value>>

PostPopper(t) ==
    /\ Finish(t, "post_popper")
    /\ d_popControlSema' = d_popControlSema + 1
    /\ UNCHANGED <<sharedVars, d_elements, d_numWaitingPoppers,
                   d_numWaitingPushers, d_pushControlSema, value>>

\* A status the call reports to its caller: a disabled queue, or a full or
\* empty queue to a call that does not block.
ReportFailure(t) ==
    /\ own[t] = None
    /\ \/ result[t] = "disabled"
       \/ result[t] \in {"full", "empty"} /\ op[t] \notin Blocking
    /\ op[t] # "removeAll"
    /\ Finish(t, "ret")
    /\ UNCHANGED <<sharedVars, queueVars, value>>

-----------------------------------------------------------------------------
(* tryPopFront and popFront: the value is taken, its element destroyed and  *)
(* the reservation committed by the guard's destructor.                     *)

TakeAndCommit(t) ==
    /\ op[t] \in Popping /\ own[t] # None
    /\ Goto(t, "ret", "check_pushers")
    /\ value' = [value EXCEPT ![t] = d_elements[index(own[t])]]
    /\ d_elements' = [d_elements EXCEPT ![index(own[t])] = NoValue]
    /\ StoreEmpty(own[t])
    /\ own' = [own EXCEPT ![t] = None]
    /\ UNCHANGED <<d_pushIndex, d_popIndex, loaded, saved, result,
                   waitVars, role, op, calls, count, limit>>

\* Mutant: no pusher is woken.
CheckPushers_NoPost(t) ==
    Finish(t, "check_pushers") /\ UNCHANGED <<sharedVars, queueVars, value>>

CheckPushers(t) ==
    /\ \/ /\ d_numWaitingPushers # 0
          /\ Goto(t, "check_pushers", "post_pusher")
          /\ OnlyMoves
          /\ UNCHANGED <<role, op, calls, count, limit>>
       \/ /\ d_numWaitingPushers = 0
          /\ Finish(t, "check_pushers")
    /\ UNCHANGED <<sharedVars, queueVars, value>>

PostPusher(t) ==
    /\ Finish(t, "post_pusher")
    /\ d_pushControlSema' = d_pushControlSema + 1
    /\ UNCHANGED <<sharedVars, d_elements, d_numWaitingPoppers,
                   d_popControlSema, d_numWaitingPushers, value>>

-----------------------------------------------------------------------------
(* Blocking: count oneself as waiting, look at the queue again, sleep.      *)

\* Adds n to the counter of waiting pushers or poppers of t's call.
AddWaiting(t, n) ==
    IF op[t] \in Pushing
    THEN /\ d_numWaitingPushers' = d_numWaitingPushers + n
         /\ UNCHANGED d_numWaitingPoppers
    ELSE /\ d_numWaitingPoppers' = d_numWaitingPoppers + n
         /\ UNCHANGED d_numWaitingPushers

EnterWait(t) ==
    /\ op[t] \in Blocking
    /\ result[t] \in {"full", "empty"}
    /\ Goto(t, "ret", "length_push")
    /\ AddWaiting(t, 1)
    /\ OnlyMoves
    /\ UNCHANGED <<sharedVars, d_elements, d_popControlSema,
                   d_pushControlSema, callVars>>

LengthLoadPush(t) ==
    /\ Goto(t, "length_push", "length_pop")
    /\ loaded' = [loaded EXCEPT ![t] = d_pushIndex.index]
    /\ UNCHANGED <<sharedVars, saved, own, result, queueVars, callVars>>

\* Mutant: the thread goes to sleep without a second look.
LengthLoadPop_NoRecheck(t) ==
    /\ Goto(t, "length_pop", "wait")
    /\ OnlyMoves
    /\ UNCHANGED <<sharedVars, queueVars, callVars>>

\* isFull(), followed by isEnabled(), for a pusher; isEmpty() for a popper.
LengthLoadPop(t) ==
    LET length == lengthOf(loaded[t], d_popIndex) IN
    /\ \/ /\ op[t] = "pushBack" /\ Capacity <= length
          /\ Goto(t, "length_pop", "check_enabled")
       \/ /\ op[t] = "popFront" /\ 0 >= length
          /\ Goto(t, "length_pop", "wait")
       \/ /\ \/ op[t] = "pushBack" /\ Capacity > length
             \/ op[t] = "popFront" /\ 0 < length
          /\ Goto(t, "length_pop", "leave_wait")
    /\ OnlyMoves
    /\ UNCHANGED <<sharedVars, queueVars, callVars>>

CheckEnabled(t) ==
    /\ Goto(t, "check_enabled",
            IF d_pushIndex.disabled THEN "leave_wait" ELSE "wait")
    /\ OnlyMoves
    /\ UNCHANGED <<sharedVars, queueVars, callVars>>

SemaOf(t) == IF op[t] \in Pushing THEN d_pushControlSema ELSE d_popControlSema

\* Semaphore::wait: enabled while the semaphore's count is positive.
Wait(t) ==
    /\ SemaOf(t) > 0
    /\ Goto(t, "wait", "leave_wait")
    /\ IF op[t] \in Pushing
       THEN /\ d_pushControlSema' = d_pushControlSema - 1
            /\ UNCHANGED d_popControlSema
       ELSE /\ d_popControlSema' = d_popControlSema - 1
            /\ UNCHANGED d_pushControlSema
    /\ OnlyMoves
    /\ UNCHANGED <<sharedVars, d_elements, d_numWaitingPoppers,
                   d_numWaitingPushers, callVars>>

\* The loop of pushBack or popFront starts over.
LeaveWait(t) ==
    /\ Goto(t, "leave_wait", Entry(op[t]))
    /\ AddWaiting(t, -1)
    /\ saved' = [saved EXCEPT ![t] = None]
    /\ UNCHANGED <<sharedVars, loaded, own, result, d_elements,
                   d_popControlSema, d_pushControlSema, callVars>>

-----------------------------------------------------------------------------
(* removeAll *)

RemoveLoadPush(t) ==
    /\ Goto(t, "remove_push", "remove_pop")
    /\ loaded' = [loaded EXCEPT ![t] = d_pushIndex.index]
    /\ UNCHANGED <<sharedVars, saved, own, result, queueVars, callVars>>

\* while (poppedItems++ < numItems), with the counter and the bound given.
RemoveNext(t, from, popped, numItems) ==
    /\ Goto(t, from, IF popped < numItems THEN "pop_load" ELSE "count_pushers")
    /\ count' = [count EXCEPT ![t] = popped + 1]
    /\ limit' = [limit EXCEPT ![t] = numItems]
    /\ saved' = [saved EXCEPT ![t] = None]

RemoveLoadPop(t) ==
    /\ RemoveNext(t, "remove_pop", 0, lengthOf(loaded[t], d_popIndex))
    /\ UNCHANGED <<sharedVars, loaded, own, result, queueVars,
                   role, op, calls, value>>

RemoveElement(t) ==
    /\ op[t] = "removeAll" /\ own[t] # None
    /\ RemoveNext(t, "ret", count[t], limit[t])
    /\ d_elements' = [d_elements EXCEPT ![index(own[t])] = NoValue]
    /\ StoreEmpty(own[t])
    /\ own' = [own EXCEPT ![t] = None]
    /\ UNCHANGED <<d_pushIndex, d_popIndex, loaded, result, waitVars,
                   role, op, calls, value>>

RemoveFoundEmpty(t) ==
    /\ op[t] = "removeAll" /\ own[t] = None
    /\ Goto(t, "ret", "count_pushers")
    /\ OnlyMoves
    /\ UNCHANGED <<sharedVars, queueVars, callVars>>

\* numWakeUps = min(poppedItems, d_numWaitingPushers)
RemoveCountPushers(t) ==
    /\ Goto(t, "count_pushers", "post_pushers")
    /\ count' = [count EXCEPT ![t] = IF @ < d_numWaitingPushers
                                     THEN @ ELSE d_numWaitingPushers]
    /\ OnlyMoves
    /\ UNCHANGED <<sharedVars, queueVars, role, op, calls, value, limit>>

\* The loops of posts that end removeAll, disable and the push proctor.
PostPushers(t) ==
    /\ \/ /\ count[t] = 0
          /\ Finish(t, "post_pushers")
          /\ UNCHANGED d_pushControlSema
       \/ /\ count[t] > 0
          /\ Goto(t, "post_pushers", "post_pushers")
          /\ count' = [count EXCEPT ![t] = @ - 1]
          /\ d_pushControlSema' = d_pushControlSema + 1
          /\ OnlyMoves
          /\ UNCHANGED <<role, op, calls, limit>>
    /\ UNCHANGED <<sharedVars, d_elements, d_numWaitingPoppers,
                   d_popControlSema, d_numWaitingPushers, value>>

-----------------------------------------------------------------------------
(* disable and enable *)

disable(t) ==
    /\ "disable" \in role[t] /\ MayCall(t)
    /\ Goto(t, "idle", "disabled")
    /\ op' = [op EXCEPT ![t] = "disable"]
    /\ calls' = [calls EXCEPT ![t] = @ + 1]
    /\ SetDisabled(TRUE)
    /\ OnlyMoves
    /\ UNCHANGED <<d_popIndex, d_states, queueVars, role, value, count, limit>>

DisableCountPushers(t) ==
    /\ Goto(t, "disabled", "post_pushers")
    /\ count' = [count EXCEPT ![t] = d_numWaitingPushers]
    /\ OnlyMoves
    /\ UNCHANGED <<sharedVars, queueVars, role, op, calls, value, limit>>

enable(t) ==
    /\ "enable" \in role[t] /\ pc[t] = "idle" /\ MayCall(t)
    /\ calls' = [calls EXCEPT ![t] = @ + 1]
    /\ SetDisabled(FALSE)
    /\ UNCHANGED <<d_popIndex, d_states, threadVars, queueVars,
                   role, op, value, count, limit>>

-----------------------------------------------------------------------------
(* FixedQueue_PushProctor: the element's constructor throws.  Every earlier *)
(* element is destroyed, the reservation aborted, and a pusher woken for    *)
(* each element freed.                                                      *)

Throw(t) ==
    /\ op[t] \in Pushing /\ own[t] # None /\ "throw" \in role[t]
    /\ Goto(t, "ret", "clear_load")
    /\ count' = [count EXCEPT ![t] = 1]
    /\ OnlyMoves
    /\ UNCHANGED <<sharedVars, queueVars, role, op, calls, value, limit>>

\* Mutant: the cleared element is not destroyed.
ClearElement_Leak(t) ==
    /\ result[t] = "success"
    /\ Goto(t, "clear_ret", "clear_load")
    /\ StoreEmpty(loaded[t])
    /\ count' = [count EXCEPT ![t] = @ + 1]
    /\ OnlyMoves
    /\ UNCHANGED <<d_pushIndex, d_popIndex, queueVars, role, op, calls, value, limit>>

ClearElement(t) ==
    /\ result[t] = "success"
    /\ Goto(t, "clear_ret", "clear_load")
    /\ d_elements' = [d_elements EXCEPT ![index(loaded[t])] = NoValue]
    /\ StoreEmpty(loaded[t])
    /\ count' = [count EXCEPT ![t] = @ + 1]
    /\ OnlyMoves
    /\ UNCHANGED <<d_pushIndex, d_popIndex, waitVars, role, op, calls, value, limit>>

ClearEnd(t) ==
    /\ result[t] = "end"
    /\ Goto(t, "clear_ret", "abort_reading")
    /\ OnlyMoves
    /\ UNCHANGED <<sharedVars, queueVars, callVars>>

\* The reservation is aborted; the posts, and then the exception, follow.
Aborted(t) ==
    /\ result[t] = "end"
    /\ Goto(t, "ret", "post_pushers")
    /\ OnlyMoves
    /\ UNCHANGED <<sharedVars, queueVars, callVars>>

-----------------------------------------------------------------------------
pushBack(t) ==
    \/ ConstructAndCommit(t) \/ CheckPoppers(t) \/ PostPopper(t)
    \/ Throw(t) \/ ClearElement(t) \/ ClearEnd(t) \/ Aborted(t)

popFront(t) == TakeAndCommit(t) \/ CheckPushers(t) \/ PostPusher(t)

block(t) ==
    \/ EnterWait(t) \/ LengthLoadPush(t) \/ LengthLoadPop(t)
    \/ CheckEnabled(t) \/ Wait(t) \/ LeaveWait(t)

removeAll(t) ==
    \/ RemoveLoadPush(t) \/ RemoveLoadPop(t) \/ RemoveElement(t)
    \/ RemoveFoundEmpty(t) \/ RemoveCountPushers(t)

ThreadStep(t) ==
    \/ ManagerCall(t) \/ ReportFailure(t)
    \/ pushBack(t) \/ popFront(t) \/ block(t) \/ removeAll(t)
    \/ PostPushers(t) \/ DisableCountPushers(t)

ClientCall(t) == (\E o \in AllCalls : Call(t, o)) \/ disable(t) \/ enable(t)

Next == \E t \in Thread : ThreadStep(t) \/ ClientCall(t)

Spec == Init /\ [][Next]_vars

\* The scheduler runs every thread that can take a step of its call.
FairSpec == Spec /\ \A t \in Thread : WF_vars(ThreadStep(t))

\* And every thread goes on to make the calls it has left.
EagerSpec == FairSpec /\ \A t \in Thread : WF_vars(ClientCall(t))

-----------------------------------------------------------------------------
(* Properties *)

Blocked(t) == pc[t] = "wait" /\ SemaOf(t) = 0

\* Every thread is outside the queue or asleep on a semaphore nobody posts.
AtRest == \A t \in Thread : pc[t] = "idle" \/ Blocked(t)

\* No lost wakeup: when nothing moves any more, no popFront sleeps while the
\* queue holds an element.
NoStrandedPopper ==
    AtRest => \A t \in Thread :
                 (Blocked(t) /\ op[t] = "popFront") => Items = {}

\* The same for a queue that no thread ever disables.
NeverDisabled == \A t \in Thread : "disable" \notin role[t]
NoLostPopWakeup == NeverDisabled => NoStrandedPopper

\* No lost wakeup: when nothing moves any more, no pushBack sleeps while the
\* queue has room or is disabled.
NoStrandedPusher ==
    AtRest => \A t \in Thread :
                 (Blocked(t) /\ op[t] = "pushBack") =>
                    Items = Slot /\ ~d_pushIndex.disabled

\* numElements() tells the number of elements when nothing moves, unless the
\* queue was disabled.
LengthAtRest ==
    (NeverDisabled /\ AtRest) =>
        lengthOf(d_pushIndex.index, d_popIndex) = Cardinality(Items)

\* When nothing moves, the length is right, and no push, pop, removeAll, disable
\* or exception has lost a wakeup.
RightAtRest == LengthAtRest /\ NoLostPopWakeup /\ NoStrandedPusher

\* An element is alive exactly while its slot is full or being read: none is
\* constructed over a live one, read before it is constructed, or leaked.
ElementLifetime ==
    \A i \in Slot :
        /\ d_states[i].st = "FULL" => d_elements[i] # NoValue
        /\ d_states[i].st \in {"EMPTY", "WRITING"} => d_elements[i] = NoValue

\* No two threads use an element at a time, and each use finds it as it should.
Consistent == TypeOK /\ ExclusiveElement /\ ElementLifetime

\* The oldest combined index still in the queue: a popper that has acquired
\* the element at d_popIndex may not have advanced d_popIndex yet.
HeadIndex == IF Holds(d_popIndex, "READING") THEN nextCombinedIndex(d_popIndex)
                                             ELSE d_popIndex

itemsBar ==
    [k \in 1 .. Cardinality(Items) |->
        LET c == (HeadIndex + k - 1) % (d_maxCombinedIndex + 1)
        IN  IF d_states[index(c)].st = "WRITING"
            THEN [by  |-> CHOOSE t \in Thread : own[t] = c, val |-> NoValue]
            ELSE [by  |-> None, val |-> d_elements[index(c)]]]

outBar ==
    [t \in Thread |->
        IF op[t] \notin Popping THEN NoValue
        ELSE IF own[t] # None THEN d_elements[index(own[t])]
        ELSE value[t]]

Fifo == INSTANCE BoundedFifo WITH items <- itemsBar, out <- outBar,
                                  Nobody <- None

\* Every behaviour of the queue, whatever the interleaving of its threads'
\* atomic steps, is a behaviour of a bounded FIFO.
ImplementsFifo == Fifo!Spec

\* A pushBack may stay asleep when the queue is full and enabled, a popFront
\* when it is empty.
MayBlock(t) ==
    /\ Blocked(t)
    /\ op[t] = "pushBack" => Items = Slot /\ ~d_pushIndex.disabled
    /\ op[t] = "popFront" => Items = {}

\* Every call returns, but for those that end asleep with good reason: the
\* threads that retry, help each other and spin all get on.
CallsReturn == \A t \in Thread : []<>(pc[t] = "idle" \/ MayBlock(t))

=============================================================================
