---------------------------- MODULE BoundedQueue -----------------------------
(***************************************************************************)
(* bdlcc::BoundedQueue: a ring of Capacity nodes between two semaphores.   *)
(* A push takes from d_pushSemaphore, the next index, and constructs its   *)
(* value, which may throw; a pop takes from d_popSemaphore and skips the   *)
(* nodes whose push threw.  Neither posts to the other side by itself: the *)
(* operation that leaves as many finished as started ones posts for all of *)
(* them.  waitUntilEmpty sleeps until a pop finds the queue empty.         *)
(*                                                                         *)
(* One action is one access to a shared word.  The semaphores are taken at *)
(* the contract that FastPostSemaphoreImpl is checked for; as there, a     *)
(* wait that is refused counts against the value until it has given back.  *)
(***************************************************************************)
EXTENDS Integers, Sequences, FiniteSets

CONSTANTS
    Thread,
    None,
    Capacity,     \* d_capacity: what was asked for, but at least two
    Value,
    NoValue,
    Circle,       \* the number of values of the counters of empty waiters
    Scripts       \* the calls each thread makes

Call(name, v, throws) == [op |-> name, val |-> v, throws |-> throws]

Pushes == {"pushBack", "tryPushBack"}
Pops   == {"popFront", "tryPopFront"}
OtherCalls == {"removeAll", "waitUntilEmpty", "disablePushBack", "enablePushBack",
               "disablePopFront", "enablePopFront"}

Calls == {Call(o, v, b) : o \in Pushes, v \in Value, b \in BOOLEAN}
    \cup {Call(o, NoValue, b) : o \in Pops \cup OtherCalls, b \in BOOLEAN}

ASSUME QueueAssumption ==
    /\ IsFiniteSet(Thread) /\ None \notin Thread
    /\ Capacity \in Nat /\ Capacity >= 2
    /\ NoValue \notin Value
    /\ Circle \in Nat \ {0} /\ Circle % 2 = 0
    /\ Scripts \subseteq [Thread -> Seq(Calls)]

\* Where waitUntilEmpty is called in the calls s.  It is told the truth while it
\* is called at most as often as half the circle: then no two readings of
\* d_emptyWaiterCount are further apart than circularlyGreater can tell.
WaitCalls(s) ==
    {c \in UNION {{t} \X (1 .. Len(s[t])) : t \in Thread} :
        s[c[1]][c[2]].op = "waitUntilEmpty"}

FewWaits == \A s \in Scripts : Cardinality(WaitCalls(s)) <= Circle \div 2

VARIABLES
    sem,                  \* d_pushSemaphore and d_popSemaphore
    count,                \* d_pushCount and d_popCount
    d_pushIndex, d_popIndex,
    d_element,
    d_emptyWaiterCount, d_emptyCountSeen,
    d_emptyMutex,         \* who holds it between actions
    notified,             \* threads d_emptyCondition was broadcast to
    pc, step, script,
    my,                   \* what each thread's call has read
    out,                  \* what its pop has taken
    wasEmpty              \* whether the queue was empty during its wait

queue   == <<sem, count, d_pushIndex, d_popIndex, d_element>>
waiters == <<d_emptyWaiterCount, d_emptyCountSeen, d_emptyMutex, notified>>
vars    == <<queue, waiters, pc, step, script, my, out, wasEmpty>>

Sides == {"push", "pop"}
Other(s) == IF s = "push" THEN "pop" ELSE "push"

NoCount == [started |-> 0, finished |-> 0]

\* index: the place taken; num: how many places; again: how many of them were
\* unconstructed; seen: the count read; empty: the count of waiters; gen: the
\* generation of the semaphore
Locals == [index : Nat, num : Nat, again : Nat, empty : 0 .. Circle - 1,
           seen : [started : Nat, finished : Nat], gen : Nat]

TypeOK ==
    /\ sem \in [Sides -> [tokens : 0 .. Capacity, gen : Nat]]
    /\ count \in [Sides -> [started : Nat, finished : Nat]]
    /\ d_pushIndex \in Nat /\ d_popIndex \in Nat
    /\ d_element \in [0 .. Capacity - 1 ->
                        [unconstructed : BOOLEAN, val : Value \cup {NoValue}]]
    /\ d_emptyWaiterCount \in 0 .. Circle - 1
    /\ d_emptyCountSeen \in 0 .. Circle - 1
    /\ d_emptyMutex \in Thread \cup {None}
    /\ notified \subseteq Thread
    /\ pc \in [Thread -> {"idle", "waiting", "refund", "mark", "index", "flag",
                          "construct", "fail", "look", "finish", "swap", "post",
                          "count", "empty", "seen", "fence", "broadcast",
                          "drain", "state", "peek", "lock", "decided",
                          "asleep"}]
    /\ my \in [Thread -> Locals]
    /\ out \in [Thread -> Value \cup {NoValue}]

Init ==
    /\ sem = [s \in Sides |->
                [tokens |-> IF s = "push" THEN Capacity ELSE 0, gen |-> 0]]
    /\ count = [s \in Sides |-> NoCount]
    /\ d_pushIndex = 0 /\ d_popIndex = 0
    /\ d_element = [i \in 0 .. Capacity - 1 |->
                       [unconstructed |-> FALSE, val |-> NoValue]]
    /\ d_emptyWaiterCount = 0 /\ d_emptyCountSeen = 0
    /\ d_emptyMutex = None /\ notified = {}
    /\ pc = [t \in Thread |-> "idle"]
    /\ step = [t \in Thread |-> 0]
    /\ script \in Scripts
    /\ my = [t \in Thread |-> [index |-> 0, num |-> 0, again |-> 0,
                               empty |-> 0, seen |-> NoCount, gen |-> 0]]
    /\ out = [t \in Thread |-> NoValue]
    /\ wasEmpty = [t \in Thread |-> FALSE]

-----------------------------------------------------------------------------
NextCall(t) == script[t][step[t] + 1]
op(t)       == NextCall(t).op

Side(t) == IF op(t) \in Pushes \cup {"disablePushBack", "enablePushBack"}
           THEN "push" ELSE "pop"

Calling(t, o) == pc[t] = "idle" /\ step[t] < Len(script[t]) /\ op(t) \in o

Goto(t, place) ==
    /\ pc' = [pc EXCEPT ![t] = place]
    /\ UNCHANGED <<step, script, out>>

Return(t) ==
    /\ pc' = [pc EXCEPT ![t] = "idle"]
    /\ step' = [step EXCEPT ![t] = @ + 1]
    /\ out' = [out EXCEPT ![t] = NoValue]
    /\ UNCHANGED script

\* The value of a semaphore: what it holds less what waiting threads took.
getValueRaw(s) ==
    sem[s].tokens
      - Cardinality({t \in Thread : /\ pc[t] \in {"waiting", "refund"}
                                    /\ Side(t) = s})

isDisabled(s) == sem[s].gen % 2 = 1
isEmpty       == getValueRaw("push") = Capacity

Give(s, n) == sem' = [sem EXCEPT ![s].tokens = @ + n]

OnlySem   == UNCHANGED <<count, d_pushIndex, d_popIndex, d_element, waiters>>
OnlyCount == UNCHANGED <<sem, d_pushIndex, d_popIndex, d_element, waiters>>
OnlyQueue == UNCHANGED waiters

\* Mutant: an operation posts though others have not finished.
isQuiescentState_SomeFinished(c) == c.finished # 0

isQuiescentState(c) == c.finished = c.started

\* Is lhs after rhs on the circle of unsigned integers?
circularlyGreater(lhs, rhs) ==
    IF lhs > rhs THEN lhs - rhs <= Circle \div 2
                 ELSE rhs - lhs > Circle \div 2

Node(index) == d_element[index % Capacity]

-----------------------------------------------------------------------------
(* Taking a place *)

\* A push or pop takes from its semaphore, or sees that it may not.
wait(t) ==
    LET s == Side(t)
    IN  /\ Calling(t, Pushes \cup Pops)
        /\ \/ /\ ~isDisabled(s) /\ getValueRaw(s) >= 1
              /\ Give(s, -1)
              /\ my' = [my EXCEPT ![t].num = 1, ![t].again = 0]
              /\ Goto(t, "mark")
           \/ /\ isDisabled(s) \/ getValueRaw(s) < 1
              /\ my' = [my EXCEPT ![t].gen = sem[s].gen]
              /\ Goto(t, IF isDisabled(s) \/ op(t) \in {"tryPushBack", "tryPopFront"}
                         THEN "refund" ELSE "waiting")
              /\ UNCHANGED sem
        /\ OnlySem

\* A refused try gives back what it took; so does a wait that is sent away,
\* which rather takes what there is.
refund(t) ==
    /\ \/ pc[t] = "refund"
       \/ /\ pc[t] = "waiting"
          /\ sem[Side(t)].tokens < 1 /\ sem[Side(t)].gen # my[t].gen
    /\ Return(t)
    /\ UNCHANGED <<sem, my>> /\ OnlySem

grant(t) ==
    /\ pc[t] = "waiting"
    /\ sem[Side(t)].tokens >= 1
    /\ Give(Side(t), -1)
    /\ my' = [my EXCEPT ![t].num = 1, ![t].again = 0]
    /\ Goto(t, "mark")
    /\ OnlySem

\* removeAll takes all that there is to pop.
removeAll(t) ==
    LET n == getValueRaw("pop")
    IN  /\ Calling(t, {"removeAll"})
        /\ \/ n <= 0 /\ Return(t) /\ UNCHANGED <<sem, my>>
           \/ /\ n > 0
              /\ Give("pop", -n)
              /\ my' = [my EXCEPT ![t].num = n, ![t].again = 0]
              /\ Goto(t, "mark")
        /\ OnlySem

markStartedOperation(t) ==
    /\ pc[t] = "mark"
    /\ count' = [count EXCEPT ![Side(t)].started = @ + my[t].num]
    /\ Goto(t, "index")
    /\ UNCHANGED my /\ OnlyCount

-----------------------------------------------------------------------------
(* Pushing *)

pushIndex(t) ==
    /\ pc[t] = "index" /\ Side(t) = "push"
    /\ my' = [my EXCEPT ![t].index = d_pushIndex]
    /\ d_pushIndex' = d_pushIndex + 1
    /\ Goto(t, "flag")
    /\ UNCHANGED <<sem, count, d_popIndex, d_element>> /\ OnlyQueue

setIsUnconstructed(t) ==
    /\ pc[t] = "flag"
    /\ d_element' = [d_element EXCEPT ![my[t].index % Capacity].unconstructed = TRUE]
    /\ Goto(t, "construct")
    /\ UNCHANGED <<sem, count, d_pushIndex, d_popIndex, my>> /\ OnlyQueue

\* The value is copied, or its constructor throws.
construct(t) ==
    /\ pc[t] = "construct"
    /\ IF NextCall(t).throws
       THEN Goto(t, "fail") /\ UNCHANGED d_element
       ELSE /\ d_element' = [d_element EXCEPT ![my[t].index % Capacity] =
                               [unconstructed |-> FALSE, val |-> NextCall(t).val]]
            /\ Goto(t, "finish")
    /\ UNCHANGED <<sem, count, d_pushIndex, d_popIndex, my>> /\ OnlyQueue

\* A push that threw is no longer one that was started; the count it leaves
\* may be quiescent.
pushExceptionComplete(t) ==
    LET c == [count["push"] EXCEPT !.started = @ - 1]
    IN  /\ pc[t] = "fail"
        /\ count' = [count EXCEPT !["push"] = c]
        /\ my' = [my EXCEPT ![t].seen = c]
        /\ IF c.started # 0 /\ isQuiescentState(c) THEN Goto(t, "swap")
                                                   ELSE Return(t)
        /\ OnlyCount

-----------------------------------------------------------------------------
(* Popping *)

popIndex(t) ==
    /\ pc[t] = "index" /\ Side(t) = "pop"
    /\ my' = [my EXCEPT ![t].index = d_popIndex]
    /\ d_popIndex' = d_popIndex + my[t].num
    /\ Goto(t, "look")
    /\ UNCHANGED <<sem, count, d_pushIndex, d_element>> /\ OnlyQueue

\* Mutant: the node that was skipped is not counted.
markReclaimed_NotCounted(t) ==
    /\ pc[t] = "look" /\ op(t) # "removeAll"
    /\ Node(my[t].index).unconstructed
    /\ Goto(t, "index")
    /\ UNCHANGED <<count, my>> /\ OnlyCount

\* A node whose push threw counts as popped, and the pop takes another index.
markReclaimed(t) ==
    /\ pc[t] = "look" /\ op(t) # "removeAll"
    /\ Node(my[t].index).unconstructed
    /\ count' = [count EXCEPT !["pop"].started = @ + 1, !["pop"].finished = @ + 1]
    /\ Goto(t, "index")
    /\ UNCHANGED my /\ OnlyCount

\* The value is moved out, unless its assignment throws; in either case what is
\* left in the node is destroyed and the pop completed by a guard.
popNode(t) ==
    /\ pc[t] = "look" /\ op(t) # "removeAll"
    /\ ~Node(my[t].index).unconstructed
    /\ d_element' = [d_element EXCEPT ![my[t].index % Capacity].val = NoValue]
    /\ out' = [out EXCEPT ![t] = IF NextCall(t).throws THEN @
                                                      ELSE Node(my[t].index).val]
    /\ pc' = [pc EXCEPT ![t] = "finish"]
    /\ UNCHANGED <<sem, count, d_pushIndex, d_popIndex, my, step, script>>
    /\ OnlyQueue

\* removeAll destroys what is constructed, and goes on for the others.
destroyAll(t) ==
    LET nodes == {i % Capacity : i \in my[t].index .. my[t].index + my[t].num - 1}
        live  == {i \in nodes : ~d_element[i].unconstructed}
    IN  /\ pc[t] = "look" /\ op(t) = "removeAll"
        /\ d_element' = [i \in DOMAIN d_element |->
                           IF i \in live THEN [d_element[i] EXCEPT !.val = NoValue]
                                         ELSE d_element[i]]
        /\ my' = [my EXCEPT ![t].again = my[t].num - Cardinality(live)]
        /\ Goto(t, "finish")
        /\ UNCHANGED <<sem, count, d_pushIndex, d_popIndex>> /\ OnlyQueue

-----------------------------------------------------------------------------
(* Completing *)

\* The call ends; removeAll starts again for what it did not find constructed.
Complete(t) ==
    IF op(t) = "removeAll" /\ my[t].again > 0
    THEN /\ my' = [my EXCEPT ![t].num = my[t].again, ![t].again = 0]
         /\ Goto(t, "mark")
    ELSE Return(t) /\ UNCHANGED my

markFinishedOperation(t) ==
    LET c == [count[Side(t)] EXCEPT !.finished = @ + my[t].num]
    IN  /\ pc[t] = "finish"
        /\ count' = [count EXCEPT ![Side(t)] = c]
        /\ IF isQuiescentState(c)
           THEN my' = [my EXCEPT ![t].seen = c] /\ pc' = [pc EXCEPT ![t] = "swap"]
                /\ UNCHANGED <<step, script, out>>
           ELSE Complete(t)
        /\ OnlyCount

\* Who swaps a quiescent count for zero posts for all that it counts.
swapCount(t) ==
    /\ pc[t] = "swap"
    /\ IF count[Side(t)] = my[t].seen
       THEN /\ count' = [count EXCEPT ![Side(t)] = NoCount]
            /\ Goto(t, "post") /\ UNCHANGED my
       ELSE /\ UNCHANGED count
            /\ IF op(t) = "removeAll" THEN Goto(t, "count") /\ UNCHANGED my
                                      ELSE Complete(t)
    /\ OnlyCount

post(t) ==
    /\ pc[t] = "post"
    /\ Give(Other(Side(t)), my[t].seen.started)
    /\ IF Side(t) = "push" THEN Return(t) ELSE Goto(t, "count")
    /\ UNCHANGED my /\ OnlySem

\* Having posted, a pop tells the waiters it knows of when the queue is empty.
readWaiterCount(t) ==
    /\ pc[t] = "count"
    /\ my' = [my EXCEPT ![t].empty = d_emptyWaiterCount]
    /\ Goto(t, "empty")
    /\ UNCHANGED <<queue, waiters>>

checkEmpty(t) ==
    /\ pc[t] = "empty"
    /\ IF isEmpty THEN Goto(t, "seen") /\ UNCHANGED my ELSE Complete(t)
    /\ UNCHANGED <<queue, waiters>>

\* Mutant: all who came by now are told, not only those known before the queue
\* was found empty.
updateEmptyCountSeen_OfNow(t) ==
    /\ pc[t] = "seen"
    /\ IF circularlyGreater(d_emptyWaiterCount, d_emptyCountSeen)
       THEN /\ d_emptyCountSeen' = d_emptyWaiterCount
            /\ Goto(t, "fence") /\ UNCHANGED my
       ELSE Complete(t) /\ UNCHANGED d_emptyCountSeen
    /\ UNCHANGED <<queue, d_emptyWaiterCount, d_emptyMutex, notified>>

updateEmptyCountSeen(t) ==
    /\ pc[t] = "seen"
    /\ IF circularlyGreater(my[t].empty, d_emptyCountSeen)
       THEN /\ d_emptyCountSeen' = my[t].empty
            /\ Goto(t, "fence") /\ UNCHANGED my
       ELSE Complete(t) /\ UNCHANGED d_emptyCountSeen
    /\ UNCHANGED <<queue, d_emptyWaiterCount, d_emptyMutex, notified>>

\* Mutant: the broadcast does not wait for the mutex.
fence_Skipped(t) ==
    /\ pc[t] = "fence"
    /\ Goto(t, "broadcast")
    /\ UNCHANGED <<queue, waiters, my>>

\* The mutex is locked and unlocked: a waiter that decided to sleep sleeps.
fence(t) ==
    /\ pc[t] = "fence"
    /\ d_emptyMutex = None
    /\ Goto(t, "broadcast")
    /\ UNCHANGED <<queue, waiters, my>>

broadcast(t) ==
    /\ pc[t] = "broadcast"
    /\ notified' = notified \cup {u \in Thread : pc[u] = "asleep"}
    /\ Complete(t)
    /\ UNCHANGED <<queue, d_emptyWaiterCount, d_emptyCountSeen, d_emptyMutex>>

-----------------------------------------------------------------------------
(* waitUntilEmpty *)

waitUntilEmpty(t) ==
    /\ Calling(t, {"waitUntilEmpty"})
    /\ my' = [my EXCEPT ![t].empty = d_emptyWaiterCount]
    /\ d_emptyWaiterCount' = (d_emptyWaiterCount + 1) % Circle
    /\ Goto(t, "state")
    /\ UNCHANGED <<queue, d_emptyCountSeen, d_emptyMutex, notified>>

readDisabledState(t) ==
    /\ pc[t] = "state"
    /\ my' = [my EXCEPT ![t].gen = sem["pop"].gen]
    /\ IF isDisabled("pop") THEN Return(t) ELSE Goto(t, "peek")
    /\ UNCHANGED <<queue, waiters>>

peek(t) ==
    /\ pc[t] = "peek"
    /\ IF isEmpty THEN Return(t) ELSE Goto(t, "lock")
    /\ UNCHANGED <<queue, waiters, my>>

FoundEmpty(t) == isEmpty \/ circularlyGreater(d_emptyCountSeen, my[t].empty)

\* With the mutex, the waiter looks whether it may return.
decide(t) ==
    /\ pc[t] = "lock" \/ (pc[t] = "asleep" /\ t \in notified)
    /\ d_emptyMutex = None
    /\ notified' = notified \ {t}
    /\ IF FoundEmpty(t) \/ sem["pop"].gen # my[t].gen
       THEN Return(t) /\ UNCHANGED d_emptyMutex
       ELSE Goto(t, "decided") /\ d_emptyMutex' = t
    /\ UNCHANGED <<queue, d_emptyWaiterCount, d_emptyCountSeen, my>>

sleep(t) ==
    /\ pc[t] = "decided"
    /\ Goto(t, "asleep")
    /\ d_emptyMutex' = None
    /\ UNCHANGED <<queue, d_emptyWaiterCount, d_emptyCountSeen, notified, my>>

wakeSpuriously(t) ==
    /\ pc[t] = "asleep"
    /\ notified' = notified \cup {t}
    /\ UNCHANGED <<queue, d_emptyWaiterCount, d_emptyCountSeen, d_emptyMutex,
                   pc, step, script, my, out>>

-----------------------------------------------------------------------------
(* Disabling *)

disable(t) ==
    /\ Calling(t, {"disablePopFront", "disablePushBack"})
    /\ \/ ~isDisabled(Side(t)) /\ sem' = [sem EXCEPT ![Side(t)].gen = @ + 1]
       \/ isDisabled(Side(t)) /\ UNCHANGED sem
    /\ Goto(t, "drain")
    /\ UNCHANGED my /\ OnlySem

\* The semaphore waits for those that wait to leave; the waiters for an empty
\* queue are told that pops were disabled.
drain(t) ==
    /\ pc[t] = "drain"
    /\ ~isDisabled(Side(t)) \/ getValueRaw(Side(t)) >= 0
    /\ IF op(t) = "disablePopFront" THEN Goto(t, "fence") ELSE Return(t)
    /\ UNCHANGED <<sem, my>> /\ OnlySem

enable(t) ==
    /\ Calling(t, {"enablePopFront", "enablePushBack"})
    /\ \/ /\ isDisabled(Side(t)) /\ getValueRaw(Side(t)) >= 0
          /\ sem' = [sem EXCEPT ![Side(t)].gen = @ + 1]
       \/ ~isDisabled(Side(t)) /\ UNCHANGED sem
    /\ Return(t)
    /\ UNCHANGED my /\ OnlySem

\* Watching: was the queue empty at some moment of a wait for that?
Watch ==
    wasEmpty' = [t \in Thread |->
                   /\ pc'[t] \in {"state", "peek", "lock", "decided", "asleep"}
                   /\ wasEmpty[t] \/ isEmpty']

Own(t) ==
    /\ \/ wait(t) \/ refund(t) \/ grant(t) \/ removeAll(t)
       \/ markStartedOperation(t) \/ pushIndex(t) \/ setIsUnconstructed(t)
       \/ construct(t)
       \/ pushExceptionComplete(t) \/ popIndex(t) \/ markReclaimed(t)
       \/ popNode(t) \/ destroyAll(t) \/ markFinishedOperation(t)
       \/ swapCount(t) \/ post(t) \/ readWaiterCount(t) \/ checkEmpty(t)
       \/ updateEmptyCountSeen(t) \/ fence(t) \/ broadcast(t)
       \/ waitUntilEmpty(t) \/ readDisabledState(t) \/ peek(t) \/ decide(t)
       \/ sleep(t) \/ disable(t) \/ drain(t) \/ enable(t)
    /\ Watch

Next == \E t \in Thread : Own(t) \/ (wakeSpuriously(t) /\ Watch)

Spec == Init /\ [][Next]_vars

\* No thread is kept from running, nor from the mutex or a semaphore that
\* holds something, forever.
FairSpec == Spec /\ \A t \in Thread : SF_vars(Own(t))

-----------------------------------------------------------------------------
(* Properties *)

Places == d_popIndex .. d_pushIndex - 1
Live   == {i \in Places : ~Node(i).unconstructed}

\* When no operation is under way the counts are back at zero, what can be
\* popped is what was constructed, and what can be pushed is the rest, less
\* the places of pushes that threw: nothing was posted twice or not at all,
\* whoever swapped a count that others changed and restored.
CountsAtRest ==
    (\A t \in Thread : pc[t] \in {"idle", "waiting", "asleep"}) =>
        /\ \A s \in Sides : count[s] = NoCount
        /\ sem["pop"].tokens = Cardinality(Live)
        /\ sem["push"].tokens = Capacity - Cardinality(Places)

\* The semaphores, counts and nodes agree.
Consistent == TypeOK /\ CountsAtRest

Writing(t) == [by |-> t, val |-> NoValue]

itemsBar ==
    [i \in 1 .. d_pushIndex - d_popIndex |->
        LET k == d_popIndex + i - 1
            w == {t \in Thread : pc[t] \in {"flag", "construct"} /\ my[t].index = k}
        IN  IF w # {} THEN Writing(CHOOSE t \in w : TRUE)
            ELSE [by |-> None,
                  val |-> IF Node(k).unconstructed THEN NoValue ELSE Node(k).val]]

\* A pop has its value from the moment it has the index; one whose assignment
\* will throw discards it.
outBar ==
    [t \in Thread |-> IF /\ pc[t] = "look" /\ op(t) # "removeAll"
                         /\ ~NextCall(t).throws
                         /\ ~Node(my[t].index).unconstructed
                      THEN Node(my[t].index).val ELSE out[t]]

Fifo == INSTANCE BoundedFifo WITH items <- itemsBar, out <- outBar,
                                  Nobody <- None

\* Every behaviour of the queue is one of a bounded FIFO: values leave in the
\* order of their places, each once, and only after they were constructed.
ImplementsFifo == Fifo!Spec

\* waitUntilEmpty reports that the queue was emptied only if it was, during
\* the call.
EmptyReported ==
    [][\A t \in Thread :
          (pc[t] \in {"peek", "lock", "asleep"} /\ pc'[t] = "idle"
           /\ sem["pop"].gen = my[t].gen) => wasEmpty[t]]_vars

\* Every call returns, except a push while there is something to pop, a pop
\* while there is nothing, and a wait for a queue that is not empty.
CallsReturn ==
    \A t \in Thread :
        []<>(\/ pc[t] = "idle"
             \/ /\ pc[t] = "waiting" /\ sem[Side(t)].gen = my[t].gen
                /\ IF Side(t) = "push" THEN Live # {} ELSE Live = {}
             \/ pc[t] = "asleep" /\ ~isEmpty)

=============================================================================
