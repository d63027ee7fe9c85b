----------------------- MODULE FixedQueueIndexManager -----------------------
(***************************************************************************)
(* bdlcc::FixedQueueIndexManager: the lock-free ring of element states     *)
(* that orders the pushes and pops of bdlcc::FixedQueue.                   *)
(*                                                                         *)
(* Every atomic operation on d_pushIndex, d_popIndex or an element of      *)
(* d_states (a load, a store, a testAndSwap) is one action; the code       *)
(* between two of them touches registers of the thread only and belongs to *)
(* the action before it.  Atomics are sequentially consistent here.        *)
(*                                                                         *)
(* The index words wrap: NumIndices stands for                             *)
(* k_NUM_REPRESENTABLE_COMBINED_INDICES (2^31), from which the number of   *)
(* generations follows as in the code.  StartIndex is the combined index   *)
(* at which the run finds a quiescent, empty ring: the state after         *)
(* StartIndex pushes and as many pops.                                     *)
(***************************************************************************)
EXTENDS Integers, FiniteSets

CONSTANTS
    Thread,       \* the threads that share the index manager
    Capacity,     \* d_capacity
    NumIndices,   \* k_NUM_REPRESENTABLE_COMBINED_INDICES
    StartIndex    \* combined index of the first push of the run

ASSUME IndexAssumption ==
    /\ Capacity \in Nat \ {0}
    /\ NumIndices \in Nat
    /\ 2 * Capacity <= NumIndices            \* capacity <= k_MAX_CAPACITY
    /\ 4 <= NumIndices
    /\ StartIndex \in Nat

\* An index word holds NumIndices combined indices, an element of d_states
\* half as many generations (1 << 30 beside 1 << 31).
numRepresentableGenerations ==
    IF Capacity = 1 THEN NumIndices \div 2 ELSE NumIndices \div Capacity
d_maxGeneration    == numRepresentableGenerations - 1
d_maxCombinedIndex == numRepresentableGenerations * Capacity - 1

ASSUME StartAssumption == StartIndex <= d_maxCombinedIndex

Slot     == 0 .. Capacity - 1
Combined == 0 .. d_maxCombinedIndex
Gen      == 0 .. d_maxGeneration
None     == -1                               \* savedPushIndex = -1

\* The generation and the element index of a combined index.
generation(c) == c \div Capacity
index(c)      == c % Capacity

nextCombinedIndex(c) == IF c = d_maxCombinedIndex THEN 0 ELSE c + 1
nextGeneration(g)    == IF g = d_maxGeneration THEN 0 ELSE g + 1

circularDifference(minuend, subtrahend, modulo) ==
    LET difference == minuend - subtrahend
        half       == modulo \div 2
    IN  IF difference > half THEN difference - modulo
        ELSE IF difference < -half THEN difference + modulo
        ELSE difference

\* The test both reserve functions make for "one generation behind".
isPreviousGeneration(curr, element) ==
    curr - element \in {1, -d_maxGeneration}

-----------------------------------------------------------------------------
VARIABLES
    d_pushIndex,  \* [disabled, index]: one atomic word
    d_popIndex,   \* combined index
    d_states,     \* d_states[i]: generation and state of element i
    pc,           \* pc[t]: the next atomic operation of thread t
    loaded,       \* loaded[t]: the register loadedPushIndex / loadedPopIndex
    saved,        \* saved[t]: the register savedPushIndex / savedPopIndex
    own,          \* own[t]: combined index thread t has reserved
    result        \* result[t]: what its last call returned

sharedVars  == <<d_pushIndex, d_popIndex, d_states>>
threadVars  == <<pc, loaded, saved, own, result>>
managerVars == <<sharedVars, threadVars>>

State == {"EMPTY", "WRITING", "FULL", "READING"}

\* "idle" and "ret" are outside the manager: before and after a call.
ManagerPC == {"idle", "ret",
              "push_load", "push_swap", "push_help", "push_advance",
              "pop_load", "pop_swap", "pop_help", "pop_advance",
              "clear_load", "clear_swap", "clear_help", "clear_advance",
              "clear_ret", "abort_reading", "abort_advance", "abort_empty"}

Result == {"none", "success", "full", "disabled", "empty", "end"}

\* The types of everything but pc, which the caller's steps extend.
ManagerTypeOK ==
    /\ d_pushIndex \in [disabled : BOOLEAN, index : Combined]
    /\ d_popIndex \in Combined
    /\ d_states \in [Slot -> [gen : Gen, st : State]]
    /\ loaded \in [Thread -> Combined]
    /\ saved \in [Thread -> Combined \cup {None}]
    /\ own \in [Thread -> Combined \cup {None}]
    /\ result \in [Thread -> Result]

\* A quiescent, enabled, empty ring that has seen StartIndex pushes and pops:
\* the elements before index(StartIndex) are already one generation ahead.
InitRing ==
    /\ d_pushIndex = [disabled |-> FALSE, index |-> StartIndex]
    /\ d_popIndex = StartIndex
    /\ d_states = [i \in Slot |->
                     [gen |-> IF i < index(StartIndex)
                              THEN nextGeneration(generation(StartIndex))
                              ELSE generation(StartIndex),
                      st  |-> "EMPTY"]]
    /\ pc = [t \in Thread |-> "idle"]
    /\ loaded = [t \in Thread |-> 0]
    /\ saved = [t \in Thread |-> None]
    /\ own = [t \in Thread |-> None]
    /\ result = [t \in Thread |-> "none"]

-----------------------------------------------------------------------------
Goto(t, from, to) == pc[t] = from /\ pc' = [pc EXCEPT ![t] = to]

\* The return of a call with the given status.
Return(t, from, status) ==
    /\ Goto(t, from, "ret")
    /\ result' = [result EXCEPT ![t] = status]

\* testAndSwap of element index(c) from state (generation(c), expected).
Holds(c, st)  == d_states[index(c)] = [gen |-> generation(c), st |-> st]
SetState(c, g, st) ==
    d_states' = [d_states EXCEPT ![index(c)] = [gen |-> g, st |-> st]]

\* What a failed testAndSwap of element index(c) returned.
was(c) == d_states[index(c)]

\* The elements that hold, or are reserved for, a value.
Items == {i \in Slot : d_states[i].st \in {"WRITING", "FULL"}}

-----------------------------------------------------------------------------
(* reservePushIndex *)

\* A load of d_pushIndex and the test of the disabled flag at the loop's top.
ReservePushLoad(t) ==
    /\ \/ /\ d_pushIndex.disabled
          /\ Return(t, "push_load", "disabled")
          /\ UNCHANGED loaded
       \/ /\ ~d_pushIndex.disabled
          /\ Goto(t, "push_load", "push_swap")
          /\ loaded' = [loaded EXCEPT ![t] = d_pushIndex.index]
          /\ UNCHANGED result
    /\ UNCHANGED <<sharedVars, saved, own>>

\* testAndSwap (currGeneration, EMPTY) -> (currGeneration, WRITING).
ReservePushAcquire(t) ==
    /\ Holds(loaded[t], "EMPTY")
    /\ Goto(t, "push_swap", "push_advance")
    /\ SetState(loaded[t], generation(loaded[t]), "WRITING")
    /\ own' = [own EXCEPT ![t] = loaded[t]]
    /\ UNCHANGED <<d_pushIndex, d_popIndex, loaded, saved, result>>

PushSeesPrevious(t) ==
    isPreviousGeneration(generation(loaded[t]), was(loaded[t]).gen)

\* Mutant: an element that is being read counts as full.
ReservePushBehind_Reader(t) ==
    /\ PushSeesPrevious(t)
    /\ Return(t, "push_swap", "full")
    /\ UNCHANGED <<sharedVars, loaded, saved, own>>

\* The element is a generation behind: wait for its reader, try a second
\* time, or report that the queue is full.
ReservePushBehind(t) ==
    /\ PushSeesPrevious(t)
    /\ \/ /\ was(loaded[t]).st = "READING"
          /\ Goto(t, "push_swap", "push_load")
          /\ UNCHANGED <<saved, result>>
       \/ /\ was(loaded[t]).st # "READING"
          /\ saved[t] # loaded[t]
          /\ Goto(t, "push_swap", "push_load")
          /\ saved' = [saved EXCEPT ![t] = loaded[t]]
          /\ UNCHANGED result
       \/ /\ was(loaded[t]).st # "READING"
          /\ saved[t] = loaded[t]
          /\ Return(t, "push_swap", "full")
          /\ UNCHANGED saved
    /\ UNCHANGED <<sharedVars, loaded, own>>

\* Another thread already acquired the element.
ReservePushTaken(t) ==
    /\ ~Holds(loaded[t], "EMPTY")
    /\ ~PushSeesPrevious(t)
    /\ Goto(t, "push_swap", "push_help")
    /\ UNCHANGED <<sharedVars, loaded, saved, own, result>>

ReservePushSwap(t) ==
    ReservePushAcquire(t) \/ ReservePushBehind(t) \/ ReservePushTaken(t)

\* d_pushIndex.testAndSwap(combinedIndex, next): the disabled bit is part of
\* the word, so the swap fails when the queue is disabled.
AdvancePushIndex(c) ==
    d_pushIndex' = IF d_pushIndex = [disabled |-> FALSE, index |-> c]
                   THEN [d_pushIndex EXCEPT !.index = nextCombinedIndex(c)]
                   ELSE d_pushIndex

\* Help the thread that acquired the element; the word the swap returns is
\* the next loadedPushIndex, tested for the flag at the loop's top.
ReservePushHelp(t) ==
    /\ AdvancePushIndex(loaded[t])
    /\ \/ /\ d_pushIndex.disabled
          /\ Return(t, "push_help", "disabled")
          /\ UNCHANGED loaded
       \/ /\ ~d_pushIndex.disabled
          /\ Goto(t, "push_help", "push_swap")
          /\ loaded' = [loaded EXCEPT ![t] = d_pushIndex.index]
          /\ UNCHANGED result
    /\ UNCHANGED <<d_popIndex, d_states, saved, own>>

ReservePushAdvance(t) ==
    /\ Return(t, "push_advance", "success")
    /\ AdvancePushIndex(loaded[t])
    /\ UNCHANGED <<d_popIndex, d_states, loaded, saved, own>>

reservePushIndex(t) ==
    \/ ReservePushLoad(t)
    \/ ReservePushSwap(t)
    \/ ReservePushHelp(t)
    \/ ReservePushAdvance(t)

-----------------------------------------------------------------------------
(* reservePopIndex *)

ReservePopLoad(t) ==
    /\ Goto(t, "pop_load", "pop_swap")
    /\ loaded' = [loaded EXCEPT ![t] = d_popIndex]
    /\ UNCHANGED <<sharedVars, saved, own, result>>

\* Mutant: the state is loaded and stored, not swapped.
ReservePopAcquire_NotAtomic(t) ==
    /\ Holds(loaded[t], "FULL") \/ Holds(loaded[t], "READING")
    /\ Goto(t, "pop_swap", "pop_advance")
    /\ SetState(loaded[t], generation(loaded[t]), "READING")
    /\ own' = [own EXCEPT ![t] = loaded[t]]
    /\ UNCHANGED <<d_pushIndex, d_popIndex, loaded, saved, result>>

\* testAndSwap (currGeneration, FULL) -> (currGeneration, READING).
ReservePopAcquire(t) ==
    /\ Holds(loaded[t], "FULL")
    /\ Goto(t, "pop_swap", "pop_advance")
    /\ SetState(loaded[t], generation(loaded[t]), "READING")
    /\ own' = [own EXCEPT ![t] = loaded[t]]
    /\ UNCHANGED <<d_pushIndex, d_popIndex, loaded, saved, result>>

PopSeesPrevious(t) ==
    isPreviousGeneration(generation(loaded[t]), was(loaded[t]).gen)

\* Still being popped from the previous generation, or empty in this one.
ReservePopEmpty(t) ==
    /\ \/ /\ PopSeesPrevious(t)
          /\ Return(t, "pop_swap", "empty")
          /\ UNCHANGED saved
       \/ /\ Holds(loaded[t], "EMPTY")
          /\ saved[t] # loaded[t]
          /\ Goto(t, "pop_swap", "pop_load")
          /\ saved' = [saved EXCEPT ![t] = loaded[t]]
          /\ UNCHANGED result
       \/ /\ Holds(loaded[t], "EMPTY")
          /\ saved[t] = loaded[t]
          /\ Return(t, "pop_swap", "empty")
          /\ UNCHANGED saved
    /\ UNCHANGED <<sharedVars, loaded, own>>

\* Being written, or the pop index is out of date: yield and load it again.
ReservePopRetry(t) ==
    /\ ~PopSeesPrevious(t)
    /\ \/ was(loaded[t]).gen # generation(loaded[t])
       \/ was(loaded[t]).st = "WRITING"
    /\ Goto(t, "pop_swap", "pop_load")
    /\ UNCHANGED <<sharedVars, loaded, saved, own, result>>

ReservePopTaken(t) ==
    /\ Holds(loaded[t], "READING")
    /\ Goto(t, "pop_swap", "pop_help")
    /\ UNCHANGED <<sharedVars, loaded, saved, own, result>>

ReservePopSwap(t) ==
    \/ ReservePopAcquire(t)
    \/ ReservePopEmpty(t)
    \/ ReservePopRetry(t)
    \/ ReservePopTaken(t)

AdvancePopIndex(c) ==
    d_popIndex' = IF d_popIndex = c THEN nextCombinedIndex(c) ELSE d_popIndex

ReservePopHelp(t) ==
    /\ Goto(t, "pop_help", "pop_swap")
    /\ AdvancePopIndex(loaded[t])
    /\ loaded' = [loaded EXCEPT ![t] = d_popIndex]
    /\ UNCHANGED <<d_pushIndex, d_states, saved, own, result>>

ReservePopAdvance(t) ==
    /\ Return(t, "pop_advance", "success")
    /\ AdvancePopIndex(loaded[t])
    /\ UNCHANGED <<d_pushIndex, d_states, loaded, saved, own>>

reservePopIndex(t) ==
    \/ ReservePopLoad(t)
    \/ ReservePopSwap(t)
    \/ ReservePopHelp(t)
    \/ ReservePopAdvance(t)

-----------------------------------------------------------------------------
(* reservePopIndexForClear: the popper of a thread whose element            *)
(* constructor threw, up to the element own[t] it holds for writing.        *)

ReserveClearLoad(t) ==
    /\ \/ /\ d_popIndex = own[t]
          /\ Goto(t, "clear_load", "clear_ret")
          /\ result' = [result EXCEPT ![t] = "end"]
          /\ UNCHANGED loaded
       \/ /\ d_popIndex # own[t]
          /\ Goto(t, "clear_load", "clear_swap")
          /\ loaded' = [loaded EXCEPT ![t] = d_popIndex]
          /\ UNCHANGED result
    /\ UNCHANGED <<sharedVars, saved, own>>

ReserveClearSwap(t) ==
    LET c == loaded[t] IN
    /\ \/ /\ Holds(c, "FULL")
          /\ Goto(t, "clear_swap", "clear_advance")
          /\ SetState(c, generation(c), "READING")
       \/ /\ ~Holds(c, "FULL")
          /\ was(c).st \in {"WRITING", "FULL"}
          /\ Goto(t, "clear_swap", "clear_load")
          /\ UNCHANGED d_states
       \/ /\ was(c).st \in {"EMPTY", "READING"}
          /\ Goto(t, "clear_swap", "clear_help")
          /\ UNCHANGED d_states
    /\ UNCHANGED <<d_pushIndex, d_popIndex, loaded, saved, own, result>>

ReserveClearHelp(t) ==
    /\ AdvancePopIndex(loaded[t])
    /\ \/ /\ d_popIndex = own[t]
          /\ Goto(t, "clear_help", "clear_ret")
          /\ result' = [result EXCEPT ![t] = "end"]
          /\ UNCHANGED loaded
       \/ /\ d_popIndex # own[t]
          /\ Goto(t, "clear_help", "clear_swap")
          /\ loaded' = [loaded EXCEPT ![t] = d_popIndex]
          /\ UNCHANGED result
    /\ UNCHANGED <<d_pushIndex, d_states, saved, own>>

ReserveClearAdvance(t) ==
    /\ Goto(t, "clear_advance", "clear_ret")
    /\ AdvancePopIndex(loaded[t])
    /\ result' = [result EXCEPT ![t] = "success"]
    /\ UNCHANGED <<d_pushIndex, d_states, loaded, saved, own>>

reservePopIndexForClear(t) ==
    \/ ReserveClearLoad(t)
    \/ ReserveClearSwap(t)
    \/ ReserveClearHelp(t)
    \/ ReserveClearAdvance(t)

(* abortPushIndexReservation *)

AbortReading(t) ==
    /\ Goto(t, "abort_reading", "abort_advance")
    /\ SetState(own[t], generation(own[t]), "READING")
    /\ UNCHANGED <<d_pushIndex, d_popIndex, loaded, saved, own, result>>

\* loadedPopIndex was loaded before the store of READING; no other thread can
\* move d_popIndex past an element that is being written.
AbortAdvance(t) ==
    /\ Goto(t, "abort_advance", "abort_empty")
    /\ AdvancePopIndex(own[t])
    /\ UNCHANGED <<d_pushIndex, d_states, loaded, saved, own, result>>

\* Mutant: the aborted element is left in READING.
AbortEmpty_Forgotten(t) ==
    /\ Goto(t, "abort_empty", "ret")
    /\ own' = [own EXCEPT ![t] = None]
    /\ UNCHANGED <<sharedVars, loaded, saved, result>>

AbortEmpty(t) ==
    /\ Goto(t, "abort_empty", "ret")
    /\ SetState(own[t], nextGeneration(generation(own[t])), "EMPTY")
    /\ own' = [own EXCEPT ![t] = None]
    /\ UNCHANGED <<d_pushIndex, d_popIndex, loaded, saved, result>>

abortPushIndexReservation(t) ==
    AbortReading(t) \/ AbortAdvance(t) \/ AbortEmpty(t)

-----------------------------------------------------------------------------
(* The operations that make one store, or one swap in a loop. *)

\* d_states[index] = (generation, FULL)
StoreFull(t) == SetState(own[t], generation(own[t]), "FULL")

\* d_states[index] = (nextGeneration(generation), EMPTY)
StoreEmpty(c) == SetState(c, nextGeneration(generation(c)), "EMPTY")

\* disable and enable loop until their swap of the flag succeeds or the flag
\* is found as wanted: one atomic change.
SetDisabled(flag) == d_pushIndex' = [d_pushIndex EXCEPT !.disabled = flag]

\* length(): what the two loads, the push index first, amount to.
lengthOf(push, pop) ==
    LET difference == push - pop
        wrapped    == difference + d_maxCombinedIndex + 1
    IN  IF difference >= 0
        THEN IF difference > Capacity THEN 0 ELSE difference
        ELSE IF difference < -(d_maxCombinedIndex \div 2)
             THEN IF wrapped < Capacity THEN wrapped ELSE Capacity
             ELSE 0

\* A step of the call in progress.
ManagerStep(t) ==
    \/ reservePushIndex(t)
    \/ reservePopIndex(t)
    \/ reservePopIndexForClear(t)
    \/ abortPushIndexReservation(t)

-----------------------------------------------------------------------------
(* Reservations, whoever the caller is *)

\* The combined indices thread t may access: its own reservation, and while
\* it clears the queue the one it is disposing of.
Held(t) ==
    ({own[t]} \ {None})
    \cup (IF \/ pc[t] = "clear_advance"
             \/ pc[t] = "clear_ret" /\ result[t] = "success"
          THEN {loaded[t]} ELSE {})

\* No two threads, and no two reservations of one thread, are ever given the
\* same element of the ring: the queue's elements are not atomic, so this is
\* what keeps its element accesses free of data races.
ExclusiveElement ==
    \A s, t \in Thread : \A c \in Held(s), d \in Held(t) :
        index(c) = index(d) => s = t /\ c = d

\* reservePushIndex reports a full queue only at a testAndSwap at which every
\* element of the ring holds, or is reserved for, a value.
FullIsTrue ==
    \A t \in Thread :
        (pc[t] = "push_swap" /\ pc'[t] = "ret" /\ result'[t] = "full")
           => Items = Slot

\* reservePopIndex reports an empty queue only at a testAndSwap at which no
\* element of the ring holds, or is reserved for, a value.
EmptyIsTrue ==
    \A t \in Thread :
        (pc[t] = "pop_swap" /\ pc'[t] = "ret" /\ result'[t] = "empty")
           => Items = {}

\* A pop or a clear takes the oldest element: no element still in the queue
\* precedes it in push order.
OldestIsTaken ==
    \A i \in Slot :
        (d_states[i].st = "FULL" /\ d_states'[i].st = "READING") =>
           \A j \in Items :
              circularDifference(d_states[j].gen * Capacity + j,
                                 d_states[i].gen * Capacity + i,
                                 d_maxCombinedIndex + 1) >= 0

=============================================================================
