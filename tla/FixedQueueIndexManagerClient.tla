-------------------- MODULE FixedQueueIndexManagerClient --------------------
(***************************************************************************)
(* The index manager under the client its documentation asks for: threads  *)
(* that reserve an element, use it, and commit the reservation, or, when   *)
(* the constructor of an element throws, pop every earlier element and     *)
(* abort it (the protocol of FixedQueue_PushProctor).                      *)
(***************************************************************************)
EXTENDS FixedQueueIndexManager

CONSTANTS
    Roles,        \* who calls what: functions from threads to operations
    MaxCalls      \* bound: calls each thread makes

AllOps == {"push", "throw", "pop", "disable", "enable"}

ASSUME ClientAssumption ==
    /\ Roles \subseteq [Thread -> SUBSET AllOps]
    /\ MaxCalls \in Nat

VARIABLES
    role,         \* role[t]: the operations thread t calls
    op,           \* op[t]: the operation in progress
    calls         \* calls[t]: calls made so far

callVars == <<role, op, calls>>
vars     == <<managerVars, callVars>>

TypeOK ==
    /\ ManagerTypeOK
    /\ pc \in [Thread -> ManagerPC]
    /\ role \in Roles
    /\ op \in [Thread -> AllOps \cup {"none"}]
    /\ calls \in [Thread -> 0 .. MaxCalls]

-----------------------------------------------------------------------------
Call(t, o, entry) ==
    /\ o \in role[t]
    /\ calls[t] < MaxCalls
    /\ Goto(t, "idle", entry)
    /\ op' = [op EXCEPT ![t] = o]
    /\ calls' = [calls EXCEPT ![t] = @ + 1]
    /\ saved' = [saved EXCEPT ![t] = None]
    /\ result' = [result EXCEPT ![t] = "none"]
    /\ UNCHANGED <<sharedVars, loaded, own, role>>

CallPush(t) == \E o \in {"push", "throw"} : Call(t, o, "push_load")
CallPop(t)  == Call(t, "pop", "pop_load")

disable(t) ==
    /\ "disable" \in role[t] /\ pc[t] = "idle" /\ calls[t] < MaxCalls
    /\ calls' = [calls EXCEPT ![t] = @ + 1]
    /\ SetDisabled(TRUE)
    /\ UNCHANGED <<d_popIndex, d_states, threadVars, role, op>>

enable(t) ==
    /\ "enable" \in role[t] /\ pc[t] = "idle" /\ calls[t] < MaxCalls
    /\ calls' = [calls EXCEPT ![t] = @ + 1]
    /\ SetDisabled(FALSE)
    /\ UNCHANGED <<d_popIndex, d_states, threadVars, role, op>>

EndCall(t) ==
    /\ Goto(t, "ret", "idle")
    /\ op' = [op EXCEPT ![t] = "none"]
    /\ UNCHANGED role

commitPushIndex(t) ==
    /\ op[t] = "push" /\ own[t] # None
    /\ EndCall(t)
    /\ StoreFull(t)
    /\ own' = [own EXCEPT ![t] = None]
    /\ UNCHANGED <<d_pushIndex, d_popIndex, loaded, saved, result, calls>>

commitPopIndex(t) ==
    /\ op[t] = "pop" /\ own[t] # None
    /\ EndCall(t)
    /\ StoreEmpty(own[t])
    /\ own' = [own EXCEPT ![t] = None]
    /\ UNCHANGED <<d_pushIndex, d_popIndex, loaded, saved, result, calls>>

\* Nothing was reserved, or the reservation was aborted.
GiveUp(t) ==
    /\ own[t] = None
    /\ EndCall(t)
    /\ UNCHANGED <<sharedVars, loaded, saved, own, result, calls>>

\* The constructor of the element throws: the proctor's loop.
Throw(t) ==
    /\ op[t] = "throw" /\ own[t] # None
    /\ Goto(t, "ret", "clear_load")
    /\ UNCHANGED <<sharedVars, loaded, saved, own, result, callVars>>

ClearCommit(t) ==
    /\ result[t] = "success"
    /\ Goto(t, "clear_ret", "clear_load")
    /\ StoreEmpty(loaded[t])
    /\ UNCHANGED <<d_pushIndex, d_popIndex, loaded, saved, own, result,
                   callVars>>

ClearEnd(t) ==
    /\ result[t] = "end"
    /\ Goto(t, "clear_ret", "abort_reading")
    /\ UNCHANGED <<sharedVars, loaded, saved, own, result, callVars>>

ThreadStep(t) ==
    \/ ManagerStep(t) /\ UNCHANGED callVars
    \/ commitPushIndex(t)
    \/ commitPopIndex(t)
    \/ GiveUp(t)
    \/ Throw(t)
    \/ ClearCommit(t)
    \/ ClearEnd(t)

ClientCall(t) == CallPush(t) \/ CallPop(t) \/ disable(t) \/ enable(t)

Terminating ==
    /\ \A t \in Thread : pc[t] = "idle" /\ calls[t] = MaxCalls
    /\ UNCHANGED vars

Init ==
    /\ InitRing
    /\ role \in Roles
    /\ op = [t \in Thread |-> "none"]
    /\ calls = [t \in Thread |-> 0]

Next == (\E t \in Thread : ThreadStep(t) \/ ClientCall(t)) \/ Terminating

Spec == Init /\ [][Next]_vars

\* The scheduler runs every thread that has a call in progress.
FairSpec == Spec /\ \A t \in Thread : WF_vars(ThreadStep(t))

-----------------------------------------------------------------------------
(* Properties *)

\* A reservation keeps its element in the state and the generation it was
\* given (the assertions of commitPushIndex, commitPopIndex and
\* abortPushIndexReservation), however long the holder is delayed.
ReservationKept ==
    \A t \in Thread :
        /\ \A c \in Held(t) :
              /\ was(c).gen = generation(c)
              /\ was(c).st \in {"WRITING", "READING"}
        /\ (own[t] # None /\ op[t] = "push") => was(own[t]).st = "WRITING"
        /\ (own[t] # None /\ op[t] = "pop")  => was(own[t]).st = "READING"
        /\ pc[t] = "abort_reading" =>
              was(own[t]).st = "WRITING" /\ d_popIndex = own[t]

\* The assertions in the reserve functions: an element one generation behind
\* is in the expected state, and no other element is behind at all.
ReserveAsserts ==
    \A t \in Thread :
        LET c    == loaded[t]
            diff == circularDifference(generation(c), was(c).gen,
                                       d_maxGeneration + 1)
        IN  /\ (pc[t] = "push_swap" /\ PushSeesPrevious(t)) =>
                  diff = 1 /\ was(c).st # "EMPTY"
            /\ (pc[t] = "pop_swap" /\ PopSeesPrevious(t)) =>
                  diff = 1 /\ was(c).st = "READING"
            /\ (pc[t] = "push_swap" /\ ~PushSeesPrevious(t)) => diff <= 0
            /\ (pc[t] = "pop_swap" /\ ~PopSeesPrevious(t)) => diff <= 0
            /\ pc[t] = "clear_swap" =>
                  0 < circularDifference(own[t], c, d_maxCombinedIndex + 1)

\* What a reservation promises: an element is reserved by one thread, keeps the
\* state and generation it was reserved in, and nothing else is behind.
Consistent == TypeOK /\ ExclusiveElement /\ ReservationKept /\ ReserveAsserts

\* No report of a full queue, or of an empty one, is wrong, and no pop takes another
\* element than the oldest.
FullMeansFull   == [][FullIsTrue]_vars
EmptyMeansEmpty == [][EmptyIsTrue]_vars
PopTakesOldest  == [][OldestIsTaken]_vars

\* A testAndSwap that fails or succeeds tells the truth about the whole queue,
\* although it looks at one element: full, empty, or the oldest.
ReportsTrue == FullMeansFull /\ EmptyMeansEmpty /\ PopTakesOldest

\* Every call returns, whatever the other threads do: a thread that spins on
\* an element waits only for a thread that is about to commit it.
CallsReturn == \A t \in Thread : pc[t] # "idle" ~> pc[t] = "idle"

=============================================================================
