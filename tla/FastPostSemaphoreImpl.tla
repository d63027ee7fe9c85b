------------------------ MODULE FastPostSemaphoreImpl ------------------------
(***************************************************************************)
(* bslmt::FastPostSemaphoreImpl: a counting semaphore whose word holds the *)
(* available count, the number of blocked threads and a generation that is *)
(* odd while waiting is disabled.  A thread that waits takes from the      *)
(* count first; one that has to block gives back what it took and counts   *)
(* itself as blocked.  A post signals only for blocked threads.            *)
(*                                                                         *)
(* One action is one operation on the word, or on the mutex and the        *)
(* condition.  A loop around a compare-and-swap is the swap that succeeds. *)
(***************************************************************************)
EXTENDS Integers, Sequences, FiniteSets

CONSTANTS
    Thread,
    None,
    Count,          \* the initial count
    AlwaysSignals,  \* s_postAlwaysSignals, TRUE unless the program resets it
    Generations,    \* how many generations the word can tell apart
    Scripts         \* the calls each thread makes

\* n: how much is posted, or taken at most; a, b: the arguments available and
\* blocked of postWithRedundantSignal.
Call(name, n, a, b) == [op |-> name, n |-> n, a |-> a, b |-> b]
Calls == [op : {"wait", "timedWait", "tryWait", "post", "take", "disable",
                "enable", "postWithRedundantSignal"},
          n : Nat, a : Nat, b : Nat]

ASSUME SemaphoreAssumption ==
    /\ IsFiniteSet(Thread)
    /\ None \notin Thread
    /\ Count \in Nat
    /\ AlwaysSignals \in BOOLEAN
    /\ Generations \in Nat \ {0} /\ Generations % 2 = 0
    /\ Scripts \subseteq [Thread -> Seq(Calls)]

VARIABLES
    d_state,
    d_waitMutex,   \* who holds it between actions
    pc,
    seen,          \* seen[t]: the word as t's call goes on to use it
    woken,         \* threads d_waitCondition was signaled for
    step, script,
    tokens         \* what was posted and has not been taken

vars == <<d_state, d_waitMutex, pc, seen, woken, step, script, tokens>>

Word == [available : Int, gen : 0 .. Generations - 1, blocked : Nat]

TypeOK ==
    /\ d_state \in Word
    /\ d_waitMutex \in Thread \cup {None}
    /\ pc \in [Thread -> {"idle", "refund", "slow", "enter", "decided",
                          "asleep", "take", "leave", "fence", "signal",
                          "broadcast", "spin"}]
    /\ seen \in [Thread -> Word]
    /\ woken \subseteq Thread
    /\ step \in [Thread -> Nat] /\ script \in Scripts
    /\ tokens \in Nat

\* The tests on the word.
hasAvailable(s)           == s.available >= 1
hasBlockedThread(s)       == s.blocked # 0
isDisabled(s)             == s.gen % 2 = 1
willHaveBlockedThread(s)  == s.available < s.blocked
getValueRaw(s)            == s.available - s.blocked

Zero == [available |-> 0, gen |-> 0, blocked |-> 0]

Init ==
    /\ d_state = [Zero EXCEPT !.available = Count]
    /\ d_waitMutex = None
    /\ pc = [t \in Thread |-> "idle"]
    /\ seen = [t \in Thread |-> Zero]
    /\ woken = {}
    /\ step = [t \in Thread |-> 0]
    /\ script \in Scripts
    /\ tokens = Count

-----------------------------------------------------------------------------
NextCall(t) == script[t][step[t] + 1]

Calling(t, o) ==
    /\ pc[t] = "idle"
    /\ step[t] < Len(script[t])
    /\ NextCall(t).op \in o

Goto(t, place) == pc' = [pc EXCEPT ![t] = place] /\ UNCHANGED <<step, script>>

Return(t) ==
    /\ pc' = [pc EXCEPT ![t] = "idle"]
    /\ step' = [step EXCEPT ![t] = @ + 1]
    /\ UNCHANGED script

Add(available, blocked) ==
    d_state' = [d_state EXCEPT !.available = @ + available,
                               !.blocked = @ + blocked]

OnlyWord == UNCHANGED <<d_waitMutex, woken>>

\* Whether an available count must be announced to another blocked thread.
PassesOn(s) == hasAvailable(s) /\ ~isDisabled(s) /\ hasBlockedThread(s)

Waits == {"wait", "timedWait", "tryWait"}

\* wait, timedWait and tryWait take one, and see whether they may keep it.
decrement(t) ==
    /\ Calling(t, Waits)
    /\ Add(-1, 0)
    /\ seen' = [seen EXCEPT ![t] = d_state']
    /\ \/ /\ ~isDisabled(d_state') /\ ~willHaveBlockedThread(d_state')
          /\ tokens' = tokens - 1
          /\ Return(t)
       \/ /\ isDisabled(d_state') \/ willHaveBlockedThread(d_state')
          /\ Goto(t, IF isDisabled(d_state') \/ NextCall(t).op = "tryWait"
                     THEN "refund" ELSE "slow")
          /\ UNCHANGED tokens
    /\ OnlyWord

\* Mutant: a signal is sent only when the count was zero, although another
\* thread may have taken one that it gives back.
Signals_FromZero(s, call) == s.available = call.n /\ PassesOn(s)

\* Whether a post that leads to word s signals.
Signals(s, call) ==
    /\ \/ AlwaysSignals
       \/ s.available = call.n
       \/ /\ call.op = "postWithRedundantSignal"
          /\ call.a <= s.available /\ call.b <= s.blocked
    /\ ~isDisabled(s) /\ hasBlockedThread(s)

post(t) ==
    /\ Calling(t, {"post", "postWithRedundantSignal"})
    /\ Add(NextCall(t).n, 0)
    /\ tokens' = tokens + NextCall(t).n
    /\ IF Signals(d_state', NextCall(t)) THEN Goto(t, "fence") ELSE Return(t)
    /\ UNCHANGED seen /\ OnlyWord

\* A wait that is refused, and a tryWait that would block, posts.
refund(t) ==
    /\ pc[t] = "refund"
    /\ Add(1, 0)
    /\ IF Signals(d_state', Call("post", 1, 0, 0)) THEN Goto(t, "fence")
                                                   ELSE Return(t)
    /\ UNCHANGED <<seen, tokens>> /\ OnlyWord

\* After a yield, the thread looks again whether it has to block.
slowPath(t) ==
    /\ pc[t] = "slow"
    /\ \/ willHaveBlockedThread(d_state) /\ Goto(t, "enter") /\ UNCHANGED tokens
       \/ /\ ~willHaveBlockedThread(d_state)
          /\ tokens' = tokens - 1
          /\ IF PassesOn(d_state) THEN Goto(t, "fence") ELSE Return(t)
    /\ UNCHANGED <<d_state, seen>> /\ OnlyWord

\* With the mutex, the thread goes on as word s says: when there is nothing,
\* and waiting was not disabled since it came, it is going to sleep.
Block(t, s) ==
    /\ Goto(t, CASE hasAvailable(s)         -> "take"
                 [] ~hasAvailable(s) /\ s.gen # seen[t].gen -> "leave"
                 [] ~hasAvailable(s) /\ s.gen = seen[t].gen -> "decided")
    /\ d_waitMutex' = t

enterBlocked(t) ==
    /\ pc[t] = "enter"
    /\ d_waitMutex = None
    /\ Add(1, 1)
    /\ Block(t, d_state')
    /\ UNCHANGED <<seen, woken, tokens>>

\* Waiting on the condition releases the mutex.
sleep(t) ==
    /\ pc[t] = "decided"
    /\ Goto(t, "asleep")
    /\ d_waitMutex' = None
    /\ UNCHANGED <<d_state, seen, woken, tokens>>

awaken(t) ==
    /\ pc[t] = "asleep" /\ t \in woken
    /\ d_waitMutex = None
    /\ woken' = woken \ {t}
    /\ Block(t, d_state)
    /\ UNCHANGED <<d_state, seen, tokens>>

\* A thread that found something takes it, unlocks, and passes on the rest.
takeBlocked(t) ==
    /\ pc[t] = "take"
    /\ Add(-1, -1)
    /\ tokens' = tokens - 1
    /\ d_waitMutex' = None
    /\ IF PassesOn(d_state') THEN Goto(t, "signal") ELSE Return(t)
    /\ UNCHANGED <<seen, woken>>

leave(t) ==
    /\ pc[t] = "leave"
    /\ Add(0, -1)
    /\ d_waitMutex' = None
    /\ Return(t)
    /\ UNCHANGED <<seen, woken, tokens>>

\* Mutant: the thread that timed out takes its turn with it.
timeOut_WithTurn(t) ==
    /\ pc[t] = "asleep" /\ t \notin woken
    /\ NextCall(t).op = "timedWait"
    /\ d_waitMutex = None
    /\ Add(-1, -1)
    /\ Return(t)
    /\ UNCHANGED <<d_waitMutex, seen, woken, tokens>>

\* A thread that was not signaled times out; what it took it gave back when
\* it blocked.
timeOut(t) ==
    /\ pc[t] = "asleep" /\ t \notin woken
    /\ NextCall(t).op = "timedWait"
    /\ d_waitMutex = None
    /\ Add(0, -1)
    /\ Return(t)
    /\ UNCHANGED <<d_waitMutex, seen, woken, tokens>>

\* A wait on a condition variable may return for no reason.
wakeSpuriously(t) ==
    /\ pc[t] = "asleep"
    /\ woken' = woken \cup {t}
    /\ UNCHANGED <<d_state, d_waitMutex, pc, seen, step, script, tokens>>

\* Mutant: the mutex is not locked and unlocked before the signal.
fence_None(t) ==
    /\ pc[t] = "fence"
    /\ Goto(t, IF NextCall(t).op = "disable" THEN "broadcast" ELSE "signal")
    /\ UNCHANGED <<d_state, d_waitMutex, seen, woken, tokens>>

\* The mutex is locked and unlocked: a thread that decided to sleep sleeps.
fence(t) ==
    /\ pc[t] = "fence"
    /\ d_waitMutex = None
    /\ Goto(t, IF NextCall(t).op = "disable" THEN "broadcast" ELSE "signal")
    /\ UNCHANGED <<d_state, d_waitMutex, seen, woken, tokens>>

Sleepers == {t \in Thread : pc[t] = "asleep" /\ t \notin woken}

signal(t) ==
    /\ pc[t] = "signal"
    /\ \/ \E u \in Sleepers : woken' = woken \cup {u}
       \/ Sleepers = {} /\ UNCHANGED woken
    /\ Return(t)
    /\ UNCHANGED <<d_state, d_waitMutex, seen, tokens>>

NextGeneration == d_state' = [d_state EXCEPT !.gen = (@ + 1) % Generations]

disable(t) ==
    /\ Calling(t, {"disable"})
    /\ \/ ~isDisabled(d_state) /\ NextGeneration /\ Goto(t, "fence")
       \/ isDisabled(d_state) /\ UNCHANGED d_state /\ Goto(t, "spin")
    /\ seen' = [seen EXCEPT ![t] = d_state']
    /\ UNCHANGED tokens /\ OnlyWord

broadcast(t) ==
    /\ pc[t] = "broadcast"
    /\ woken' = woken \cup Sleepers
    /\ Goto(t, "spin")
    /\ UNCHANGED <<d_state, d_waitMutex, seen, tokens>>

\* disable returns when the threads that will have to leave have left.
spin(t) ==
    /\ pc[t] = "spin"
    /\ IF isDisabled(seen[t]) /\ willHaveBlockedThread(seen[t])
       THEN /\ seen' = [seen EXCEPT ![t] = d_state]
            /\ UNCHANGED <<pc, step, script>>
       ELSE Return(t) /\ UNCHANGED seen
    /\ UNCHANGED <<d_state, tokens>> /\ OnlyWord

\* enable waits for them too.
enable(t) ==
    /\ Calling(t, {"enable"})
    /\ \/ ~isDisabled(d_state) /\ UNCHANGED d_state
       \/ isDisabled(d_state) /\ ~willHaveBlockedThread(d_state) /\ NextGeneration
    /\ Return(t)
    /\ UNCHANGED <<seen, tokens>> /\ OnlyWord

\* take and takeAll leave what blocked threads are entitled to.
take(t) ==
    LET count == getValueRaw(d_state)
        n     == IF NextCall(t).n < count THEN NextCall(t).n ELSE count
    IN  /\ Calling(t, {"take"})
        /\ \/ count <= 0 /\ UNCHANGED <<d_state, tokens>>
           \/ count > 0 /\ Add(-n, 0) /\ tokens' = tokens - n
        /\ Return(t)
        /\ UNCHANGED seen /\ OnlyWord

Own(t) ==
    \/ decrement(t) \/ post(t) \/ refund(t) \/ slowPath(t) \/ enterBlocked(t)
    \/ sleep(t) \/ awaken(t) \/ takeBlocked(t) \/ leave(t) \/ fence(t) \/ signal(t)
    \/ disable(t) \/ broadcast(t) \/ spin(t) \/ enable(t) \/ take(t)

Next == \E t \in Thread : Own(t) \/ timeOut(t) \/ wakeSpuriously(t)

Spec == Init /\ [][Next]_vars

\* No thread is kept from running, nor from the mutex, forever; a timed wait
\* ends.
FairSpec ==
    /\ Spec
    /\ \A t \in Thread : SF_vars(Own(t)) /\ SF_vars(timeOut(t))

-----------------------------------------------------------------------------
(* Properties *)

Claims  == {t \in Thread : pc[t] \in {"refund", "slow", "enter"}}
Blocked == {t \in Thread : pc[t] \in {"decided", "asleep", "take", "leave"}}

\* The word is what the threads make of it: the available count is what was
\* posted and not taken less what waiting threads hold for the moment, and
\* the blocked count the threads that are blocked.  No wait succeeds without
\* something that was posted, whatever the threads read before.
WordExact ==
    /\ d_state.available = tokens - Cardinality(Claims)
    /\ d_state.blocked = Cardinality(Blocked)
    /\ \A t \in Thread : pc[t] = "take" => tokens > 0

\* The word, in its range, tells what the threads have and wait for.
Consistent == TypeOK /\ WordExact

\* When a thread sleeps although something is available, another one is
\* about to take, to signal or to broadcast, or was woken; when waiting was
\* disabled since it came, the thread that disabled it is about to broadcast.
NoLostWakeup ==
    \A t \in Sleepers :
        /\ (hasAvailable(d_state) /\ d_state.gen = seen[t].gen) =>
              \E u \in Thread :
                 \/ pc[u] \in {"slow", "enter", "fence", "signal", "broadcast",
                               "take"}
                 \/ u \in woken
        /\ d_state.gen # seen[t].gen =>
              \E u \in Thread : /\ pc[u] \in {"fence", "broadcast"}
                               /\ NextCall(u).op = "disable"

\* Every call returns, except a wait that sleeps while nothing is available
\* and waiting is not disabled.
CallsReturn ==
    \A t \in Thread :
        []<>(\/ pc[t] = "idle"
             \/ /\ pc[t] = "asleep" /\ NextCall(t).op = "wait"
                /\ ~hasAvailable(d_state) /\ d_state.gen = seen[t].gen)

=============================================================================
