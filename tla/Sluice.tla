------------------------------- MODULE Sluice --------------------------------
(***************************************************************************)
(* bslmt::Sluice: threads enter, and wait until they are signaled or their *)
(* time is up.  Who enters joins the pending generation; the first signal  *)
(* ends it.  signalOne goes on with the signaled generation until all of   *)
(* its threads were signaled.  A generation has a semaphore of its own,    *)
(* which is posted after the mutex was unlocked, and a descriptor that the *)
(* last thread to leave returns to a pool.                                 *)
(*                                                                         *)
(* What runs under d_mutex is one action.  wait is a timedWait whose time  *)
(* is never up.                                                            *)
(***************************************************************************)
EXTENDS Integers, Sequences, FiniteSets

CONSTANTS
    Waiter,        \* threads that enter and wait
    Signaler,      \* threads that signal
    Generation,    \* the descriptors there is memory for
    None

ASSUME SluiceAssumption ==
    /\ IsFiniteSet(Waiter) /\ IsFiniteSet(Generation)
    /\ None \notin Generation

VARIABLES
    d_signaledGeneration, d_pendingGeneration,
    d_descriptorPool,     \* a stack
    allocated,            \* the descriptors that were created
    d_numThreads, d_numSignaled, d_sema,
    pc,                   \* where each waiter is
    token,                \* what its enter returned
    owed,                 \* what each signaler has yet to post, in order
    ahead                 \* watching: the generations there were at a start

generations == <<d_signaledGeneration, d_pendingGeneration, d_descriptorPool,
                 allocated, ahead>>
numbers     == <<d_numThreads, d_numSignaled>>
vars        == <<generations, numbers, d_sema, pc, token, owed>>

Post == [gen : Generation, num : Nat]

TypeOK ==
    /\ d_signaledGeneration \in Generation \cup {None}
    /\ d_pendingGeneration \in Generation \cup {None}
    /\ d_descriptorPool \in Seq(Generation)
    /\ allocated \subseteq Generation
    /\ d_numThreads \in [Generation -> Nat]
    /\ d_numSignaled \in [Generation -> Nat]
    /\ d_sema \in [Generation -> Nat]
    /\ pc \in [Waiter -> {"out", "entered", "woken", "expired"}]
    /\ token \in [Waiter -> Generation \cup {None}]
    /\ owed \in [Signaler -> Seq(Post)]
    /\ ahead \in [Generation -> SUBSET Generation]

Init ==
    /\ d_signaledGeneration = None /\ d_pendingGeneration = None
    /\ d_descriptorPool = <<>>
    /\ allocated = {}
    /\ d_numThreads = [g \in Generation |-> 0]
    /\ d_numSignaled = [g \in Generation |-> 0]
    /\ d_sema = [g \in Generation |-> 0]
    /\ pc = [t \in Waiter |-> "out"]
    /\ token = [t \in Waiter |-> None]
    /\ owed = [s \in Signaler |-> <<>>]
    /\ ahead = [g \in Generation |-> {}]

-----------------------------------------------------------------------------
(* Entering *)

\* The waiter joins generation g.
Join(t, g) ==
    /\ d_numThreads' = [d_numThreads EXCEPT ![g] = @ + 1]
    /\ token' = [token EXCEPT ![t] = g]
    /\ pc' = [pc EXCEPT ![t] = "entered"]
    /\ UNCHANGED <<d_signaledGeneration, d_numSignaled, d_sema, owed>>

\* Generation g starts.
Start(g) ==
    /\ d_pendingGeneration' = g
    /\ ahead' = [ahead EXCEPT ![g] = {h \in Generation : d_numThreads[h] > 0}]

\* Mutant: a thread may still join a generation that is being signaled.
enter_Signaled(t) ==
    LET g == IF d_signaledGeneration # None THEN d_signaledGeneration
                                            ELSE d_pendingGeneration
    IN  /\ pc[t] = "out"
        /\ g # None
        /\ Join(t, g)
        /\ UNCHANGED <<d_pendingGeneration, d_descriptorPool, allocated, ahead>>

enter(t) ==
    /\ pc[t] = "out"
    /\ d_pendingGeneration # None
    /\ Join(t, d_pendingGeneration)
    /\ UNCHANGED <<d_pendingGeneration, d_descriptorPool, allocated, ahead>>

enterPooled(t) ==
    /\ pc[t] = "out"
    /\ d_pendingGeneration = None /\ d_descriptorPool # <<>>
    /\ Start(Head(d_descriptorPool)) /\ Join(t, Head(d_descriptorPool))
    /\ d_descriptorPool' = Tail(d_descriptorPool)
    /\ UNCHANGED allocated

enterNew(t) ==
    /\ pc[t] = "out"
    /\ d_pendingGeneration = None /\ d_descriptorPool = <<>>
    /\ Generation \ allocated # {}
    /\ LET g == CHOOSE g \in Generation \ allocated : TRUE
       IN  /\ Start(g) /\ Join(t, g)
           /\ allocated' = allocated \cup {g}
    /\ UNCHANGED d_descriptorPool

-----------------------------------------------------------------------------
(* Waiting *)

semaWait(t) ==
    /\ pc[t] = "entered"
    /\ d_sema[token[t]] > 0
    /\ d_sema' = [d_sema EXCEPT ![token[t]] = @ - 1]
    /\ pc' = [pc EXCEPT ![t] = "woken"]
    /\ UNCHANGED <<generations, numbers, token, owed>>

timeOut(t) ==
    /\ pc[t] = "entered"
    /\ d_sema[token[t]] = 0
    /\ pc' = [pc EXCEPT ![t] = "expired"]
    /\ UNCHANGED <<generations, numbers, d_sema, token, owed>>

\* The last thread to leave a generation returns its descriptor.
Leave(t) ==
    LET g == token[t]
    IN  /\ d_numThreads' = [d_numThreads EXCEPT ![g] = @ - 1]
        /\ pc' = [pc EXCEPT ![t] = "out"]
        /\ token' = [token EXCEPT ![t] = None]
        /\ d_descriptorPool' = IF d_numThreads[g] = 1
                               THEN <<g>> \o d_descriptorPool
                               ELSE d_descriptorPool
        /\ ahead' = IF d_numThreads[g] = 1
                    THEN [h \in Generation |-> ahead[h] \ {g}] ELSE ahead
        /\ UNCHANGED <<d_sema, owed, allocated>>

\* The thread finds its generation signaled, whether it was woken for that or
\* its time was up.
leaveSignaled(t) ==
    /\ pc[t] \in {"woken", "expired"}
    /\ d_numSignaled[token[t]] > 0
    /\ d_numSignaled' = [d_numSignaled EXCEPT ![token[t]] = @ - 1]
    /\ Leave(t)
    /\ UNCHANGED <<d_signaledGeneration, d_pendingGeneration>>

\* Woken by a post whose signal another thread took.
waitAgain(t) ==
    /\ pc[t] = "woken"
    /\ d_numSignaled[token[t]] = 0
    /\ pc' = [pc EXCEPT ![t] = "entered"]
    /\ UNCHANGED <<generations, numbers, d_sema, token, owed>>

\* Mutant: the descriptor goes to the pool and stays the signaled one.
leaveExpired_StillSignaled(t) ==
    /\ pc[t] = "expired"
    /\ d_numSignaled[token[t]] = 0
    /\ Leave(t)
    /\ d_pendingGeneration' = IF d_numThreads[token[t]] = 1
                                  /\ d_pendingGeneration = token[t]
                               THEN None ELSE d_pendingGeneration
    /\ UNCHANGED <<d_signaledGeneration, d_numSignaled>>

leaveExpired(t) ==
    LET Reset(g) == IF d_numThreads[token[t]] = 1 /\ g = token[t] THEN None ELSE g
    IN  /\ pc[t] = "expired"
        /\ d_numSignaled[token[t]] = 0
        /\ Leave(t)
        /\ d_signaledGeneration' = Reset(d_signaledGeneration)
        /\ d_pendingGeneration' = Reset(d_pendingGeneration)
        /\ UNCHANGED d_numSignaled

-----------------------------------------------------------------------------
(* Signaling *)

\* Mutant: only the pending generation is posted.
signalAll_PostsPending(s) ==
    LET p    == d_pendingGeneration
        gens == {d_signaledGeneration, p} \ {None}
    IN  /\ owed[s] = <<>>
        /\ d_numSignaled' = [g \in Generation |-> IF g \in gens THEN d_numThreads[g]
                                                  ELSE d_numSignaled[g]]
        /\ owed' = [owed EXCEPT ![s] = IF p = None THEN <<>>
                       ELSE <<[gen |-> p, num |-> d_numThreads[p]]>>]
        /\ d_signaledGeneration' = None /\ d_pendingGeneration' = None
        /\ UNCHANGED <<d_numThreads, d_sema, d_descriptorPool, allocated, ahead,
                       pc, token>>

\* All threads of both generations that have not been signaled are.
signalAll(s) ==
    LET gens     == {d_signaledGeneration, d_pendingGeneration} \ {None}
        Owes(g)  == IF g = None THEN <<>>
                    ELSE <<[gen |-> g, num |-> d_numThreads[g] - d_numSignaled[g]]>>
    IN  /\ owed[s] = <<>>
        /\ d_numSignaled' = [g \in Generation |-> IF g \in gens THEN d_numThreads[g]
                                                  ELSE d_numSignaled[g]]
        /\ owed' = [owed EXCEPT ![s] = Owes(d_signaledGeneration)
                                          \o Owes(d_pendingGeneration)]
        /\ d_signaledGeneration' = None /\ d_pendingGeneration' = None
        /\ UNCHANGED <<d_numThreads, d_sema, d_descriptorPool, allocated, ahead,
                       pc, token>>

\* One more thread of generation g is signaled; pending is what is pending then.
SignalIn(s, g, pending) ==
    /\ g # None
    /\ owed[s] = <<>>
    /\ d_numSignaled' = [d_numSignaled EXCEPT ![g] = @ + 1]
    /\ d_signaledGeneration' = IF d_numThreads[g] = d_numSignaled[g] + 1
                               THEN None ELSE g
    /\ d_pendingGeneration' = pending
    /\ owed' = [owed EXCEPT ![s] = <<[gen |-> g, num |-> 1]>>]
    /\ UNCHANGED <<d_numThreads, d_sema, d_descriptorPool, allocated, ahead, pc,
                   token>>

\* Mutant: the pending generation comes first.
signalOne_PendingFirst(s) ==
    IF d_pendingGeneration # None
    THEN SignalIn(s, d_pendingGeneration, None)
    ELSE SignalIn(s, d_signaledGeneration, None)

\* The generation that is signaled already comes first.
signalOne(s) ==
    IF d_signaledGeneration # None
    THEN SignalIn(s, d_signaledGeneration, d_pendingGeneration)
    ELSE SignalIn(s, d_pendingGeneration, None)

post(s) ==
    LET p == Head(owed[s])
    IN  /\ owed[s] # <<>>
        /\ d_sema' = [d_sema EXCEPT ![p.gen] = @ + p.num]
        /\ owed' = [owed EXCEPT ![s] = Tail(@)]
        /\ UNCHANGED <<generations, numbers, pc, token>>

Wait(t) == semaWait(t) \/ leaveSignaled(t) \/ waitAgain(t) \/ leaveExpired(t)

Next ==
    \/ \E t \in Waiter : \/ enter(t) \/ enterPooled(t) \/ enterNew(t)
                         \/ Wait(t) \/ timeOut(t)
    \/ \E s \in Signaler : signalAll(s) \/ signalOne(s) \/ post(s)

Spec == Init /\ [][Next]_vars

\* A thread that waits runs on when it can, a signal is posted.  Nothing says
\* that a thread's time is ever up, nor that anybody signals.
FairSpec ==
    /\ Spec
    /\ \A t \in Waiter : WF_vars(Wait(t))
    /\ \A s \in Signaler : WF_vars(post(s))

-----------------------------------------------------------------------------
(* Properties *)

Members(g) == {t \in Waiter : token[t] = g}
Pooled     == {d_descriptorPool[i] : i \in DOMAIN d_descriptorPool}

\* The code asserts some of this where it passes by: a descriptor counts its
\* threads, no more of them are signaled than there are; a pending generation
\* has no signal and a signaled one not all; and a descriptor is pooled, once,
\* exactly while nobody is in its generation.
DescriptorsExact ==
    /\ \A g \in Generation :
          /\ d_numThreads[g] = Cardinality(Members(g))
          /\ d_numSignaled[g] <= d_numThreads[g]
          /\ g \in Pooled <=> g \in allocated /\ d_numThreads[g] = 0
    /\ \A i, j \in DOMAIN d_descriptorPool :
          d_descriptorPool[i] = d_descriptorPool[j] => i = j
    /\ d_pendingGeneration # None =>
          /\ d_numThreads[d_pendingGeneration] > 0
          /\ d_numSignaled[d_pendingGeneration] = 0
          /\ d_pendingGeneration # d_signaledGeneration
    /\ d_signaledGeneration # None =>
          d_numSignaled[d_signaledGeneration] < d_numThreads[d_signaledGeneration]

\* The descriptors, and the types of all that they count.
Consistent == TypeOK /\ DescriptorsExact

\* No thread is signaled while one of a generation that was there when its own
\* started is not.
NoOvertaking ==
    \A g \in Generation : \A h \in ahead[g] :
        d_numSignaled[g] > 0 => d_numSignaled[h] = d_numThreads[h]

\* Whoever is in a generation that is signaled as a whole leaves, though
\* threads whose time was up take signals and leave the posts behind, and
\* the descriptor is used again with them.
SignaledLeave ==
    \A t \in Waiter :
        (\E g \in Generation : /\ token[t] = g
                               /\ d_numSignaled[g] = d_numThreads[g])
            ~> pc[t] = "out"

\* When there is always another signalOne, nobody stays however many threads
\* enter after him.
NoStarvation ==
    \A s \in Signaler : []<><<signalOne(s)>>_vars =>
        \A t \in Waiter : []<>(pc[t] = "out")

=============================================================================
