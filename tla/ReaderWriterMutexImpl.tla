------------------------ MODULE ReaderWriterMutexImpl ------------------------
(***************************************************************************)
(* bslmt::ReaderWriterMutexImpl: a multi-reader/single-writer lock made of *)
(* an atomic word, a mutex and a semaphore.                                *)
(*                                                                         *)
(* The word d_state packs the number of readers, the number of writers     *)
(* that wait for the mutex and the writer that has it; here it is a record *)
(* of the three fields, and TypeOK says that none of them leaves its bits. *)
(* Each action is one operation on the word, the mutex or the semaphore,   *)
(* with the tests of its result; a thread that has a lock does whatever it *)
(* wants it for and releases it in one of the two ways the class offers.   *)
(***************************************************************************)
EXTENDS Integers, FiniteSets

CONSTANTS
    Thread,
    Roles,    \* which locks a thread asks for: functions from threads
    None      \* no thread

ReadCalls  == {"lockRead", "tryLockRead"}
WriteCalls == {"lockWrite", "tryLockWrite"}

ASSUME LockAssumption ==
    /\ IsFiniteSet(Thread)
    /\ None \notin Thread
    /\ Roles \subseteq [Thread -> SUBSET (ReadCalls \cup WriteCalls)]

VARIABLES
    d_state,
    d_mutex,      \* the thread that owns the mutex, or None
    d_semaphore,  \* the count of the semaphore
    role,         \* role[t]: the calls thread t makes
    pc,           \* pc[t]: where thread t is
    seen,         \* seen[t]: the value of d_state t loaded last
    holds         \* holds[t]: the lock a call of t has got

lockVars == <<d_state, d_mutex, d_semaphore>>
vars     == <<lockVars, role, pc, seen, holds>>

State    == [readers : 0 .. Cardinality(Thread),
             pending : 0 .. Cardinality(Thread),
             writer  : 0 .. 1]
Unlocked == [readers |-> 0, pending |-> 0, writer |-> 0]

Label == {"idle", "read_cas", "try_cas", "read_mutex", "try_read", "read_add",
          "read_unlock", "write_mutex", "write_add", "write_wait",
          "try_load", "try_add", "try_unlock", "held", "unlock_read",
          "unlock_write", "post", "write_unlock"}

TypeOK ==
    /\ d_state \in State
    /\ d_mutex \in Thread \cup {None}
    /\ d_semaphore \in Nat
    /\ role \in Roles
    /\ pc \in [Thread -> Label]
    /\ seen \in [Thread -> State]
    /\ holds \in [Thread -> {"none", "read", "write"}]

Init ==
    /\ d_state = Unlocked
    /\ d_mutex = None
    /\ d_semaphore = 0
    /\ role \in Roles
    /\ pc = [t \in Thread |-> "idle"]
    /\ seen = [t \in Thread |-> Unlocked]
    /\ holds = [t \in Thread |-> "none"]

-----------------------------------------------------------------------------
Goto(t, from, to) == pc[t] = from /\ pc' = [pc EXCEPT ![t] = to]

Got(t, lock) == holds' = [holds EXCEPT ![t] = lock]

LockMutex(t, from, to) ==
    /\ d_mutex = None
    /\ d_mutex' = t
    /\ Goto(t, from, to)
    /\ UNCHANGED <<d_state, d_semaphore, role, seen, holds>>

WritersPresent(state) == state.writer # 0 \/ state.pending # 0

\* The value of d_state decides where a thread that wants to read goes on.
LoadState(t, from, cas, mutex) ==
    /\ Goto(t, from, IF WritersPresent(d_state) THEN mutex ELSE cas)
    /\ seen' = [seen EXCEPT ![t] = IF WritersPresent(d_state) THEN Unlocked
                                   ELSE d_state]
    /\ UNCHANGED <<lockVars, role, holds>>

AddReader == d_state' = [d_state EXCEPT !.readers = @ + 1]

\* Mutant: the reader is counted without a look at what has become of d_state.
CasReader_NotAtomic(t, from) ==
    /\ Goto(t, from, "held")
    /\ AddReader
    /\ Got(t, "read")
    /\ seen' = [seen EXCEPT ![t] = Unlocked]
    /\ UNCHANGED <<d_mutex, d_semaphore, role>>

\* The swap that succeeds: the caller has a read lock.
CasReader(t, from) ==
    /\ d_state = seen[t]
    /\ Goto(t, from, "held")
    /\ AddReader
    /\ Got(t, "read")
    /\ seen' = [seen EXCEPT ![t] = Unlocked]
    /\ UNCHANGED <<d_mutex, d_semaphore, role>>

lockRead(t) ==
    \/ /\ "lockRead" \in role[t]
       /\ LoadState(t, "idle", "read_cas", "read_mutex")
    \/ CasReader(t, "read_cas")
    \/ /\ d_state # seen[t]
       /\ LoadState(t, "read_cas", "read_cas", "read_mutex")

tryLockRead(t) ==
    \/ /\ "tryLockRead" \in role[t]
       /\ LoadState(t, "idle", "try_cas", "try_read")
    \/ CasReader(t, "try_cas")
    \/ /\ d_state # seen[t]
       /\ Goto(t, "try_cas", "try_read")
       /\ seen' = [seen EXCEPT ![t] = Unlocked]
       /\ UNCHANGED <<lockVars, role, holds>>
    \/ LockMutex(t, "try_read", "read_add")
    \/ /\ d_mutex # None
       /\ Goto(t, "try_read", "idle")
       /\ UNCHANGED <<lockVars, role, seen, holds>>

\* A reader that has the mutex.
AddReaderWithMutex(t) ==
    /\ Goto(t, "read_add", "read_unlock")
    /\ AddReader
    /\ UNCHANGED <<d_mutex, d_semaphore, role, seen, holds>>

ReadUnlockMutex(t) ==
    /\ Goto(t, "read_unlock", "held")
    /\ d_mutex' = None
    /\ Got(t, "read")
    /\ UNCHANGED <<d_state, d_semaphore, role, seen>>

-----------------------------------------------------------------------------
AnnounceWriter(t) ==
    /\ "lockWrite" \in role[t]
    /\ Goto(t, "idle", "write_mutex")
    /\ d_state' = [d_state EXCEPT !.pending = @ + 1]
    /\ UNCHANGED <<d_mutex, d_semaphore, role, seen, holds>>

\* Mutant: the writer does not wait for the readers that are in.
AddWriter_NoWait(t) ==
    /\ Goto(t, "write_add", "held")
    /\ Got(t, "write")
    /\ d_state' = [d_state EXCEPT !.writer = @ + 1, !.pending = @ - 1]
    /\ UNCHANGED <<d_mutex, d_semaphore, role, seen>>

AddWriter(t) ==
    /\ d_state' = [d_state EXCEPT !.writer = @ + 1, !.pending = @ - 1]
    /\ IF d_state.readers = 0
       THEN Goto(t, "write_add", "held") /\ Got(t, "write")
       ELSE Goto(t, "write_add", "write_wait") /\ UNCHANGED holds
    /\ UNCHANGED <<d_mutex, d_semaphore, role, seen>>

WaitForReaders(t) ==
    /\ d_semaphore > 0
    /\ Goto(t, "write_wait", "held")
    /\ d_semaphore' = d_semaphore - 1
    /\ Got(t, "write")
    /\ UNCHANGED <<d_state, d_mutex, role, seen>>

lockWrite(t) == AnnounceWriter(t) \/ AddWriter(t) \/ WaitForReaders(t)

\* When the mutex is not free the call returns at once and changes nothing.
tryLockWrite(t) ==
    \/ "tryLockWrite" \in role[t] /\ LockMutex(t, "idle", "try_load")
    \/ /\ Goto(t, "try_load",
               IF d_state.readers = 0 THEN "try_add" ELSE "try_unlock")
       /\ UNCHANGED <<lockVars, role, seen, holds>>
    \/ /\ Goto(t, "try_add", "held")
       /\ d_state' = [d_state EXCEPT !.writer = @ + 1]
       /\ Got(t, "write")
       /\ UNCHANGED <<d_mutex, d_semaphore, role, seen>>

\* The mutex is released, by a writer or by a tryLockWrite that found readers.
UnlockMutex(t) ==
    /\ Goto(t, pc[t], "idle") /\ pc[t] \in {"write_unlock", "try_unlock"}
    /\ d_mutex' = None
    /\ UNCHANGED <<d_state, d_semaphore, role, seen, holds>>

-----------------------------------------------------------------------------
unlock(t) ==
    /\ Goto(t, "held",
            IF d_state.readers # 0 THEN "unlock_read" ELSE "unlock_write")
    /\ UNCHANGED <<lockVars, role, seen, holds>>

\* Called by a holder of a read lock, or by unlock.
UnlockingRead(t)  == pc[t] = "unlock_read" \/ (pc[t] = "held" /\ holds[t] = "read")
UnlockingWrite(t) == pc[t] = "unlock_write" \/ (pc[t] = "held" /\ holds[t] = "write")

\* Mutant: every last reader posts, whether a writer waits for it or not.
unlockRead_AlwaysPost(t) ==
    /\ UnlockingRead(t)
    /\ d_state' = [d_state EXCEPT !.readers = @ - 1]
    /\ Goto(t, pc[t], IF d_state'.readers = 0 THEN "post" ELSE "idle")
    /\ Got(t, "none")
    /\ UNCHANGED <<d_mutex, d_semaphore, role, seen>>

\* Mutant: the last reader does not wake the writer.
unlockRead_NoPost(t) ==
    /\ UnlockingRead(t)
    /\ d_state' = [d_state EXCEPT !.readers = @ - 1]
    /\ Goto(t, pc[t], "idle")
    /\ Got(t, "none")
    /\ UNCHANGED <<d_mutex, d_semaphore, role, seen>>

unlockRead(t) ==
    /\ UnlockingRead(t)
    /\ d_state' = [d_state EXCEPT !.readers = @ - 1]
    /\ Goto(t, pc[t],
            IF d_state'.readers = 0 /\ d_state.writer # 0 THEN "post" ELSE "idle")
    /\ Got(t, "none")
    /\ UNCHANGED <<d_mutex, d_semaphore, role, seen>>

Post(t) ==
    /\ Goto(t, "post", "idle")
    /\ d_semaphore' = d_semaphore + 1
    /\ UNCHANGED <<d_state, d_mutex, role, seen, holds>>

unlockWrite(t) ==
    /\ UnlockingWrite(t)
    /\ d_state' = [d_state EXCEPT !.writer = @ - 1]
    /\ Goto(t, pc[t], "write_unlock")
    /\ Got(t, "none")
    /\ UNCHANGED <<d_mutex, d_semaphore, role, seen>>

-----------------------------------------------------------------------------
\* The blocking acquisitions of the mutex.
AcquireMutex(t) ==
    \/ LockMutex(t, "read_mutex", "read_add")
    \/ LockMutex(t, "write_mutex", "write_add")

ThreadStep(t) ==
    \/ lockRead(t) \/ tryLockRead(t) \/ AddReaderWithMutex(t)
    \/ ReadUnlockMutex(t) \/ lockWrite(t) \/ tryLockWrite(t)
    \/ UnlockMutex(t) \/ unlock(t) \/ unlockRead(t) \/ Post(t)
    \/ unlockWrite(t) \/ AcquireMutex(t)

Next == \E t \in Thread : ThreadStep(t)

Spec == Init /\ [][Next]_vars

\* Threads inside a call go on, holders release what they hold, and the mutex
\* starves no thread (the condition under which the lock is documented to
\* starve nobody).  Nobody is forced to ask for a lock.
FairSpec ==
    /\ Spec
    /\ \A t \in Thread : /\ WF_vars(ThreadStep(t) /\ pc[t] # "idle")
                         /\ SF_vars(AcquireMutex(t))

-----------------------------------------------------------------------------
(* Properties *)

\* A thread that holds the write lock is alone.
MutualExclusion ==
    \A t, u \in Thread : t # u /\ holds[t] = "write" => holds[u] = "none"

\* unlock() takes the branch of the lock its caller holds, and the assertions
\* of unlockRead and unlockWrite hold.
UnlockMatches ==
    \A t \in Thread :
        /\ UnlockingRead(t)  => holds[t] = "read" /\ d_state.readers > 0
        /\ UnlockingWrite(t) => holds[t] = "write" /\ d_state.writer = 1

\* The semaphore is posted once for each writer that waits for readers, by the
\* last of them: no token is left over for a later writer to pass with.
OneToken ==
    d_semaphore + Cardinality({t \in Thread : pc[t] = "post"}) =
        IF d_state.readers = 0
        THEN Cardinality({t \in Thread : pc[t] = "write_wait"})
        ELSE 0

\* The word and the semaphore tell who is in and who waits.
Consistent == TypeOK /\ UnlockMatches /\ OneToken

\* While a writer waits for the readers to leave, none enters.
ReadersOnlyLeave ==
    [][\A t \in Thread :
          pc[t] = "write_wait" /\ pc'[t] = "write_wait"
              => d_state'.readers <= d_state.readers]_vars

\* Given a mutex that starves nobody, writers starve no reader that waits
\* behind them, and readers starve no writer.
NobodyStarves ==
    \A t \in Thread :
        pc[t] \in {"read_mutex", "write_mutex"} ~> pc[t] = "held"

=============================================================================
