----------------------- MODULE ReaderWriterMutexProofs -----------------------
(***************************************************************************)
(* Proof that bslmt::ReaderWriterMutexImpl excludes writers from each      *)
(* other and from readers, for any number of threads, when no thread calls *)
(* tryLockWrite beside threads that read.  (With such a thread it does     *)
(* not, as the run of RWTryWrite.cfg shows.)                               *)
(***************************************************************************)
EXTENDS ReaderWriterMutexImpl, FiniteSetTheorems, TLAPS

\* The condition: where a thread may call tryLockWrite, nobody reads.
TryWritersAlone ==
    \A r \in Roles : \A t, u \in Thread :
        "tryLockWrite" \in r[t] => r[u] \cap ReadCalls = {}

-----------------------------------------------------------------------------
(* The inductive invariant *)

Counted(t)   == pc[t] = "read_unlock" \/ holds[t] = "read"
Reading      == {t \in Thread : Counted(t)}
Announced    == {t \in Thread : pc[t] \in {"write_mutex", "write_add"}}
Owns(t)      == \/ pc[t] \in {"read_add", "read_unlock", "write_add",
                              "write_wait", "try_load", "try_add",
                              "try_unlock", "write_unlock"}
                \/ holds[t] = "write"
Writing(t)   == pc[t] = "write_wait" \/ holds[t] = "write"

\* The fields of d_state count the threads they should count.
CountsExact ==
    /\ d_state.readers = Cardinality(Reading)
    /\ d_state.pending = Cardinality(Announced)

\* A lock is held from the return of the call to the operation that frees it.
HoldLabels ==
    \A t \in Thread :
        /\ holds[t] = "none" <=> pc[t] \notin {"held", "unlock_read", "unlock_write"}
        /\ pc[t] = "unlock_read" => holds[t] = "read"
        /\ pc[t] = "unlock_write" => holds[t] = "write"

OwnerExact == \A t \in Thread : Owns(t) <=> d_mutex = t

WriterBit == d_state.writer = 1 <=> \E t \in Thread : Writing(t)

Exclusion == \A t, u \in Thread : holds[t] = "write" => ~Counted(u)

\* There is a token, in the semaphore or about to be posted, exactly while a
\* writer waits and the readers have left.
Token ==
    /\ d_semaphore \in {0, 1}
    /\ \A t, u \in Thread : pc[t] = "post" /\ pc[u] = "post" => t = u
    /\ \A t \in Thread : pc[t] = "post" => d_semaphore = 0
    /\ (d_semaphore = 1 \/ \E t \in Thread : pc[t] = "post")
          <=> /\ \E t \in Thread : pc[t] = "write_wait"
              /\ \A t \in Thread : ~Counted(t)

\* A word that a reader may swap shows no writer.
SeenTame ==
    \A t \in Thread : pc[t] \in {"read_cas", "try_cas"} => ~WritersPresent(seen[t])

\* Only threads that call tryLockWrite are in it, and only readers read.
RolesKept ==
    \A t \in Thread :
        /\ pc[t] \in {"try_load", "try_add", "try_unlock"}
              => "tryLockWrite" \in role[t]
        /\ (\/ Counted(t)
            \/ pc[t] \in {"read_cas", "try_cas", "read_mutex", "try_read",
                          "read_add"})
              => role[t] \cap ReadCalls # {}

Shape == /\ HoldLabels /\ OwnerExact /\ WriterBit /\ Exclusion
         /\ Token /\ SeenTame /\ RolesKept

LockInv == TypeOK /\ CountsExact /\ Shape

-----------------------------------------------------------------------------
(* Counting *)

LEMMA SubsetFinite ==
    ASSUME NEW S \in SUBSET Thread
    PROVE  IsFiniteSet(S) /\ Cardinality(S) \in 0 .. Cardinality(Thread)
<1>1. IsFiniteSet(Thread)
  BY LockAssumption DEF LockAssumption
<1>2. /\ IsFiniteSet(S)
      /\ Cardinality(S) <= Cardinality(Thread)
  BY <1>1, FS_Subset
<1> QED BY <1>1, <1>2, FS_CardinalityType

LEMMA SubsetGrows ==
    ASSUME NEW S \in SUBSET Thread, NEW t \in Thread, t \notin S
    PROVE  Cardinality(S \cup {t}) = Cardinality(S) + 1
BY SubsetFinite, FS_AddElement

LEMMA SubsetShrinks ==
    ASSUME NEW S \in SUBSET Thread, NEW t \in S
    PROVE  Cardinality(S \ {t}) = Cardinality(S) - 1
BY SubsetFinite, FS_RemoveElement

\* The word shows no reader exactly when there is none.
LEMMA NoReaders ==
    ASSUME CountsExact
    PROVE  d_state.readers = 0 <=> \A t \in Thread : ~Counted(t)
<1>1. IsFiniteSet(Reading)
  BY SubsetFinite DEF Reading
<1>2. Cardinality(Reading) = 0 <=> Reading = {}
  BY <1>1, FS_EmptySet
<1> QED BY <1>2 DEF CountsExact, Reading

LEMMA UnlockedTyped == Unlocked \in State
<1>1. {} \in SUBSET Thread /\ Cardinality({}) = 0
  BY FS_EmptySet
<1>2. 0 \in 0 .. Cardinality(Thread)
  BY <1>1, SubsetFinite
<1> QED BY <1>2 DEF Unlocked, State

\* After a step: the same, and the fields of the word are in range.
LEMMA NoReadersNext ==
    ASSUME CountsExact'
    PROVE  d_state'.readers = 0 <=> \A t \in Thread : ~Counted(t)'
<1>1. IsFiniteSet(Reading')
  BY SubsetFinite DEF Reading
<1>2. Cardinality(Reading') = 0 <=> Reading' = {}
  BY <1>1, FS_EmptySet
<1> QED BY <1>2 DEF CountsExact, Reading

LEMMA StateTyped ==
    ASSUME CountsExact',
           d_state' \in [readers : Int, pending : Int, writer : 0 .. 1]
    PROVE  d_state' \in State
<1>1. Reading' \in SUBSET Thread /\ Announced' \in SUBSET Thread
  BY DEF Reading, Announced
<1>2. /\ d_state'.readers \in 0 .. Cardinality(Thread)
      /\ d_state'.pending \in 0 .. Cardinality(Thread)
  BY <1>1, SubsetFinite DEF CountsExact
<1> QED BY <1>2 DEF State

\* A pending writer becomes the writer.
LEMMA PendingToWriter ==
    ASSUME NEW word \in [readers : Int, pending : Int, writer : Int], NEW next,
           next = [word EXCEPT !.writer = @ + 1, !.pending = @ - 1]
    PROVE  next = [readers |-> word.readers,
                   pending |-> word.pending - 1,
                   writer  |-> word.writer + 1]
OBVIOUS

\* Where a thread is inside tryLockWrite, no thread reads or is about to.
LEMMA TryAlone ==
    ASSUME TypeOK, RolesKept, TryWritersAlone, NEW t \in Thread,
           pc[t] \in {"try_load", "try_add", "try_unlock"}
    PROVE  \A u \in Thread :
              /\ ~Counted(u)
              /\ pc[u] \notin {"read_cas", "try_cas", "read_mutex",
                               "try_read", "read_add"}
BY DEF RolesKept, TryWritersAlone, TypeOK

-----------------------------------------------------------------------------
(* The steps: each keeps the invariant *)

LEMMA InitInv == Init => LockInv
<1> SUFFICES ASSUME Init PROVE LockInv
  OBVIOUS
<1> USE LockAssumption DEF Init
<1>1. Reading = {} /\ Announced = {}
  BY DEF Reading, Announced, Counted
<1>2. CountsExact
  BY <1>1, FS_EmptySet DEF CountsExact, Unlocked
<1>4. TypeOK
  BY UnlockedTyped DEF TypeOK, Label
<1>5. Shape
  BY DEF Shape, HoldLabels, OwnerExact, Owns, WriterBit, Writing, Exclusion,
         Counted, Token, SeenTame, RolesKept, LockAssumption, Unlocked
<1> QED BY <1>2, <1>4, <1>5 DEF LockInv

LEMMA LockMutexInv ==
    ASSUME LockInv, NEW t \in Thread, NEW from, NEW to,
           <<from, to>> \in {<<"read_mutex", "read_add">>,
                             <<"try_read", "read_add">>,
                             <<"write_mutex", "write_add">>},
           LockMutex(t, from, to)
    PROVE  LockInv'
<1> USE DEF LockInv, LockMutex, Goto
<1>1. Reading' = Reading /\ Announced' = Announced
  BY DEF Reading, Announced, Counted, TypeOK
<1>2. CountsExact'
  BY <1>1 DEF CountsExact
<1>3. TypeOK'
  BY DEF TypeOK, Label
<1>4. Shape'
  BY LockAssumption DEF Shape, HoldLabels, OwnerExact, Owns, WriterBit, Writing, Exclusion,
      Counted, Token, SeenTame, RolesKept, LockAssumption, TypeOK
<1> QED BY <1>2, <1>3, <1>4

LEMMA LoadStateInv ==
    ASSUME LockInv, TryWritersAlone, NEW t \in Thread, NEW from, NEW cas, NEW mutex,
           <<from, cas, mutex>> \in {<<"idle", "read_cas", "read_mutex">>,
                                    <<"read_cas", "read_cas", "read_mutex">>,
                                    <<"idle", "try_cas", "try_read">>},
           role[t] \cap ReadCalls # {},
           LoadState(t, from, cas, mutex)
    PROVE  LockInv'
<1> USE DEF LockInv, Goto, Got, LoadState, lockVars
<1>1. CountsExact'
  <2>1. Reading' = Reading /\ Announced' = Announced
    BY DEF Reading, Announced, Counted, TypeOK
  <2> QED BY <2>1 DEF CountsExact
<1>2. TypeOK'
  BY UnlockedTyped DEF TypeOK, Label
<1>3. Shape'
  BY <1>2, LockAssumption, NoReaders DEF
     Shape, HoldLabels, OwnerExact, Owns, WriterBit, Writing, Exclusion,
     Counted, Token, SeenTame, RolesKept, LockAssumption, TypeOK,
     State, WritersPresent, AddReader, LoadState, Unlocked
<1> QED BY <1>1, <1>2, <1>3

LEMMA CasReaderInv ==
    ASSUME LockInv, TryWritersAlone, NEW t \in Thread, NEW from \in {"read_cas", "try_cas"},
           CasReader(t, from)
    PROVE  LockInv'
<1> USE DEF LockInv, Goto, Got, CasReader
<1>1. CountsExact'
  <2>1. t \notin Reading /\ Reading' = Reading \cup {t} /\ Announced' = Announced
    BY DEF Shape, HoldLabels, Reading, Announced, Counted, TypeOK
  <2>2. Cardinality(Reading') = Cardinality(Reading) + 1
    BY <2>1, SubsetGrows DEF Reading, Announced
  <2> QED BY <2>1, <2>2 DEF CountsExact, TypeOK, State, AddReader
<1>2. TypeOK'
  <2>1. d_state' \in State
    BY <1>1, StateTyped DEF TypeOK, State, AddReader
  <2> QED BY <2>1, UnlockedTyped DEF TypeOK, Label
<1>3. Shape'
  BY <1>2, LockAssumption, NoReaders DEF
     Shape, HoldLabels, OwnerExact, Owns, WriterBit, Writing, Exclusion,
     Counted, Token, SeenTame, RolesKept, LockAssumption, TypeOK,
     State, WritersPresent, AddReader
<1> QED BY <1>1, <1>2, <1>3

LEMMA AddReaderWithMutexInv ==
    ASSUME LockInv, TryWritersAlone, NEW t \in Thread, AddReaderWithMutex(t)
    PROVE  LockInv'
<1> USE DEF LockInv, Goto, Got, AddReaderWithMutex
<1>1. CountsExact'
  <2>1. t \notin Reading /\ Reading' = Reading \cup {t} /\ Announced' = Announced
    BY DEF Shape, HoldLabels, Reading, Announced, Counted, TypeOK
  <2>2. Cardinality(Reading') = Cardinality(Reading) + 1
    BY <2>1, SubsetGrows DEF Reading, Announced
  <2> QED BY <2>1, <2>2 DEF CountsExact, TypeOK, State, AddReader
<1>2. TypeOK'
  <2>1. d_state' \in State
    BY <1>1, StateTyped DEF TypeOK, State, AddReader
  <2> QED BY <2>1 DEF TypeOK, Label, State
<1>3. Shape'
  BY <1>2, LockAssumption, NoReaders DEF
     Shape, HoldLabels, OwnerExact, Owns, WriterBit, Writing, Exclusion,
     Counted, Token, SeenTame, RolesKept, LockAssumption, TypeOK,
     State, WritersPresent, AddReader
<1> QED BY <1>1, <1>2, <1>3

LEMMA ReadUnlockMutexInv ==
    ASSUME LockInv, TryWritersAlone, NEW t \in Thread, ReadUnlockMutex(t)
    PROVE  LockInv'
<1> USE DEF LockInv, Goto, Got, ReadUnlockMutex
<1>1. CountsExact'
  <2>1. Reading' = Reading /\ Announced' = Announced
    BY DEF Reading, Announced, Counted, TypeOK
  <2> QED BY <2>1 DEF CountsExact
<1>2. TypeOK'
  BY DEF TypeOK, Label
<1>3. Shape'
  BY <1>2, LockAssumption, NoReaders DEF
     Shape, HoldLabels, OwnerExact, Owns, WriterBit, Writing, Exclusion,
     Counted, Token, SeenTame, RolesKept, LockAssumption, TypeOK,
     State, WritersPresent, AddReader
<1> QED BY <1>1, <1>2, <1>3

LEMMA AnnounceWriterInv ==
    ASSUME LockInv, TryWritersAlone, NEW t \in Thread, AnnounceWriter(t)
    PROVE  LockInv'
<1> USE DEF LockInv, Goto, Got, AnnounceWriter
<1>1. CountsExact'
  <2>1. t \notin Announced /\ Announced' = Announced \cup {t} /\ Reading' = Reading
    BY DEF Shape, HoldLabels, Reading, Announced, Counted, TypeOK
  <2>2. Cardinality(Announced') = Cardinality(Announced) + 1
    BY <2>1, SubsetGrows DEF Reading, Announced
  <2> QED BY <2>1, <2>2 DEF CountsExact, TypeOK, State, AddReader
<1>2. TypeOK'
  <2>1. d_state' \in State
    BY <1>1, StateTyped DEF TypeOK, State, AddReader
  <2> QED BY <2>1 DEF TypeOK, Label, State
<1>3. Shape'
  BY <1>2, LockAssumption, NoReaders DEF
     Shape, HoldLabels, OwnerExact, Owns, WriterBit, Writing, Exclusion,
     Counted, Token, SeenTame, RolesKept, LockAssumption, TypeOK,
     State, WritersPresent, AddReader
<1> QED BY <1>1, <1>2, <1>3

LEMMA AddWriterInv ==
    ASSUME LockInv, TryWritersAlone, NEW t \in Thread, AddWriter(t)
    PROVE  LockInv'
<1> USE DEF LockInv, Goto, Got, AddWriter
<1>1. CountsExact'
  <2>1. t \in Announced /\ Announced' = Announced \ {t} /\ Reading' = Reading
    BY DEF Shape, HoldLabels, Reading, Announced, Counted, TypeOK
  <2>2. Cardinality(Announced') = Cardinality(Announced) - 1
    BY <2>1, SubsetShrinks DEF Reading, Announced
  <2> QED BY <2>1, <2>2 DEF CountsExact, TypeOK, State, AddReader
<1>2. TypeOK'
  <2>0. d_state.writer = 0
    BY DEF TypeOK, State, Shape, HoldLabels, OwnerExact, Owns, WriterBit,
           Writing
  <2>1. d_state' \in State
    <3>1. /\ d_state.readers \in Int /\ d_state.pending \in Int
          /\ d_state \in [readers : Int, pending : Int, writer : Int]
      BY DEF TypeOK, State
    <3>2. d_state' = [d_state EXCEPT !.writer = @ + 1, !.pending = @ - 1]
      OBVIOUS
    <3> HIDE DEF LockInv, Goto, Got, AddWriter
    <3>3. d_state' = [readers |-> d_state.readers,
                      pending |-> d_state.pending - 1,
                      writer  |-> d_state.writer + 1]
      BY <3>1, <3>2, PendingToWriter
    <3> QED BY <1>1, <2>0, <3>1, <3>3, StateTyped
  <2> QED BY <2>1 DEF TypeOK, Label, State
<1>3. Shape'
  BY <1>2, LockAssumption, NoReaders DEF
     Shape, HoldLabels, OwnerExact, Owns, WriterBit, Writing, Exclusion,
     Counted, Token, SeenTame, RolesKept, LockAssumption, TypeOK,
     State, WritersPresent, AddReader
<1> QED BY <1>1, <1>2, <1>3

LEMMA WaitForReadersInv ==
    ASSUME LockInv, TryWritersAlone, NEW t \in Thread, WaitForReaders(t)
    PROVE  LockInv'
<1> USE DEF LockInv, Goto, Got, WaitForReaders
<1>1. CountsExact'
  <2>1. Reading' = Reading /\ Announced' = Announced
    BY DEF Shape, HoldLabels, Reading, Announced, Counted, TypeOK
  <2> QED BY <2>1 DEF CountsExact
<1>2. TypeOK'
  BY DEF TypeOK, Label
<1>3. Shape'
  BY <1>2, LockAssumption, NoReaders DEF
     Shape, HoldLabels, OwnerExact, Owns, WriterBit, Writing, Exclusion,
     Counted, Token, SeenTame, RolesKept, LockAssumption, TypeOK,
     State, WritersPresent, AddReader
<1> QED BY <1>1, <1>2, <1>3

LEMMA UnlockMutexInv ==
    ASSUME LockInv, TryWritersAlone, NEW t \in Thread, UnlockMutex(t)
    PROVE  LockInv'
<1> USE DEF LockInv, Goto, Got, UnlockMutex
<1>1. CountsExact'
  <2>1. Reading' = Reading /\ Announced' = Announced
    BY DEF Reading, Announced, Counted, TypeOK
  <2> QED BY <2>1 DEF CountsExact
<1>2. TypeOK'
  BY DEF TypeOK, Label
<1>3. Shape'
  BY <1>2, LockAssumption, NoReaders DEF
     Shape, HoldLabels, OwnerExact, Owns, WriterBit, Writing, Exclusion,
     Counted, Token, SeenTame, RolesKept, LockAssumption, TypeOK,
     State, WritersPresent, AddReader
<1> QED BY <1>1, <1>2, <1>3

LEMMA UnlockInv ==
    ASSUME LockInv, TryWritersAlone, NEW t \in Thread, unlock(t)
    PROVE  LockInv'
<1> USE DEF LockInv, Goto, Got, unlock, lockVars
<1>1. CountsExact'
  <2>1. Reading' = Reading /\ Announced' = Announced
    BY DEF Reading, Announced, Counted, TypeOK
  <2> QED BY <2>1 DEF CountsExact
<1>2. TypeOK'
  BY DEF TypeOK, Label
<1>3. Shape'
  BY <1>2, LockAssumption, NoReaders DEF
     Shape, HoldLabels, OwnerExact, Owns, WriterBit, Writing, Exclusion,
     Counted, Token, SeenTame, RolesKept, LockAssumption, TypeOK,
     State, WritersPresent, AddReader
<1> QED BY <1>1, <1>2, <1>3

LEMMA UnlockReadInv ==
    ASSUME LockInv, TryWritersAlone, NEW t \in Thread, unlockRead(t)
    PROVE  LockInv'
<1> USE DEF LockInv, Goto, Got, unlockRead, UnlockingRead
<1>1. CountsExact'
  <2>1. t \in Reading /\ Reading' = Reading \ {t} /\ Announced' = Announced
    BY DEF Shape, HoldLabels, Reading, Announced, Counted, TypeOK
  <2>2. Cardinality(Reading') = Cardinality(Reading) - 1
    BY <2>1, SubsetShrinks DEF Reading, Announced
  <2> QED BY <2>1, <2>2 DEF CountsExact, TypeOK, State, AddReader
<1>2. TypeOK'
  <2>1. d_state' \in State
    BY <1>1, StateTyped DEF TypeOK, State, AddReader
  <2> QED BY <2>1 DEF TypeOK, Label, State
<1>3. Shape'
  <2>1. /\ d_state'.readers = 0 <=> \A u \in Thread : ~Counted(u)'
        /\ Counted(t)
    BY <1>1, NoReadersNext DEF Shape, HoldLabels, Counted
  <2>2. (HoldLabels /\ OwnerExact /\ WriterBit)'
    BY DEF Shape, HoldLabels, OwnerExact, Owns, WriterBit, Writing, TypeOK,
           State
  <2>3. Exclusion'
    BY DEF Shape, HoldLabels, Exclusion, Counted, TypeOK
  <2>4. (SeenTame /\ RolesKept)'
    BY DEF Shape, HoldLabels, SeenTame, RolesKept, Counted, TypeOK
  <2>5. Token'
    <3>1. CASE d_state'.readers = 0 /\ d_state.writer # 0
      <4>1. PICK w \in Thread : pc[w] = "write_wait"
        BY <2>1, <3>1 DEF Shape, HoldLabels, WriterBit, Writing, Exclusion,
                          TypeOK, State
      <4>2. /\ d_semaphore = 0
            /\ \A u \in Thread : pc[u] # "post"
        BY <2>1 DEF Shape, Token
      <4>3. pc' = [pc EXCEPT ![t] = "post"] /\ w # t
        BY <3>1, <4>1 DEF Shape, HoldLabels, TypeOK
      <4> QED BY <2>1, <3>1, <4>1, <4>2, <4>3 DEF Token, TypeOK
    <3>2. CASE ~(d_state'.readers = 0 /\ d_state.writer # 0)
      <4>1. /\ d_semaphore = 0
            /\ \A u \in Thread : pc[u] # "post"
        BY <2>1 DEF Shape, Token
      <4>2. pc' = [pc EXCEPT ![t] = "idle"]
        BY <3>2
      <4>3. CASE d_state'.readers # 0
        BY <2>1, <4>1, <4>2, <4>3 DEF Token, TypeOK
      <4>4. CASE d_state.writer = 0
        <5>1. \A u \in Thread : pc[u] # "write_wait"
          BY <4>4 DEF Shape, WriterBit, Writing
        <5> QED BY <4>1, <4>2, <5>1 DEF Token, TypeOK
      <4> QED BY <3>2, <4>3, <4>4
    <3> QED BY <3>1, <3>2
  <2> QED BY <2>2, <2>3, <2>4, <2>5 DEF Shape
<1> QED BY <1>1, <1>2, <1>3

LEMMA PostInv ==
    ASSUME LockInv, TryWritersAlone, NEW t \in Thread, Post(t)
    PROVE  LockInv'
<1> USE DEF LockInv, Goto, Got, Post
<1>1. CountsExact'
  <2>1. Reading' = Reading /\ Announced' = Announced
    BY DEF Reading, Announced, Counted, TypeOK
  <2> QED BY <2>1 DEF CountsExact
<1>2. TypeOK'
  BY DEF TypeOK, Label
<1>3. Shape'
  BY <1>2, LockAssumption, NoReaders DEF
     Shape, HoldLabels, OwnerExact, Owns, WriterBit, Writing, Exclusion,
     Counted, Token, SeenTame, RolesKept, LockAssumption, TypeOK,
     State, WritersPresent, AddReader
<1> QED BY <1>1, <1>2, <1>3

LEMMA UnlockWriteInv ==
    ASSUME LockInv, TryWritersAlone, NEW t \in Thread, unlockWrite(t)
    PROVE  LockInv'
<1> USE DEF LockInv, Goto, Got, unlockWrite, UnlockingWrite
<1>1. CountsExact'
  <2>1. Reading' = Reading /\ Announced' = Announced
    BY DEF Shape, HoldLabels, Reading, Announced, Counted, TypeOK
  <2> QED BY <2>1 DEF CountsExact
<1>2. TypeOK'
  <2>0. d_state.writer = 1
    BY DEF Shape, HoldLabels, WriterBit, Writing
  <2>1. d_state' \in State
    BY <1>1, <2>0, StateTyped DEF TypeOK, State
  <2> QED BY <2>1 DEF TypeOK, Label, State
<1>3. Shape'
  BY <1>2, LockAssumption, NoReaders DEF
     Shape, HoldLabels, OwnerExact, Owns, WriterBit, Writing, Exclusion,
     Counted, Token, SeenTame, RolesKept, LockAssumption, TypeOK,
     State, WritersPresent, AddReader
<1> QED BY <1>1, <1>2, <1>3

\* The operations of tryLockWrite: no thread reads, so the bit may be set.
LEMMA TryLoadInv ==
    ASSUME LockInv, TryWritersAlone, NEW t \in Thread, NEW to,
           \/ to = "try_load" /\ LockMutex(t, "idle", to)
              /\ "tryLockWrite" \in role[t]
           \/ /\ to \in {"try_add", "try_unlock"}
              /\ Goto(t, "try_load", to)
              /\ UNCHANGED <<lockVars, role, seen, holds>>
    PROVE  LockInv'
<1> USE DEF LockInv, LockMutex, Goto, lockVars
<1>1. CountsExact'
  <2>1. Reading' = Reading /\ Announced' = Announced
    BY DEF Reading, Announced, Counted, TypeOK
  <2> QED BY <2>1 DEF CountsExact
<1>2. TypeOK'
  BY DEF TypeOK, Label
<1>3. Shape'
  BY LockAssumption DEF
     Shape, HoldLabels, OwnerExact, Owns, WriterBit, Writing, Exclusion,
     Counted, Token, SeenTame, RolesKept, LockAssumption, TypeOK
<1> QED BY <1>1, <1>2, <1>3

LEMMA TryAddInv ==
    ASSUME LockInv, TryWritersAlone, NEW t \in Thread,
           Goto(t, "try_add", "held"),
           d_state' = [d_state EXCEPT !.writer = @ + 1],
           Got(t, "write"),
           UNCHANGED <<d_mutex, d_semaphore, role, seen>>
    PROVE  LockInv'
<1> USE DEF LockInv, Goto, Got
<1>0. \A u \in Thread : ~Counted(u)
  BY TryAlone DEF Shape
<1>1. CountsExact'
  <2>1. Reading' = Reading /\ Announced' = Announced
    BY <1>0 DEF Shape, HoldLabels, Reading, Announced, Counted, TypeOK
  <2> QED BY <2>1 DEF CountsExact, TypeOK, State
<1>2. TypeOK'
  <2>1. d_state.writer = 0
    BY DEF TypeOK, State, Shape, HoldLabels, OwnerExact, Owns, WriterBit,
           Writing
  <2>2. d_state' \in State
    BY <1>1, <2>1, StateTyped DEF TypeOK, State
  <2> QED BY <2>2 DEF TypeOK, Label
<1>3. Shape'
  BY <1>0, <1>2, LockAssumption DEF
     Shape, HoldLabels, OwnerExact, Owns, WriterBit, Writing, Exclusion,
     Counted, Token, SeenTame, RolesKept, LockAssumption, TypeOK, State
<1> QED BY <1>1, <1>2, <1>3

\* A tryLockRead that gives up its swap, or the mutex.
LEMMA TryReadInv ==
    ASSUME LockInv, TryWritersAlone, NEW t \in Thread,
           \/ /\ Goto(t, "try_cas", "try_read")
              /\ seen' = [seen EXCEPT ![t] = Unlocked]
              /\ UNCHANGED <<lockVars, role, holds>>
           \/ /\ Goto(t, "try_read", "idle")
              /\ UNCHANGED <<lockVars, role, seen, holds>>
    PROVE  LockInv'
<1> USE DEF LockInv, Goto, lockVars
<1>1. CountsExact'
  <2>1. Reading' = Reading /\ Announced' = Announced
    BY DEF Reading, Announced, Counted, TypeOK
  <2> QED BY <2>1 DEF CountsExact
<1>2. TypeOK'
  BY UnlockedTyped DEF TypeOK, Label
<1>3. Shape'
  BY LockAssumption DEF
     Shape, HoldLabels, OwnerExact, Owns, WriterBit, Writing, Exclusion,
     Counted, Token, SeenTame, RolesKept, LockAssumption, TypeOK
<1> QED BY <1>1, <1>2, <1>3

-----------------------------------------------------------------------------
(* The theorems *)

LEMMA NextInv ==
    ASSUME LockInv, TryWritersAlone, [Next]_vars
    PROVE  LockInv'
<1>1. CASE UNCHANGED vars
  <2>1. Reading' = Reading /\ Announced' = Announced
    BY <1>1 DEF vars, lockVars, Reading, Announced, Counted
  <2> QED BY <1>1, <2>1 DEF
      vars, lockVars, LockInv, TypeOK, CountsExact, Shape, HoldLabels,
      OwnerExact, Owns, WriterBit, Writing, Exclusion, Counted, Token,
      SeenTame, RolesKept
<1>2. CASE Next
  <2> PICK t \in Thread : ThreadStep(t)
    BY <1>2 DEF Next
  <2>1. CASE lockRead(t)
    BY <2>1, LoadStateInv, CasReaderInv DEF
       lockRead, ReadCalls, LockInv, Shape, RolesKept, LoadState, Goto
  <2>2. CASE tryLockRead(t)
    BY <2>2, LoadStateInv, CasReaderInv, TryReadInv, LockMutexInv DEF
       tryLockRead, ReadCalls
  <2>3. CASE lockWrite(t)
    BY <2>3, AnnounceWriterInv, AddWriterInv, WaitForReadersInv DEF lockWrite
  <2>4. CASE tryLockWrite(t)
    <3>1. CASE "tryLockWrite" \in role[t] /\ LockMutex(t, "idle", "try_load")
      BY <3>1, TryLoadInv
    <3>2. CASE /\ Goto(t, "try_load",
                       IF d_state.readers = 0 THEN "try_add" ELSE "try_unlock")
               /\ UNCHANGED <<lockVars, role, seen, holds>>
      BY <3>2, TryLoadInv
    <3>3. CASE /\ Goto(t, "try_add", "held")
               /\ d_state' = [d_state EXCEPT !.writer = @ + 1]
               /\ Got(t, "write")
               /\ UNCHANGED <<d_mutex, d_semaphore, role, seen>>
      BY <3>3, TryAddInv
    <3> QED BY <2>4, <3>1, <3>2, <3>3 DEF tryLockWrite
  <2>5. CASE AcquireMutex(t)
    BY <2>5, LockMutexInv DEF AcquireMutex
  <2>6. CASE unlock(t) \/ unlockRead(t) \/ unlockWrite(t)
    BY <2>6, UnlockInv, UnlockReadInv, UnlockWriteInv
  <2>7. CASE \/ AddReaderWithMutex(t) \/ ReadUnlockMutex(t)
             \/ UnlockMutex(t) \/ Post(t)
    BY <2>7, AddReaderWithMutexInv, ReadUnlockMutexInv, UnlockMutexInv, PostInv
  <2> QED BY <2>1, <2>2, <2>3, <2>4, <2>5, <2>6, <2>7 DEF ThreadStep
<1> QED BY <1>1, <1>2

\* The invariant holds of every behaviour.
THEOREM LockInvariant == ASSUME TryWritersAlone PROVE Spec => []LockInv
<1>1. Init => LockInv
  BY InitInv
<1>2. LockInv /\ [Next]_vars => LockInv'
  BY NextInv
<1> QED BY <1>1, <1>2, PTL DEF Spec

\* Whatever the number of threads and their calls, a writer is alone: the lock
\* states of bslmt::ReaderWriterMutexImpl exclude each other.
THEOREM WritersAreAlone == ASSUME TryWritersAlone PROVE Spec => []MutualExclusion
<1>1. LockInv => MutualExclusion
  BY DEF LockInv, Shape, Exclusion, Counted, OwnerExact, Owns, TypeOK,
         MutualExclusion
<1> QED BY <1>1, LockInvariant, PTL

\* unlock() releases the lock its caller has, and the assertions of unlockRead
\* and unlockWrite hold.
THEOREM UnlockIsRight == ASSUME TryWritersAlone PROVE Spec => []UnlockMatches
<1>1. LockInv => UnlockMatches
  BY NoReaders DEF LockInv, Shape, HoldLabels, WriterBit, Writing, Counted,
         UnlockMatches, UnlockingRead, UnlockingWrite, TypeOK, State
<1> QED BY <1>1, LockInvariant, PTL

\* The fields of the word never leave their bits.
THEOREM TypeCorrect == ASSUME TryWritersAlone PROVE Spec => []TypeOK
<1>1. LockInv => TypeOK
  BY DEF LockInv
<1> QED BY <1>1, LockInvariant, PTL

\* No token is left over for a writer that did not wait for it.
THEOREM TokensAreExact == ASSUME TryWritersAlone PROVE Spec => []OneToken
<1> DEFINE Posting == {t \in Thread : pc[t] = "post"}
           Waiting == {t \in Thread : pc[t] = "write_wait"}
<1>1. ASSUME LockInv PROVE OneToken
  <2>1. d_state.readers = 0 <=> \A t \in Thread : ~Counted(t)
    BY <1>1, NoReaders DEF LockInv
  <2>2. Cardinality(Posting) = IF \E t \in Thread : pc[t] = "post" THEN 1 ELSE 0
    <3>1. CASE Posting = {}
      BY <3>1, FS_EmptySet
    <3>2. CASE Posting # {}
      <4>1. PICK t \in Thread : Posting = {t}
        BY <1>1, <3>2 DEF LockInv, Shape, Token
      <4> QED BY <4>1, FS_Singleton
    <3> QED BY <3>1, <3>2
  <2>3. Cardinality(Waiting)
           = IF \E t \in Thread : pc[t] = "write_wait" THEN 1 ELSE 0
    <3>1. CASE Waiting = {}
      BY <3>1, FS_EmptySet
    <3>2. CASE Waiting # {}
      <4>1. PICK t \in Thread : Waiting = {t}
        BY <1>1, <3>2 DEF LockInv, Shape, OwnerExact, Owns
      <4> QED BY <4>1, FS_Singleton
    <3> QED BY <3>1, <3>2
  <2> HIDE DEF Posting, Waiting
  <2>4. d_semaphore + Cardinality(Posting)
           = IF d_state.readers = 0 THEN Cardinality(Waiting) ELSE 0
    BY <1>1, <2>1, <2>2, <2>3 DEF LockInv, Shape, Token
  <2> QED BY <2>4 DEF OneToken, Posting, Waiting
<1> QED BY <1>1, LockInvariant, PTL
\* While a writer waits with the mutex in its hands, no reader gets in.
THEOREM NoReaderEnters ==
    ASSUME TryWritersAlone PROVE Spec => ReadersOnlyLeave
<1> DEFINE Leave == \A t \in Thread :
                       pc[t] = "write_wait" /\ pc'[t] = "write_wait"
                           => d_state'.readers <= d_state.readers
<1>1. ASSUME LockInv, Next PROVE Leave
  <2> SUFFICES ASSUME NEW w \in Thread, pc[w] = "write_wait"
               PROVE  d_state'.readers <= d_state.readers
    OBVIOUS
  <2>1. d_state.writer = 1 /\ d_mutex = w /\ d_state.readers \in Int
    BY <1>1 DEF LockInv, Shape, WriterBit, Writing, OwnerExact, Owns,
                TypeOK, State
  <2> PICK t \in Thread : ThreadStep(t)
    BY <1>1 DEF Next
  <2>2. ASSUME NEW from \in {"read_cas", "try_cas"}, CasReader(t, from)
        PROVE  FALSE
    BY <1>1, <2>1, <2>2 DEF LockInv, Shape, SeenTame, WritersPresent,
                            CasReader, Goto
  <2>3. ASSUME AddReaderWithMutex(t) PROVE FALSE
    BY <1>1, <2>1, <2>3 DEF LockInv, Shape, OwnerExact, Owns,
                            AddReaderWithMutex, Goto
  <2>4. CASE lockRead(t) \/ tryLockRead(t)
    BY <2>1, <2>2, <2>4 DEF lockRead, tryLockRead, LoadState, LockMutex,
                            lockVars
  <2>5. CASE AnnounceWriter(t) \/ WaitForReaders(t)
    BY <1>1, <2>1, <2>5 DEF AnnounceWriter, WaitForReaders, LockInv, TypeOK, State
  <2>6. CASE AddWriter(t)
    <3>1. pc[t] = "write_add"
      BY <2>6 DEF AddWriter, Goto
    <3> QED BY <1>1, <2>1, <3>1 DEF LockInv, Shape, OwnerExact, Owns
  <2>7. CASE tryLockWrite(t) \/ unlockWrite(t)
    BY <1>1, <2>1, <2>7 DEF tryLockWrite, unlockWrite, LockMutex, lockVars,
                            LockInv, TypeOK, State
  <2>8. CASE unlockRead(t)
    BY <1>1, <2>1, <2>8 DEF unlockRead, LockInv, TypeOK, State
  <2>9. CASE \/ ReadUnlockMutex(t) \/ UnlockMutex(t) \/ unlock(t)
             \/ Post(t) \/ AcquireMutex(t)
    BY <2>1, <2>9 DEF ReadUnlockMutex, UnlockMutex, unlock, Post, AcquireMutex,
                      LockMutex, lockVars
  <2> QED BY <2>3, <2>4, <2>5, <2>6, <2>7, <2>8, <2>9 DEF ThreadStep, lockWrite
<1>2. ASSUME LockInv, [Next]_vars PROVE [Leave]_vars
  BY <1>1, <1>2
<1> QED BY <1>2, LockInvariant, PTL DEF Spec, ReadersOnlyLeave

\* The word and the semaphore of bslmt::ReaderWriterMutexImpl tell who is in
\* and who waits, so that unlock() is right and no token is left over.
THEOREM LockIsConsistent == ASSUME TryWritersAlone PROVE Spec => []Consistent
<1> QED BY TypeCorrect, UnlockIsRight, TokensAreExact, PTL DEF Consistent

=============================================================================
