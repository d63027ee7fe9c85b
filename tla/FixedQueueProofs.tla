-------------------------- MODULE FixedQueueProofs --------------------------
(***************************************************************************)
(* No two threads use an element of a FixedQueue at a time, and each use   *)
(* finds it alive or not as it should, for any capacity, range of indices, *)
(* threads and calls.                                                      *)
(*                                                                         *)
(* The argument never asks how old an index is that a thread has loaded:   *)
(* what matters is the state of the element at the swap.  So it holds for  *)
(* a thread that sleeps while the indices come round, too.                 *)
(*                                                                         *)
(* Nor does any lock keep the order: as long as no thread sleeps for that  *)
(* long, between a load of an index and the swap that relies on it, the    *)
(* queue is a bounded FIFO.                                                *)
(*                                                                         *)
(* Then no wakeup is lost, either: an account is kept of the tokens that   *)
(* are in a semaphore or about to be posted, against the threads that      *)
(* sleep and the elements that nobody is about to take.                    *)
(***************************************************************************)
EXTENDS FixedQueue, FiniteSetTheorems, SequenceTheorems, TLAPS

PushCalls == {"push_load", "push_swap", "push_help", "push_advance"}
PopCalls  == {"pop_load", "pop_swap", "pop_help", "pop_advance"}
Clears    == {"clear_load", "clear_swap", "clear_help", "clear_advance", "clear_ret"}
Aborts    == {"abort_reading", "abort_advance", "abort_empty"}
Waits     == {"length_push", "length_pop", "check_enabled", "wait", "leave_wait"}

Waiting(o) == {t \in Thread : pc[t] \in Waits /\ op[t] = o}

-----------------------------------------------------------------------------
(* The invariant *)

\* The types, but for the two counters of waiting threads.
Types ==
    /\ ManagerTypeOK
    /\ pc \in [Thread -> QueuePC]
    /\ d_elements \in [Slot -> Value \cup {NoValue}]
    /\ d_popControlSema \in Nat /\ d_pushControlSema \in Nat
    /\ role \in Roles
    /\ op \in [Thread -> AllCalls \cup {"none"}]
    /\ calls \in [Thread -> 0 .. MaxCalls]
    /\ value \in [Thread -> Value \cup {NoValue}]
    /\ count \in [Thread -> Nat]
    /\ limit \in [Thread -> 0 .. Capacity]

\* Each counter of waiting threads counts those that have counted themselves.
WaitersCounted ==
    /\ d_numWaitingPushers = Cardinality(Waiting("pushBack"))
    /\ d_numWaitingPoppers = Cardinality(Waiting("popFront"))

\* A thread is in the call it makes, and has a reservation where it should.
CallRight(t) ==
    /\ own[t] # None <=> \/ pc[t] \in {"push_advance", "pop_advance"} \cup Clears \cup Aborts
                         \/ pc[t] = "ret" /\ result[t] = "success"
    /\ pc[t] \in PushCalls \cup Clears \cup Aborts => op[t] \in Pushing
    /\ pc[t] \in PopCalls => op[t] \in Popping \cup {"removeAll"}
    /\ pc[t] = "ret" => op[t] \in Pushing \cup Popping \cup {"removeAll"}
    /\ pc[t] \in Waits => op[t] \in Blocking
    /\ pc[t] \in {"remove_push", "remove_pop"} => op[t] = "removeAll"
    /\ pc[t] \in Aborts => result[t] = "end"
    /\ op[t] \in Pushing => value[t] \in Value

\* Thread t is about to dispose of the element it has loaded the index of.
Clearing(t) ==
    \/ pc[t] = "clear_advance"
    \/ pc[t] = "clear_ret" /\ result[t] = "success"

\* The state that a reservation keeps its element in.
Mode(t) ==
    IF op[t] \in Pushing /\ pc[t] \notin {"abort_advance", "abort_empty"}
    THEN "WRITING" ELSE "READING"

\* A reservation keeps its element as it was given.
HeldRight(t) ==
    /\ own[t] # None => Holds(own[t], Mode(t))
    /\ Clearing(t) => Holds(loaded[t], "READING")
    /\ pc[t] \in {"abort_advance", "abort_empty"} => d_elements[index(own[t])] = NoValue

ThreadsRight == \A t \in Thread : CallRight(t) /\ HeldRight(t)

SafeInv ==
    /\ Types /\ WaitersCounted /\ ThreadsRight
    /\ ExclusiveElement /\ ElementLifetime

-----------------------------------------------------------------------------
(* Facts about the constants and the indices *)

LEMMA Constants ==
    /\ IsFiniteSet(Thread) /\ Capacity \in Nat /\ Capacity >= 1
    /\ NumIndices \in Nat /\ 2 * Capacity <= NumIndices
    /\ StartIndex \in Nat /\ StartIndex <= d_maxCombinedIndex
    /\ Roles \subseteq [Thread -> SUBSET (AllCalls \cup {"throw", "once"})]
    /\ MaxCalls \in Nat /\ MaxCalls >= 1
BY IndexAssumption, StartAssumption, QueueAssumption
   DEF IndexAssumption, StartAssumption, QueueAssumption

LEMMA Division ==
    ASSUME NEW a \in Nat, NEW b \in Nat, b >= 1
    PROVE  /\ a \div b \in Nat /\ a % b \in Nat /\ a % b < b
           /\ a = b * (a \div b) + (a % b)
OBVIOUS

LEMMA ProductGrows ==
    ASSUME NEW a \in Nat, NEW b \in Nat, NEW c \in Nat, a <= b
    PROVE  c * a <= c * b
OBVIOUS

LEMMA Generations ==
    /\ numRepresentableGenerations \in Nat /\ numRepresentableGenerations >= 1
    /\ numRepresentableGenerations * Capacity \in Nat
    /\ numRepresentableGenerations * Capacity >= 1
<1>1. CASE Capacity = 1
  BY <1>1, Constants DEF numRepresentableGenerations
<1>2. CASE Capacity # 1
  <2> DEFINE q == NumIndices \div Capacity
  <2>1. q \in Nat /\ NumIndices = Capacity * q + (NumIndices % Capacity)
        /\ NumIndices % Capacity \in Nat /\ NumIndices % Capacity < Capacity
    BY Constants, Division
  <2>2. numRepresentableGenerations = q
    BY <1>2 DEF numRepresentableGenerations
  <2> HIDE DEF q
  <2>3. q # 0
    BY <2>1, Constants
  <2>4. Capacity * 1 <= Capacity * q
    BY <2>1, <2>3, Constants, ProductGrows
  <2>5. Capacity * q = q * Capacity /\ q * Capacity \in Nat
    BY <2>1, Constants
  <2> QED BY <2>1, <2>2, <2>3, <2>4, <2>5, Constants
<1> QED BY <1>1, <1>2

LEMMA Words ==
    /\ d_maxCombinedIndex \in Nat /\ d_maxGeneration \in Nat
    /\ None \notin Combined /\ Combined \subseteq Nat /\ 0 \in Combined
    /\ StartIndex \in Combined
BY Generations, Constants DEF d_maxCombinedIndex, d_maxGeneration, Combined, None

\* What an index stands for is an element and a generation of it.
LEMMA IndexTypes ==
    ASSUME NEW c \in Combined
    PROVE  /\ c \in Nat /\ c # None
           /\ index(c) \in Slot /\ generation(c) \in Gen
           /\ nextCombinedIndex(c) \in Combined
<1> DEFINE n == numRepresentableGenerations
           g == c \div Capacity
           i == c % Capacity
<1>1. c \in Nat /\ c <= n * Capacity - 1 /\ n \in Nat /\ n * Capacity \in Nat
  BY Generations DEF Combined, d_maxCombinedIndex
<1>2. g \in Nat /\ i \in Nat /\ i < Capacity /\ c = Capacity * g + i
  BY <1>1, Constants, Division
<1>3. index(c) \in Slot
  BY <1>2, Constants DEF index, Slot
<1>4. generation(c) = g
  BY DEF generation
<1> HIDE DEF g, i, n
<1>5. g <= n - 1
  <2> SUFFICES ASSUME n <= g PROVE FALSE
    BY <1>1, <1>2
  <2>1. Capacity * n <= Capacity * g
    BY <1>1, <1>2, Constants, ProductGrows
  <2>2. Capacity * n = n * Capacity /\ Capacity * g \in Nat
    BY <1>1, <1>2, Constants
  <2> QED BY <1>1, <1>2, <2>1, <2>2
<1>6. generation(c) \in Gen
  BY <1>1, <1>2, <1>4, <1>5, Generations DEF Gen, d_maxGeneration, n
<1>7. nextCombinedIndex(c) \in Combined /\ c # None
  BY <1>1, Words DEF nextCombinedIndex, Combined, None
<1> QED BY <1>1, <1>3, <1>6, <1>7

LEMMA NextGenerationType ==
    ASSUME NEW g \in Gen PROVE nextGeneration(g) \in Gen
BY Words DEF nextGeneration, Gen

LEMMA LengthType ==
    ASSUME NEW a \in Combined, NEW b \in Combined
    PROVE  lengthOf(a, b) \in 0 .. Capacity
<1> DEFINE m == d_maxCombinedIndex
<1>1. m \in Nat /\ a \in Nat /\ b \in Nat /\ a <= m /\ b <= m
  BY Words DEF Combined
<1>2. Capacity \in Nat
  BY Constants
<1>3. a - b \in Int /\ m \div 2 \in Int
  BY <1>1
<1>4. (a - b) + m + 1 > 0
  BY <1>1
<1> QED BY <1>1, <1>2, <1>3, <1>4 DEF lengthOf

-----------------------------------------------------------------------------
(* What a step of one thread leaves alone *)

SameOthers(t) ==
    \A u \in Thread \ {t} :
        /\ pc'[u] = pc[u] /\ own'[u] = own[u] /\ loaded'[u] = loaded[u]
        /\ result'[u] = result[u] /\ op'[u] = op[u] /\ value'[u] = value[u]

LEMMA OthersSame ==
    ASSUME NEW t \in Thread, SameOthers(t), NEW u \in Thread \ {t}
    PROVE  /\ Held(u)' = Held(u) /\ Mode(u)' = Mode(u)
           /\ Clearing(u)' = Clearing(u) /\ CallRight(u)' = CallRight(u)
BY DEF SameOthers, Held, Mode, Clearing, CallRight

LEMMA HeldTypes ==
    ASSUME Types, NEW t \in Thread
    PROVE  /\ Held(t) \subseteq Combined
           /\ own[t] # None => own[t] \in Held(t)
           /\ Clearing(t) => loaded[t] \in Held(t)
           /\ \A c \in Held(t) : (c = own[t] /\ own[t] # None) \/ (c = loaded[t] /\ Clearing(t))
<1>1. own[t] \in Combined \cup {None} /\ loaded[t] \in Combined
  BY DEF Types, ManagerTypeOK
<1>2. Held(t) = ({own[t]} \ {None}) \cup (IF Clearing(t) THEN {loaded[t]} ELSE {})
  BY DEF Held, Clearing
<1> QED BY <1>1, <1>2

LEMMA HeldTypesNext ==
    ASSUME Types', NEW t \in Thread
    PROVE  /\ Held(t)' \subseteq Combined
           /\ own'[t] # None => own'[t] \in Held(t)'
           /\ \A c \in Held(t)' : (c = own'[t] /\ own'[t] # None) \/ (c = loaded'[t] /\ Clearing(t)')
<1>1. own'[t] \in Combined \cup {None} /\ loaded'[t] \in Combined
  BY DEF Types, ManagerTypeOK
<1>2. Held(t)' = ({own'[t]} \ {None}) \cup (IF Clearing(t)' THEN {loaded'[t]} ELSE {})
  BY DEF Held, Clearing
<1> QED BY <1>1, <1>2

\* Only elements that are being written or read are held.
LEMMA HeldStates ==
    ASSUME SafeInv, NEW t \in Thread, NEW c \in Held(t)
    PROVE  /\ index(c) \in Slot
           /\ d_states[index(c)].st \in {"WRITING", "READING"}
           /\ d_states[index(c)].gen = generation(c)
<1>1. c \in Combined /\ (Holds(c, "READING") \/ Holds(c, Mode(t)))
  BY HeldTypes DEF SafeInv, ThreadsRight, HeldRight
<1>2. Mode(t) \in {"WRITING", "READING"}
  BY DEF Mode
<1> QED BY <1>1, <1>2, IndexTypes DEF Holds

\* A thread changes at most element i, which nobody else holds.
LEMMA StepKeeps ==
    ASSUME SafeInv, Types', WaitersCounted', NEW t \in Thread, SameOthers(t),
           CallRight(t)', HeldRight(t)', NEW i,
           \A j \in Slot \ {i} : d_states'[j] = d_states[j] /\ d_elements'[j] = d_elements[j],
           \A u \in Thread \ {t} : \A c \in Held(u) : index(c) # i,
           \A c \in Held(t)' : c \in Held(t) \/ index(c) = i,
           i \in Slot => /\ d_states'[i].st = "FULL" => d_elements'[i] # NoValue
                         /\ d_states'[i].st \in {"EMPTY", "WRITING"} => d_elements'[i] = NoValue
    PROVE  SafeInv'
<1>0. Types
  BY DEF SafeInv
<1>1. ASSUME NEW u \in Thread \ {t}, NEW c \in Held(u)
      PROVE  /\ index(c) \in Slot /\ d_states'[index(c)] = d_states[index(c)]
             /\ d_elements'[index(c)] = d_elements[index(c)]
  <2>1. index(c) \in Slot
    BY <1>0, HeldTypes, IndexTypes
  <2> QED BY <2>1
<1>2. ASSUME NEW u \in Thread \ {t} PROVE CallRight(u)' /\ HeldRight(u)'
  <2>1. CallRight(u)'
    BY OthersSame DEF SafeInv, ThreadsRight
  <2>2. own'[u] = own[u] /\ loaded'[u] = loaded[u] /\ pc'[u] = pc[u]
    BY DEF SameOthers
  <2>6. Clearing(u)' = Clearing(u) /\ Mode(u)' = Mode(u)
    BY OthersSame
  <2>7. HeldRight(u)
    BY DEF SafeInv, ThreadsRight
  <2>3. own'[u] # None => Holds(own[u], Mode(u))'
    <3> SUFFICES ASSUME own[u] # None
                 PROVE  d_states'[index(own'[u])] = [gen |-> generation(own'[u]), st |-> Mode(u)']
      BY <2>2 DEF Holds, index, generation
    <3>1. own[u] \in Held(u)
      BY <1>0, HeldTypes
    <3> QED BY <1>1, <2>2, <2>6, <2>7, <3>1 DEF HeldRight, Holds
  <2>4. Clearing(u)' => Holds(loaded[u], "READING")'
    <3> SUFFICES ASSUME Clearing(u)
                 PROVE  d_states'[index(loaded'[u])] =
                           [gen |-> generation(loaded'[u]), st |-> "READING"]
      BY <2>6 DEF Holds, index, generation
    <3>1. loaded[u] \in Held(u)
      BY <1>0, HeldTypes
    <3> QED BY <1>1, <2>2, <2>7, <3>1 DEF HeldRight, Holds
  <2>5. pc[u] \in {"abort_advance", "abort_empty"} => d_elements'[index(own[u])] = NoValue
    <3> SUFFICES ASSUME pc[u] \in {"abort_advance", "abort_empty"}
                 PROVE  d_elements'[index(own[u])] = NoValue
      OBVIOUS
    <3>1. own[u] # None /\ d_elements[index(own[u])] = NoValue
      BY DEF SafeInv, ThreadsRight, CallRight, HeldRight, Aborts
    <3> QED BY <1>0, <1>1, <3>1, HeldTypes
  <2> QED BY <2>1, <2>2, <2>3, <2>4, <2>5 DEF HeldRight, Holds
<1>3. ThreadsRight'
  BY <1>2 DEF ThreadsRight
<1>4. ASSUME NEW c \in Held(t)', NEW d \in Held(t)', index(c) = index(d)
      PROVE  c = d
  <2> SUFFICES ASSUME c # d PROVE FALSE
    OBVIOUS
  <2>1. /\ Clearing(t)' /\ own'[t] # None
        /\ index(own'[t]) = index(loaded'[t])
    BY <1>4, HeldTypesNext
  <2>2. Mode(t)' = "WRITING"
    BY <2>1 DEF CallRight, Clearing, Clears, Mode
  <2>3. Holds(own[t], "WRITING")' /\ Holds(loaded[t], "READING")'
    BY <2>1, <2>2 DEF HeldRight
  <2> QED BY <2>1, <2>3 DEF Holds
<1>5. ASSUME NEW u \in Thread \ {t}, NEW c \in Held(t)', NEW d \in Held(u)'
      PROVE  index(c) # index(d)
  <2>1. d \in Held(u)
    BY OthersSame
  <2> QED BY <1>5, <2>1 DEF SafeInv, ExclusiveElement
<1>6. ASSUME NEW u \in Thread \ {t}, NEW s \in Thread \ {t},
             NEW c \in Held(s)', NEW d \in Held(u)', index(c) = index(d)
      PROVE  s = u /\ c = d
  BY <1>6, OthersSame DEF SafeInv, ExclusiveElement
<1>7. ExclusiveElement'
  <2> SUFFICES ASSUME NEW s \in Thread, NEW u \in Thread, NEW c \in Held(s)',
                      NEW d \in Held(u)', index(c) = index(d)
               PROVE  s = u /\ c = d
    BY DEF ExclusiveElement, index
  <2>1. CASE s = t /\ u = t
    BY <1>4, <2>1
  <2>2. CASE s = t /\ u # t
    BY <1>5, <2>2
  <2>3. CASE s # t /\ u = t
    BY <1>5, <2>3
  <2>4. CASE s # t /\ u # t
    BY <1>6, <2>4
  <2> QED BY <2>1, <2>2, <2>3, <2>4
<1>8. ElementLifetime'
  BY DEF SafeInv, ElementLifetime
<1> QED BY <1>3, <1>7, <1>8 DEF SafeInv

\* A step that changes no element and takes no reservation.
LEMMA QuietKeeps ==
    ASSUME SafeInv, Types', WaitersCounted', NEW t \in Thread, SameOthers(t),
           CallRight(t)', HeldRight(t)', UNCHANGED <<d_states, d_elements>>,
           Held(t)' \subseteq Held(t)
    PROVE  SafeInv'
<1>1. -1 \notin Slot
  BY Constants DEF Slot
<1>2. \A u \in Thread : \A c \in Held(u) : index(c) # -1
  BY <1>1, HeldStates
<1> QED BY <1>1, <1>2, StepKeeps

LEMMA WaitingSame ==
    ASSUME NEW t \in Thread, SameOthers(t), NEW o,
           t \in Waiting(o)' <=> t \in Waiting(o)
    PROVE  Waiting(o)' = Waiting(o)
BY DEF Waiting, SameOthers

-----------------------------------------------------------------------------
(* The index manager *)

\* A step of the manager that swaps no element.
LEMMA ManagerQuiet ==
    ASSUME SafeInv, NEW t \in Thread, UNCHANGED <<d_states, own, queueVars, callVars>>,
           ManagerTypeOK', pc' \in [Thread -> QueuePC], SameOthers(t),
           CallRight(t)', pc[t] \in ManagerPC, pc'[t] \in ManagerPC,
           Clearing(t)' => Clearing(t) /\ loaded'[t] = loaded[t],
           pc[t] \in {"abort_advance", "abort_empty"}
               <=> pc'[t] \in {"abort_advance", "abort_empty"}
    PROVE  SafeInv'
<1>1. Types'
  BY DEF SafeInv, Types, queueVars, waitVars, callVars
<1>2. Waiting("pushBack")' = Waiting("pushBack") /\ Waiting("popFront")' = Waiting("popFront")
  <2>1. pc[t] \notin Waits /\ pc'[t] \notin Waits
    BY DEF ManagerPC, Waits
  <2>2. \A o : t \notin Waiting(o) /\ t \notin Waiting(o)'
    BY <2>1 DEF Waiting
  <2> QED BY <2>2, WaitingSame
<1>3. WaitersCounted'
  BY <1>2 DEF SafeInv, WaitersCounted, queueVars, waitVars
<1>4. Mode(t)' = Mode(t) /\ d_elements' = d_elements /\ d_states' = d_states /\ own' = own
  BY DEF Mode, callVars, queueVars
<1>5. HeldRight(t)'
  BY <1>4 DEF HeldRight, Holds, SafeInv, ThreadsRight
<1>6. Held(t)' \subseteq Held(t)
  BY DEF Held, Clearing
<1> QED BY <1>1, <1>3, <1>4, <1>5, <1>6, QuietKeeps

\* What the types say of the words and registers the manager's steps use.
LEMMA Registers ==
    ASSUME Types, NEW t \in Thread
    PROVE  /\ pc[t] \in QueuePC /\ loaded[t] \in Combined /\ own[t] \in Combined \cup {None}
           /\ saved[t] \in Combined \cup {None} /\ result[t] \in Result
           /\ d_pushIndex \in [disabled : BOOLEAN, index : Combined]
           /\ d_pushIndex.index \in Combined /\ d_popIndex \in Combined
           /\ \A c \in Combined : AdvancePushIndex(c) =>
                 d_pushIndex' \in [disabled : BOOLEAN, index : Combined]
           /\ \A c \in Combined : AdvancePopIndex(c) => d_popIndex' \in Combined
<1>1. /\ d_pushIndex \in [disabled : BOOLEAN, index : Combined] /\ d_popIndex \in Combined
      /\ pc[t] \in QueuePC /\ loaded[t] \in Combined /\ own[t] \in Combined \cup {None}
      /\ saved[t] \in Combined \cup {None} /\ result[t] \in Result
  BY DEF Types, ManagerTypeOK
<1>2. ASSUME NEW c \in Combined, AdvancePushIndex(c)
      PROVE  d_pushIndex' \in [disabled : BOOLEAN, index : Combined]
  BY <1>1, <1>2, IndexTypes DEF AdvancePushIndex
<1>3. ASSUME NEW c \in Combined, AdvancePopIndex(c) PROVE d_popIndex' \in Combined
  BY <1>1, <1>3, IndexTypes DEF AdvancePopIndex
<1> QED BY <1>1, <1>2, <1>3

LEMMA ReservePushQuiet ==
    ASSUME SafeInv, NEW t \in Thread, UNCHANGED <<queueVars, callVars>>,
           \/ ReservePushLoad(t) \/ ReservePushBehind(t) \/ ReservePushTaken(t)
           \/ ReservePushHelp(t) \/ ReservePushAdvance(t)
    PROVE  SafeInv'
<1>0. Types /\ CallRight(t)
  BY DEF SafeInv, ThreadsRight
<1>1. /\ pc[t] \in PushCalls /\ UNCHANGED <<d_popIndex, d_states, own>>
      /\ pc' = [pc EXCEPT ![t] = pc'[t]]
      /\ pc'[t] \in {"push_load", "push_swap", "push_help", "ret"}
      /\ pc[t] = "push_advance" => pc'[t] = "ret" /\ result'[t] = "success"
      /\ pc[t] # "push_advance" => pc'[t] # "ret" \/ result'[t] \in {"disabled", "full"}
  BY <1>0 DEF ReservePushLoad, ReservePushBehind, ReservePushTaken, ReservePushHelp,
     ReservePushAdvance, Goto, Return, Types, ManagerTypeOK, sharedVars, PushCalls
<1>2. /\ loaded' \in [Thread -> Combined] /\ loaded' = [loaded EXCEPT ![t] = loaded'[t]]
      /\ saved' \in [Thread -> Combined \cup {None}]
      /\ result' \in [Thread -> Result] /\ result' = [result EXCEPT ![t] = result'[t]]
      /\ d_pushIndex' \in [disabled : BOOLEAN, index : Combined]
  BY <1>0, Registers DEF ReservePushLoad, ReservePushBehind, ReservePushTaken,
     ReservePushHelp, ReservePushAdvance, Return, Types, ManagerTypeOK, sharedVars, Result
<1>3. ManagerTypeOK' /\ pc' \in [Thread -> QueuePC] /\ SameOthers(t)
  BY <1>0, <1>1, <1>2 DEF Types, ManagerTypeOK, QueuePC, ManagerPC, SameOthers, callVars
<1>4. CallRight(t)'
  BY <1>0, <1>1 DEF CallRight, PushCalls, PopCalls, Clears, Aborts, Waits, callVars
<1>5. pc[t] \in ManagerPC /\ pc'[t] \in ManagerPC
  BY <1>1 DEF ManagerPC, PushCalls
<1> QED BY <1>1, <1>3, <1>4, <1>5, ManagerQuiet DEF Clearing, PushCalls

LEMMA ReservePopQuiet ==
    ASSUME SafeInv, NEW t \in Thread, UNCHANGED <<queueVars, callVars>>,
           \/ ReservePopLoad(t) \/ ReservePopEmpty(t) \/ ReservePopRetry(t)
           \/ ReservePopTaken(t) \/ ReservePopHelp(t) \/ ReservePopAdvance(t)
    PROVE  SafeInv'
<1>0. Types /\ CallRight(t)
  BY DEF SafeInv, ThreadsRight
<1>1. /\ pc[t] \in PopCalls /\ UNCHANGED <<d_pushIndex, d_states, own>>
      /\ pc' = [pc EXCEPT ![t] = pc'[t]]
      /\ pc'[t] \in {"pop_load", "pop_swap", "pop_help", "ret"}
      /\ pc[t] = "pop_advance" => pc'[t] = "ret" /\ result'[t] = "success"
      /\ pc[t] # "pop_advance" => pc'[t] # "ret" \/ result'[t] = "empty"
  BY <1>0 DEF ReservePopLoad, ReservePopEmpty, ReservePopRetry, ReservePopTaken,
     ReservePopHelp, ReservePopAdvance, Goto, Return, Types, ManagerTypeOK, sharedVars,
     PopCalls
<1>2. /\ loaded' \in [Thread -> Combined] /\ loaded' = [loaded EXCEPT ![t] = loaded'[t]]
      /\ saved' \in [Thread -> Combined \cup {None}]
      /\ result' \in [Thread -> Result] /\ result' = [result EXCEPT ![t] = result'[t]]
      /\ d_popIndex' \in Combined
  BY <1>0, Registers DEF ReservePopLoad, ReservePopEmpty, ReservePopRetry,
     ReservePopTaken, ReservePopHelp, ReservePopAdvance, Return, Types, ManagerTypeOK,
     sharedVars, Result
<1>3. ManagerTypeOK' /\ pc' \in [Thread -> QueuePC] /\ SameOthers(t)
  BY <1>0, <1>1, <1>2 DEF Types, ManagerTypeOK, QueuePC, ManagerPC, SameOthers, callVars
<1>4. CallRight(t)'
  BY <1>0, <1>1 DEF CallRight, PushCalls, PopCalls, Clears, Aborts, Waits, callVars
<1>5. pc[t] \in ManagerPC /\ pc'[t] \in ManagerPC
  BY <1>1 DEF ManagerPC, PopCalls
<1> QED BY <1>1, <1>3, <1>4, <1>5, ManagerQuiet DEF Clearing, PopCalls

LEMMA ReserveClearQuiet ==
    ASSUME SafeInv, NEW t \in Thread, UNCHANGED <<queueVars, callVars>>,
           \/ ReserveClearLoad(t) \/ ReserveClearHelp(t) \/ ReserveClearAdvance(t)
           \/ (ReserveClearSwap(t) /\ UNCHANGED d_states)
    PROVE  SafeInv'
<1>0. Types /\ CallRight(t)
  BY DEF SafeInv, ThreadsRight
<1>a. ~(Holds(loaded[t], "FULL") /\ SetState(loaded[t], generation(loaded[t]), "READING")
        /\ UNCHANGED d_states)
  <2>1. index(loaded[t]) \in Slot
    BY <1>0, Registers, IndexTypes
  <2> QED BY <1>0, <2>1 DEF Types, ManagerTypeOK, Holds, SetState
<1>1. /\ pc[t] \in Clears /\ UNCHANGED <<d_pushIndex, d_states, own>>
      /\ pc' = [pc EXCEPT ![t] = pc'[t]]
      /\ pc'[t] \in {"clear_load", "clear_swap", "clear_help", "clear_ret"}
      /\ pc'[t] = "clear_ret" => \/ result'[t] = "end"
                                 \/ pc[t] = "clear_advance" /\ loaded'[t] = loaded[t]
  BY <1>0, <1>a DEF ReserveClearLoad, ReserveClearSwap, ReserveClearHelp,
     ReserveClearAdvance, Goto, Types, ManagerTypeOK, sharedVars, Clears
<1>2. /\ loaded' \in [Thread -> Combined] /\ loaded' = [loaded EXCEPT ![t] = loaded'[t]]
      /\ saved' \in [Thread -> Combined \cup {None}]
      /\ result' \in [Thread -> Result] /\ result' = [result EXCEPT ![t] = result'[t]]
      /\ d_popIndex' \in Combined
  BY <1>0, Registers DEF ReserveClearLoad, ReserveClearSwap, ReserveClearHelp,
     ReserveClearAdvance, Types, ManagerTypeOK, sharedVars, Result
<1>3. ManagerTypeOK' /\ pc' \in [Thread -> QueuePC] /\ SameOthers(t)
  BY <1>0, <1>1, <1>2, SMTT(20) DEF Types, ManagerTypeOK, QueuePC, ManagerPC,
     SameOthers, callVars
<1>4. CallRight(t)'
  BY <1>0, <1>1 DEF CallRight, PushCalls, PopCalls, Clears, Aborts, Waits, callVars
<1>5. pc[t] \in ManagerPC /\ pc'[t] \in ManagerPC
  BY <1>1 DEF ManagerPC, Clears
<1>6. Clearing(t)' => Clearing(t) /\ loaded'[t] = loaded[t]
  BY <1>1 DEF Clearing
<1> QED BY <1>1, <1>3, <1>4, <1>5, <1>6, ManagerQuiet DEF Clears

LEMMA AbortAdvanceKeeps ==
    ASSUME SafeInv, NEW t \in Thread, UNCHANGED <<queueVars, callVars>>, AbortAdvance(t)
    PROVE  SafeInv'
<1>0. Types /\ CallRight(t)
  BY DEF SafeInv, ThreadsRight
<1>1. /\ pc[t] = "abort_advance" /\ pc' = [pc EXCEPT ![t] = "abort_empty"]
      /\ AdvancePopIndex(own[t])
      /\ UNCHANGED <<d_pushIndex, d_states, loaded, saved, own, result>>
  BY DEF AbortAdvance, Goto
<1>2. own[t] \in Combined
  BY <1>0, <1>1, Registers DEF CallRight, Aborts
<1>3. pc'[t] = "abort_empty" /\ d_popIndex' \in Combined
  BY <1>0, <1>1, <1>2, Registers DEF Types
<1>4. ManagerTypeOK' /\ pc' \in [Thread -> QueuePC] /\ SameOthers(t)
  BY <1>0, <1>1, <1>3 DEF Types, ManagerTypeOK, QueuePC, ManagerPC, SameOthers, callVars
<1>5. CallRight(t)'
  BY <1>0, <1>1, <1>3 DEF CallRight, PushCalls, PopCalls, Clears, Aborts, Waits, callVars
<1> QED BY <1>1, <1>3, <1>4, <1>5, ManagerQuiet DEF Clearing, ManagerPC

\* What StepKeeps asks for, of a step that swaps the element of index c.
LEMMA SwapTypes ==
    ASSUME Types, NEW c \in Combined, NEW st \in State, NEW g \in Gen, SetState(c, g, st)
    PROVE  /\ index(c) \in Slot
           /\ d_states' \in [Slot -> [gen : Gen, st : State]]
           /\ d_states'[index(c)] = [gen |-> g, st |-> st]
           /\ \A j \in Slot \ {index(c)} : d_states'[j] = d_states[j]
BY IndexTypes DEF Types, ManagerTypeOK, SetState

\* An element that is empty or full is held by nobody.
LEMMA NobodyHolds ==
    ASSUME SafeInv, NEW c \in Combined, d_states[index(c)].st \in {"EMPTY", "FULL"}
    PROVE  \A u \in Thread : \A d \in Held(u) : index(d) # index(c)
BY HeldStates

\* An element one thread holds is held by no other.
LEMMA NobodyElseHolds ==
    ASSUME SafeInv, NEW t \in Thread, NEW c \in Held(t)
    PROVE  \A u \in Thread \ {t} : \A d \in Held(u) : index(d) # index(c)
BY DEF SafeInv, ExclusiveElement

LEMMA WaitersKept ==
    ASSUME SafeInv, NEW t \in Thread, SameOthers(t), UNCHANGED waitVars,
           pc[t] \notin Waits, pc'[t] \notin Waits
    PROVE  WaitersCounted'
<1>1. \A o : t \notin Waiting(o) /\ t \notin Waiting(o)'
  BY DEF Waiting
<1>2. Waiting("pushBack")' = Waiting("pushBack") /\ Waiting("popFront")' = Waiting("popFront")
  BY <1>1, WaitingSame
<1> QED BY <1>2 DEF SafeInv, WaitersCounted, waitVars

LEMMA ReservePushAcquireKeeps ==
    ASSUME SafeInv, NEW t \in Thread, UNCHANGED <<queueVars, callVars>>,
           ReservePushAcquire(t)
    PROVE  SafeInv'
<1> DEFINE c == loaded[t]
<1>0. Types /\ CallRight(t) /\ c \in Combined /\ generation(c) \in Gen
  BY Registers, IndexTypes DEF SafeInv, ThreadsRight
<1>1. /\ pc[t] = "push_swap" /\ pc' = [pc EXCEPT ![t] = "push_advance"]
      /\ own' = [own EXCEPT ![t] = c] /\ Holds(c, "EMPTY")
      /\ SetState(c, generation(c), "WRITING")
      /\ UNCHANGED <<d_pushIndex, d_popIndex, loaded, saved, result>>
  BY DEF ReservePushAcquire, Goto
<1>2. /\ index(c) \in Slot /\ d_states' \in [Slot -> [gen : Gen, st : State]]
      /\ d_states'[index(c)] = [gen |-> generation(c), st |-> "WRITING"]
      /\ \A j \in Slot \ {index(c)} : d_states'[j] = d_states[j]
  BY <1>0, <1>1, SwapTypes DEF State
<1>3. /\ pc'[t] = "push_advance" /\ own'[t] = c /\ c # None
      /\ op' = op /\ value' = value /\ result' = result
  BY <1>0, <1>1, IndexTypes DEF Types, ManagerTypeOK, callVars
<1>4. Types' /\ SameOthers(t)
  BY <1>0, <1>1, <1>2, <1>3 DEF Types, ManagerTypeOK, QueuePC, ManagerPC, SameOthers,
     callVars, queueVars, waitVars
<1>5. CallRight(t)'
  BY <1>0, <1>1, <1>3 DEF CallRight, PushCalls, PopCalls, Clears, Aborts, Waits
<1>6. HeldRight(t)'
  BY <1>0, <1>1, <1>2, <1>3
     DEF CallRight, HeldRight, Holds, Mode, Clearing, PushCalls, index, generation
<1>7. \A d \in Held(t)' : index(d) = index(c)
  BY <1>1, <1>3 DEF Held
<1>8. /\ \A u \in Thread : \A d \in Held(u) : index(d) # index(c)
      /\ d_elements' = d_elements /\ d_elements[index(c)] = NoValue
  BY <1>0, <1>1, <1>2, NobodyHolds DEF Holds, SafeInv, ElementLifetime, queueVars
<1>9. WaitersCounted'
  BY <1>1, <1>3, <1>4, WaitersKept DEF queueVars, Waits
<1> HIDE DEF c
<1> QED BY <1>2, <1>4, <1>5, <1>6, <1>7, <1>8, <1>9, StepKeeps

LEMMA ReservePopAcquireKeeps ==
    ASSUME SafeInv, NEW t \in Thread, UNCHANGED <<queueVars, callVars>>,
           ReservePopAcquire(t)
    PROVE  SafeInv'
<1> DEFINE c == loaded[t]
<1>0. Types /\ CallRight(t) /\ c \in Combined /\ generation(c) \in Gen
  BY Registers, IndexTypes DEF SafeInv, ThreadsRight
<1>1. /\ pc[t] = "pop_swap" /\ pc' = [pc EXCEPT ![t] = "pop_advance"]
      /\ own' = [own EXCEPT ![t] = c] /\ Holds(c, "FULL")
      /\ SetState(c, generation(c), "READING")
      /\ UNCHANGED <<d_pushIndex, d_popIndex, loaded, saved, result>>
  BY DEF ReservePopAcquire, Goto
<1>2. /\ index(c) \in Slot /\ d_states' \in [Slot -> [gen : Gen, st : State]]
      /\ d_states'[index(c)] = [gen |-> generation(c), st |-> "READING"]
      /\ \A j \in Slot \ {index(c)} : d_states'[j] = d_states[j]
  BY <1>0, <1>1, SwapTypes DEF State
<1>3. /\ pc'[t] = "pop_advance" /\ own'[t] = c /\ c # None
      /\ op' = op /\ value' = value /\ result' = result
  BY <1>0, <1>1, IndexTypes DEF Types, ManagerTypeOK, callVars
<1>4. Types' /\ SameOthers(t)
  BY <1>0, <1>1, <1>2, <1>3 DEF Types, ManagerTypeOK, QueuePC, ManagerPC, SameOthers,
     callVars, queueVars, waitVars
<1>5. CallRight(t)'
  BY <1>0, <1>1, <1>3 DEF CallRight, PushCalls, PopCalls, Clears, Aborts, Waits
<1>6. HeldRight(t)'
  <2>1. op[t] \notin Pushing
    BY <1>0, <1>1 DEF CallRight, PopCalls, Popping, Pushing
  <2> QED BY <1>2, <1>3, <2>1 DEF HeldRight, Holds, Mode, Clearing, index, generation
<1>7. \A d \in Held(t)' : index(d) = index(c)
  BY <1>1, <1>3 DEF Held
<1>8. /\ \A u \in Thread : \A d \in Held(u) : index(d) # index(c)
      /\ d_elements' = d_elements
  BY <1>0, <1>1, <1>2, NobodyHolds DEF Holds, queueVars
<1>9. WaitersCounted'
  BY <1>1, <1>3, <1>4, WaitersKept DEF queueVars, Waits
<1> HIDE DEF c
<1> QED BY <1>2, <1>4, <1>5, <1>6, <1>7, <1>8, <1>9, StepKeeps

LEMMA ReserveClearAcquireKeeps ==
    ASSUME SafeInv, NEW t \in Thread, UNCHANGED <<queueVars, callVars>>,
           ReserveClearSwap(t), ~UNCHANGED d_states
    PROVE  SafeInv'
<1> DEFINE c == loaded[t]
<1>0. Types /\ CallRight(t) /\ HeldRight(t) /\ c \in Combined /\ generation(c) \in Gen
  BY Registers, IndexTypes DEF SafeInv, ThreadsRight
<1>1. /\ pc[t] = "clear_swap" /\ pc' = [pc EXCEPT ![t] = "clear_advance"]
      /\ Holds(c, "FULL") /\ SetState(c, generation(c), "READING")
      /\ UNCHANGED <<d_pushIndex, d_popIndex, loaded, saved, own, result>>
  BY DEF ReserveClearSwap, Goto
<1>2. /\ index(c) \in Slot /\ d_states' \in [Slot -> [gen : Gen, st : State]]
      /\ d_states'[index(c)] = [gen |-> generation(c), st |-> "READING"]
      /\ \A j \in Slot \ {index(c)} : d_states'[j] = d_states[j]
  BY <1>0, <1>1, SwapTypes DEF State
<1>3. /\ pc'[t] = "clear_advance" /\ op' = op /\ value' = value
      /\ own' = own /\ loaded' = loaded /\ result' = result
  BY <1>0, <1>1 DEF Types, callVars
<1>4. Types' /\ SameOthers(t)
  BY <1>0, <1>1, <1>2, <1>3 DEF Types, ManagerTypeOK, QueuePC, ManagerPC, SameOthers,
     callVars, queueVars, waitVars
<1>5. CallRight(t)'
  BY <1>0, <1>1, <1>3 DEF CallRight, PushCalls, PopCalls, Clears, Aborts, Waits
<1>8. /\ \A u \in Thread : \A d \in Held(u) : index(d) # index(c)
      /\ d_elements' = d_elements
  BY <1>0, <1>1, <1>2, NobodyHolds DEF Holds, queueVars
<1>a. own[t] \in Held(t) /\ index(own[t]) \in Slot /\ index(own[t]) # index(c)
  <2>1. own[t] # None
    BY <1>0, <1>1 DEF CallRight, Clears
  <2>2. own[t] \in Held(t)
    BY <1>0, <2>1, HeldTypes
  <2> QED BY <2>2, <1>8, HeldStates
<1>6. HeldRight(t)'
  <2>1. Mode(t)' = Mode(t) /\ d_states'[index(own[t])] = d_states[index(own[t])]
    BY <1>1, <1>2, <1>3, <1>a DEF Mode
  <2>2. own[t] # None => Holds(own[t], Mode(t))'
    BY <1>0, <1>3, <2>1 DEF HeldRight, Holds, index, generation
  <2>3. Holds(loaded[t], "READING")'
    BY <1>2, <1>3 DEF Holds, index, generation
  <2> QED BY <1>3, <2>2, <2>3 DEF HeldRight
<1>7. \A d \in Held(t)' : d \in Held(t) \/ index(d) = index(c)
  BY <1>3 DEF Held
<1>9. WaitersCounted'
  BY <1>1, <1>3, <1>4, WaitersKept DEF queueVars, Waits
<1> HIDE DEF c
<1> QED BY <1>2, <1>4, <1>5, <1>6, <1>7, <1>8, <1>9, StepKeeps

LEMMA AbortReadingKeeps ==
    ASSUME SafeInv, NEW t \in Thread, UNCHANGED <<queueVars, callVars>>, AbortReading(t)
    PROVE  SafeInv'
<1> DEFINE c == own[t]
<1>0. Types /\ CallRight(t) /\ HeldRight(t)
  BY DEF SafeInv, ThreadsRight
<1>1. /\ pc[t] = "abort_reading" /\ pc' = [pc EXCEPT ![t] = "abort_advance"]
      /\ SetState(c, generation(c), "READING")
      /\ UNCHANGED <<d_pushIndex, d_popIndex, loaded, saved, own, result>>
  BY DEF AbortReading, Goto
<1>a. c \in Combined /\ c # None /\ c \in Held(t) /\ generation(c) \in Gen
      /\ op[t] \in Pushing
  BY <1>0, <1>1, Registers, IndexTypes, HeldTypes DEF CallRight, Aborts
<1>2. /\ index(c) \in Slot /\ d_states' \in [Slot -> [gen : Gen, st : State]]
      /\ d_states'[index(c)] = [gen |-> generation(c), st |-> "READING"]
      /\ \A j \in Slot \ {index(c)} : d_states'[j] = d_states[j]
  BY <1>0, <1>1, <1>a, SwapTypes DEF State
<1>3. /\ pc'[t] = "abort_advance" /\ op' = op /\ value' = value
      /\ own' = own /\ loaded' = loaded /\ result' = result
  BY <1>0, <1>1 DEF Types, callVars
<1>4. Types' /\ SameOthers(t)
  BY <1>0, <1>1, <1>2, <1>3 DEF Types, ManagerTypeOK, QueuePC, ManagerPC, SameOthers,
     callVars, queueVars, waitVars
<1>5. CallRight(t)'
  BY <1>0, <1>1, <1>3 DEF CallRight, PushCalls, PopCalls, Clears, Aborts, Waits
<1>b. d_elements[index(c)] = NoValue /\ d_elements' = d_elements
  <2>1. Holds(c, "WRITING")
    BY <1>0, <1>1, <1>a DEF HeldRight, Mode
  <2> QED BY <1>2, <2>1 DEF Holds, SafeInv, ElementLifetime, queueVars
<1>6. HeldRight(t)'
  BY <1>2, <1>3, <1>b DEF HeldRight, Holds, Mode, Clearing, index, generation
<1>7. \A d \in Held(t)' : d \in Held(t)
  BY <1>1, <1>3 DEF Held
<1>8. \A u \in Thread \ {t} : \A d \in Held(u) : index(d) # index(c)
  BY <1>a, NobodyElseHolds
<1>9. WaitersCounted'
  BY <1>1, <1>3, <1>4, WaitersKept DEF queueVars, Waits
<1> HIDE DEF c
<1> QED BY <1>2, <1>4, <1>5, <1>6, <1>7, <1>8, <1>9, <1>b, StepKeeps

LEMMA AbortEmptyKeeps ==
    ASSUME SafeInv, NEW t \in Thread, UNCHANGED <<queueVars, callVars>>, AbortEmpty(t)
    PROVE  SafeInv'
<1> DEFINE c == own[t]
           g == nextGeneration(generation(c))
<1>0. Types /\ CallRight(t) /\ HeldRight(t)
  BY DEF SafeInv, ThreadsRight
<1>1. /\ pc[t] = "abort_empty" /\ pc' = [pc EXCEPT ![t] = "ret"]
      /\ SetState(c, g, "EMPTY") /\ own' = [own EXCEPT ![t] = None]
      /\ UNCHANGED <<d_pushIndex, d_popIndex, loaded, saved, result>>
  BY DEF AbortEmpty, Goto
<1>a. c \in Combined /\ c \in Held(t) /\ g \in Gen /\ result[t] = "end"
  BY <1>0, <1>1, Registers, IndexTypes, NextGenerationType, HeldTypes DEF CallRight, Aborts
<1>2. /\ index(c) \in Slot /\ d_states' \in [Slot -> [gen : Gen, st : State]]
      /\ d_states'[index(c)] = [gen |-> g, st |-> "EMPTY"]
      /\ \A j \in Slot \ {index(c)} : d_states'[j] = d_states[j]
  BY <1>0, <1>1, <1>a, SwapTypes DEF State
<1>3. /\ pc'[t] = "ret" /\ op' = op /\ value' = value
      /\ own'[t] = None /\ loaded' = loaded /\ result' = result
  BY <1>0, <1>1 DEF Types, ManagerTypeOK, callVars
<1>4. Types' /\ SameOthers(t)
  BY <1>0, <1>1, <1>2, <1>3 DEF Types, ManagerTypeOK, QueuePC, ManagerPC, SameOthers,
     callVars, queueVars, waitVars
<1>5. CallRight(t)'
  BY <1>0, <1>1, <1>3, <1>a DEF CallRight, PushCalls, PopCalls, Clears, Aborts, Waits
<1>6. HeldRight(t)'
  BY <1>3 DEF HeldRight, Clearing
<1>7. Held(t)' = {}
  BY <1>3 DEF Held
<1>8. \A u \in Thread \ {t} : \A d \in Held(u) : index(d) # index(c)
  BY <1>a, NobodyElseHolds
<1>b. d_elements[index(c)] = NoValue /\ d_elements' = d_elements
  BY <1>0, <1>1 DEF HeldRight, queueVars
<1>9. WaitersCounted'
  BY <1>1, <1>3, <1>4, WaitersKept DEF queueVars, Waits
<1> HIDE DEF c, g
<1> QED BY <1>2, <1>4, <1>5, <1>6, <1>7, <1>8, <1>9, <1>b, StepKeeps

LEMMA ManagerKeeps ==
    ASSUME SafeInv, NEW t \in Thread, ManagerCall(t)
    PROVE  SafeInv'
BY ReservePushQuiet, ReservePushAcquireKeeps, ReservePopQuiet, ReservePopAcquireKeeps,
   ReserveClearQuiet, ReserveClearAcquireKeeps, AbortReadingKeeps, AbortAdvanceKeeps,
   AbortEmptyKeeps
   DEF ManagerCall, ManagerStep, reservePushIndex, ReservePushSwap, reservePopIndex,
       ReservePopSwap, reservePopIndexForClear, abortPushIndexReservation

-----------------------------------------------------------------------------
(* The steps of the queue that leave the elements alone *)

\* Thread t is at none of the steps at which the invariant asks for more.
LEMMA QueueQuiet ==
    ASSUME SafeInv, Types', NEW t \in Thread, SameOthers(t), CallRight(t)',
           UNCHANGED <<d_states, d_elements, own>>,
           UNCHANGED <<d_numWaitingPoppers, d_numWaitingPushers>>,
           \A o \in Blocking : t \in Waiting(o)' <=> t \in Waiting(o),
           ~Clearing(t)', pc'[t] \notin {"abort_advance", "abort_empty"},
           own[t] # None => Mode(t)' = Mode(t)
    PROVE  SafeInv'
<1>1. \A o \in Blocking : Waiting(o)' = Waiting(o)
  BY WaitingSame
<1>2. WaitersCounted'
  BY <1>1 DEF SafeInv, WaitersCounted, Blocking
<1>3. HeldRight(t)'
  BY DEF SafeInv, ThreadsRight, HeldRight, Holds, index, generation
<1>4. Held(t)' \subseteq Held(t)
  BY DEF Held, Clearing
<1> QED BY <1>2, <1>3, <1>4, QuietKeeps

\* Variables that a step of the queue leaves alone, all but pc.
LEMMA FinishKeeps ==
    ASSUME SafeInv, NEW t \in Thread, NEW from \in QueuePC, Finish(t, from),
           UNCHANGED <<sharedVars, d_elements, d_numWaitingPoppers, d_numWaitingPushers, value>>,
           d_popControlSema' \in Nat, d_pushControlSema' \in Nat,
           own[t] = None, pc[t] \notin Waits
    PROVE  SafeInv'
<1>0. Types /\ CallRight(t)
  BY DEF SafeInv, ThreadsRight
<1>1. 0 \in Combined /\ 0 \in Nat /\ 0 \in 0 .. Capacity
  BY Words, Constants
<1>2. Types'
  BY <1>0, <1>1 DEF Types, ManagerTypeOK, Finish, Goto, QueuePC, ManagerPC, sharedVars, Result
<1>3. SameOthers(t)
  BY <1>0 DEF Types, ManagerTypeOK, Finish, Goto, SameOthers
<1>4. pc'[t] = "idle" /\ op'[t] = "none" /\ own' = own /\ result'[t] = "none"
  BY <1>0 DEF Types, ManagerTypeOK, Finish, Goto
<1>5. CallRight(t)'
  BY <1>4 DEF CallRight, PushCalls, PopCalls, Clears, Aborts, Waits, Pushing
<1>6. ~Clearing(t)' /\ \A o : t \notin Waiting(o) /\ t \notin Waiting(o)'
  BY <1>4 DEF Clearing, Waiting, Waits
<1> QED BY <1>2, <1>3, <1>4, <1>5, <1>6, QueueQuiet DEF sharedVars

\* Steps that change only the program counter, the thread's own counters and
\* the semaphores.
LEMMA MoveKeeps ==
    ASSUME SafeInv, NEW t \in Thread, NEW to \in QueuePC,
           pc' = [pc EXCEPT ![t] = to],
           UNCHANGED <<sharedVars, saved, own, result, d_elements, d_numWaitingPoppers,
                       d_numWaitingPushers, role, op, calls, value>>,
           loaded' \in [Thread -> Combined], loaded' = [loaded EXCEPT ![t] = loaded'[t]],
           d_popControlSema' \in Nat, d_pushControlSema' \in Nat,
           count' \in [Thread -> Nat], limit' \in [Thread -> 0 .. Capacity],
           CallRight(t)', pc[t] \in Waits <=> to \in Waits,
           to \notin {"clear_advance", "clear_ret", "abort_advance", "abort_empty"},
           pc[t] \notin {"abort_advance", "abort_empty"}
    PROVE  SafeInv'
<1>0. Types
  BY DEF SafeInv
<1>2. Types'
  BY <1>0 DEF Types, ManagerTypeOK, sharedVars
<1>3. SameOthers(t)
  BY <1>0 DEF Types, ManagerTypeOK, SameOthers
<1>4. pc'[t] = to
  BY <1>0 DEF Types
<1>5. ~Clearing(t)' /\ \A o : t \in Waiting(o) <=> t \in Waiting(o)'
  BY <1>4 DEF Clearing, Waiting
<1>6. Mode(t)' = Mode(t)
  BY <1>4 DEF Mode
<1> QED BY <1>2, <1>3, <1>4, <1>5, <1>6, QueueQuiet DEF sharedVars

LEMMA LoadedSame ==
    ASSUME Types, NEW t \in Thread, UNCHANGED loaded
    PROVE  loaded' \in [Thread -> Combined] /\ loaded' = [loaded EXCEPT ![t] = loaded'[t]]
BY DEF Types, ManagerTypeOK

LEMMA CheckPoppersKeeps ==
    ASSUME SafeInv, NEW t \in Thread, CheckPoppers(t)
    PROVE  SafeInv'
<1>0. Types /\ CallRight(t)
  BY DEF SafeInv, ThreadsRight
<1>1. pc[t] = "check_poppers" /\ UNCHANGED <<sharedVars, queueVars, value>>
  BY DEF CheckPoppers, Finish, Goto
<1>2. /\ own[t] = None /\ pc[t] \notin Waits
      /\ d_popControlSema' \in Nat /\ d_pushControlSema' \in Nat
  BY <1>0, <1>1 DEF CallRight, Clears, Aborts, Waits, Types, queueVars, waitVars
<1>3. CASE Finish(t, "check_poppers")
  BY <1>1, <1>2, <1>3, FinishKeeps DEF QueuePC, queueVars, waitVars
<1>4. CASE pc' = [pc EXCEPT ![t] = "post_popper"] /\ OnlyMoves
           /\ UNCHANGED <<role, op, calls, count, limit>>
  <2>1. CallRight(t)'
    BY <1>0, <1>1, <1>2, <1>4
       DEF CallRight, PushCalls, PopCalls, Clears, Aborts, Waits, OnlyMoves, Types
  <2> QED BY <1>0, <1>1, <1>2, <1>4, <2>1, MoveKeeps, LoadedSame
          DEF QueuePC, Waits, queueVars, waitVars, OnlyMoves, Types
<1> QED BY <1>3, <1>4 DEF CheckPoppers, Goto

LEMMA PostPopperKeeps ==
    ASSUME SafeInv, NEW t \in Thread, PostPopper(t)
    PROVE  SafeInv'
<1>0. Types /\ CallRight(t)
  BY DEF SafeInv, ThreadsRight
<1>1. /\ pc[t] = "post_popper" /\ Finish(t, "post_popper")
      /\ d_popControlSema' = d_popControlSema + 1
      /\ UNCHANGED <<sharedVars, d_elements, d_numWaitingPoppers,
                     d_numWaitingPushers, d_pushControlSema, value>>
  BY DEF PostPopper, Finish, Goto
<1>2. /\ own[t] = None /\ pc[t] \notin Waits
      /\ d_popControlSema' \in Nat /\ d_pushControlSema' \in Nat
  BY <1>0, <1>1 DEF CallRight, Clears, Aborts, Waits, Types
<1> QED BY <1>1, <1>2, FinishKeeps DEF QueuePC

LEMMA CheckPushersKeeps ==
    ASSUME SafeInv, NEW t \in Thread, CheckPushers(t)
    PROVE  SafeInv'
<1>0. Types /\ CallRight(t)
  BY DEF SafeInv, ThreadsRight
<1>1. pc[t] = "check_pushers" /\ UNCHANGED <<sharedVars, queueVars, value>>
  BY DEF CheckPushers, Finish, Goto
<1>2. /\ own[t] = None /\ pc[t] \notin Waits
      /\ d_popControlSema' \in Nat /\ d_pushControlSema' \in Nat
  BY <1>0, <1>1 DEF CallRight, Clears, Aborts, Waits, Types, queueVars, waitVars
<1>3. CASE Finish(t, "check_pushers")
  BY <1>1, <1>2, <1>3, FinishKeeps DEF QueuePC, queueVars, waitVars
<1>4. CASE pc' = [pc EXCEPT ![t] = "post_pusher"] /\ OnlyMoves
           /\ UNCHANGED <<role, op, calls, count, limit>>
  <2>1. CallRight(t)'
    BY <1>0, <1>1, <1>2, <1>4
       DEF CallRight, PushCalls, PopCalls, Clears, Aborts, Waits, OnlyMoves, Types
  <2> QED BY <1>0, <1>1, <1>2, <1>4, <2>1, MoveKeeps, LoadedSame
          DEF QueuePC, Waits, queueVars, waitVars, OnlyMoves, Types
<1> QED BY <1>3, <1>4 DEF CheckPushers, Goto

LEMMA PostPusherKeeps ==
    ASSUME SafeInv, NEW t \in Thread, PostPusher(t)
    PROVE  SafeInv'
<1>0. Types /\ CallRight(t)
  BY DEF SafeInv, ThreadsRight
<1>1. /\ pc[t] = "post_pusher" /\ Finish(t, "post_pusher")
      /\ d_pushControlSema' = d_pushControlSema + 1
      /\ UNCHANGED <<sharedVars, d_elements, d_numWaitingPoppers,
                     d_popControlSema, d_numWaitingPushers, value>>
  BY DEF PostPusher, Finish, Goto
<1>2. /\ own[t] = None /\ pc[t] \notin Waits
      /\ d_popControlSema' \in Nat /\ d_pushControlSema' \in Nat
  BY <1>0, <1>1 DEF CallRight, Clears, Aborts, Waits, Types
<1> QED BY <1>1, <1>2, FinishKeeps DEF QueuePC

LEMMA ReportFailureKeeps ==
    ASSUME SafeInv, NEW t \in Thread, ReportFailure(t)
    PROVE  SafeInv'
<1>0. Types
  BY DEF SafeInv
<1>1. /\ pc[t] = "ret" /\ Finish(t, "ret") /\ own[t] = None
      /\ UNCHANGED <<sharedVars, queueVars, value>>
  BY DEF ReportFailure, Finish, Goto
<1>2. /\ pc[t] \notin Waits
      /\ d_popControlSema' \in Nat /\ d_pushControlSema' \in Nat
  BY <1>0, <1>1 DEF Waits, Types, queueVars, waitVars
<1> QED BY <1>1, <1>2, FinishKeeps DEF QueuePC, ManagerPC, queueVars, waitVars

LEMMA PostPushersKeeps ==
    ASSUME SafeInv, NEW t \in Thread, PostPushers(t)
    PROVE  SafeInv'
<1>0. Types /\ CallRight(t)
  BY DEF SafeInv, ThreadsRight
<1>1. /\ pc[t] = "post_pushers"
      /\ UNCHANGED <<sharedVars, d_elements, d_numWaitingPoppers,
                     d_popControlSema, d_numWaitingPushers, value>>
  BY DEF PostPushers, Finish, Goto
<1>2. /\ own[t] = None /\ pc[t] \notin Waits /\ count[t] \in Nat
      /\ d_popControlSema \in Nat /\ d_pushControlSema \in Nat
  BY <1>0, <1>1 DEF CallRight, Clears, Aborts, Waits, Types
<1>3. CASE Finish(t, "post_pushers") /\ UNCHANGED d_pushControlSema
  BY <1>1, <1>2, <1>3, FinishKeeps DEF QueuePC
<1>4. CASE /\ count[t] > 0 /\ pc' = [pc EXCEPT ![t] = "post_pushers"]
           /\ count' = [count EXCEPT ![t] = @ - 1]
           /\ d_pushControlSema' = d_pushControlSema + 1
           /\ OnlyMoves /\ UNCHANGED <<role, op, calls, limit>>
  <2>1. CallRight(t)'
    BY <1>0, <1>1, <1>2, <1>4
       DEF CallRight, PushCalls, PopCalls, Clears, Aborts, Waits, OnlyMoves, Types
  <2>2. count' \in [Thread -> Nat] /\ d_pushControlSema' \in Nat
    BY <1>0, <1>2, <1>4 DEF Types
  <2> QED BY <1>0, <1>1, <1>2, <1>4, <2>1, <2>2, MoveKeeps, LoadedSame
          DEF QueuePC, Waits, OnlyMoves, Types
<1> QED BY <1>3, <1>4 DEF PostPushers, Goto

LEMMA ThrowKeeps ==
    ASSUME SafeInv, NEW t \in Thread, Throw(t)
    PROVE  SafeInv'
<1>0. Types /\ CallRight(t)
  BY DEF SafeInv, ThreadsRight
<1>1. /\ op[t] \in Pushing /\ own[t] # None
      /\ pc[t] = "ret" /\ pc' = [pc EXCEPT ![t] = "clear_load"]
      /\ count' = [count EXCEPT ![t] = 1] /\ OnlyMoves
      /\ UNCHANGED <<sharedVars, queueVars, role, op, calls, value, limit>>
  BY DEF Throw, Goto
<1>2. CallRight(t)'
  BY <1>0, <1>1 DEF CallRight, PushCalls, PopCalls, Clears, Aborts, Waits, OnlyMoves, Types
<1>3. count' \in [Thread -> Nat]
  BY <1>0, <1>1 DEF Types
<1> QED BY <1>0, <1>1, <1>2, <1>3, MoveKeeps, LoadedSame
        DEF QueuePC, ManagerPC, Waits, OnlyMoves, Types, queueVars, waitVars

\* Steps that move the program counter alone.
LEMMA OnlyMovesKeeps ==
    ASSUME SafeInv, NEW t \in Thread, NEW to \in QueuePC,
           pc' = [pc EXCEPT ![t] = to], OnlyMoves,
           UNCHANGED <<sharedVars, queueVars, callVars>>,
           CallRight(t)', pc[t] \in Waits <=> to \in Waits,
           to \notin {"clear_advance", "clear_ret", "abort_advance", "abort_empty"},
           pc[t] \notin {"abort_advance", "abort_empty"}
    PROVE  SafeInv'
<1>0. Types
  BY DEF SafeInv
<1> QED BY <1>0, MoveKeeps, LoadedSame
        DEF OnlyMoves, Types, queueVars, waitVars, callVars

LEMMA ClearEndKeeps ==
    ASSUME SafeInv, NEW t \in Thread, ClearEnd(t)
    PROVE  SafeInv'
<1>0. Types /\ CallRight(t)
  BY DEF SafeInv, ThreadsRight
<1>1. /\ result[t] = "end" /\ pc[t] = "clear_ret"
      /\ pc' = [pc EXCEPT ![t] = "abort_reading"] /\ OnlyMoves
      /\ UNCHANGED <<sharedVars, queueVars, callVars>>
  BY DEF ClearEnd, Goto
<1>2. CallRight(t)'
  BY <1>0, <1>1
     DEF CallRight, PushCalls, PopCalls, Clears, Aborts, Waits, OnlyMoves, Types, callVars
<1> QED BY <1>1, <1>2, OnlyMovesKeeps DEF QueuePC, ManagerPC, Waits

LEMMA AbortedKeeps ==
    ASSUME SafeInv, NEW t \in Thread, Aborted(t)
    PROVE  SafeInv'
<1>0. Types /\ CallRight(t)
  BY DEF SafeInv, ThreadsRight
<1>1. /\ result[t] = "end" /\ pc[t] = "ret"
      /\ pc' = [pc EXCEPT ![t] = "post_pushers"] /\ OnlyMoves
      /\ UNCHANGED <<sharedVars, queueVars, callVars>>
  BY DEF Aborted, Goto
<1>2. CallRight(t)'
  BY <1>0, <1>1
     DEF CallRight, PushCalls, PopCalls, Clears, Aborts, Waits, OnlyMoves, Types, callVars
<1> QED BY <1>1, <1>2, OnlyMovesKeeps DEF QueuePC, Waits

LEMMA LengthLoadPushKeeps ==
    ASSUME SafeInv, NEW t \in Thread, LengthLoadPush(t)
    PROVE  SafeInv'
<1>0. Types /\ CallRight(t)
  BY DEF SafeInv, ThreadsRight
<1>1. /\ pc[t] = "length_push" /\ pc' = [pc EXCEPT ![t] = "length_pop"]
      /\ loaded' = [loaded EXCEPT ![t] = d_pushIndex.index]
      /\ UNCHANGED <<sharedVars, saved, own, result, queueVars, callVars>>
  BY DEF LengthLoadPush, Goto
<1>2. CallRight(t)'
  BY <1>0, <1>1
     DEF CallRight, PushCalls, PopCalls, Clears, Aborts, Waits, Types, callVars
<1>3. loaded' \in [Thread -> Combined] /\ loaded' = [loaded EXCEPT ![t] = loaded'[t]]
  BY <1>0, <1>1, Registers DEF Types, ManagerTypeOK
<1> QED BY <1>0, <1>1, <1>2, <1>3, MoveKeeps
        DEF QueuePC, Waits, Types, queueVars, waitVars, callVars

LEMMA LengthLoadPopKeeps ==
    ASSUME SafeInv, NEW t \in Thread, LengthLoadPop(t) \/ CheckEnabled(t)
    PROVE  SafeInv'
<1>0. Types /\ CallRight(t)
  BY DEF SafeInv, ThreadsRight
<1>1. PICK to \in {"check_enabled", "wait", "leave_wait"} :
         /\ pc[t] \in {"length_pop", "check_enabled"} /\ pc' = [pc EXCEPT ![t] = to]
         /\ OnlyMoves /\ UNCHANGED <<sharedVars, queueVars, callVars>>
  BY DEF LengthLoadPop, CheckEnabled, Goto
<1>2. CallRight(t)'
  BY <1>0, <1>1
     DEF CallRight, PushCalls, PopCalls, Clears, Aborts, Waits, OnlyMoves, Types, callVars
<1> QED BY <1>1, <1>2, OnlyMovesKeeps DEF QueuePC, Waits

LEMMA WaitKeeps ==
    ASSUME SafeInv, NEW t \in Thread, Wait(t)
    PROVE  SafeInv'
<1>0. Types /\ CallRight(t)
  BY DEF SafeInv, ThreadsRight
<1>1. /\ pc[t] = "wait" /\ pc' = [pc EXCEPT ![t] = "leave_wait"] /\ OnlyMoves
      /\ UNCHANGED <<sharedVars, d_elements, d_numWaitingPoppers,
                     d_numWaitingPushers, callVars>>
  BY DEF Wait, Goto
<1>2. CallRight(t)'
  BY <1>0, <1>1
     DEF CallRight, PushCalls, PopCalls, Clears, Aborts, Waits, OnlyMoves, Types, callVars
<1>3. d_popControlSema' \in Nat /\ d_pushControlSema' \in Nat
  BY <1>0 DEF Wait, SemaOf, Types
<1> QED BY <1>0, <1>1, <1>2, <1>3, MoveKeeps, LoadedSame
        DEF QueuePC, Waits, OnlyMoves, Types, callVars

LEMMA RemoveLoadPushKeeps ==
    ASSUME SafeInv, NEW t \in Thread, RemoveLoadPush(t)
    PROVE  SafeInv'
<1>0. Types /\ CallRight(t)
  BY DEF SafeInv, ThreadsRight
<1>1. /\ pc[t] = "remove_push" /\ pc' = [pc EXCEPT ![t] = "remove_pop"]
      /\ loaded' = [loaded EXCEPT ![t] = d_pushIndex.index]
      /\ UNCHANGED <<sharedVars, saved, own, result, queueVars, callVars>>
  BY DEF RemoveLoadPush, Goto
<1>2. CallRight(t)'
  BY <1>0, <1>1
     DEF CallRight, PushCalls, PopCalls, Clears, Aborts, Waits, Types, callVars
<1>3. loaded' \in [Thread -> Combined] /\ loaded' = [loaded EXCEPT ![t] = loaded'[t]]
  BY <1>0, <1>1, Registers DEF Types, ManagerTypeOK
<1> QED BY <1>0, <1>1, <1>2, <1>3, MoveKeeps
        DEF QueuePC, Waits, Types, queueVars, waitVars, callVars

\* removeAll has read the indices, and pops the first element or is done.
LEMMA RemoveLoadPopKeeps ==
    ASSUME SafeInv, NEW t \in Thread, RemoveLoadPop(t)
    PROVE  SafeInv'
<1> DEFINE n == lengthOf(loaded[t], d_popIndex)
           to == IF 0 < n THEN "pop_load" ELSE "count_pushers"
<1>0. Types /\ CallRight(t) /\ n \in 0 .. Capacity
  BY Registers, LengthType DEF SafeInv, ThreadsRight
<1>1. /\ pc[t] = "remove_pop" /\ pc' = [pc EXCEPT ![t] = to]
      /\ count' = [count EXCEPT ![t] = 0 + 1] /\ limit' = [limit EXCEPT ![t] = n]
      /\ saved' = [saved EXCEPT ![t] = None] /\ to \in {"pop_load", "count_pushers"}
      /\ UNCHANGED <<sharedVars, loaded, own, result, queueVars, role, op, calls, value>>
  BY DEF RemoveLoadPop, RemoveNext, Goto
<1>a. op[t] = "removeAll"
  BY <1>0, <1>1 DEF CallRight
<1> HIDE DEF n, to
<1>2. /\ pc'[t] = to /\ own' = own /\ op' = op /\ value' = value /\ result' = result
      /\ d_states' = d_states /\ d_elements' = d_elements
      /\ d_numWaitingPoppers' = d_numWaitingPoppers
      /\ d_numWaitingPushers' = d_numWaitingPushers
  BY <1>0, <1>1 DEF Types, sharedVars, queueVars, waitVars
<1>3. Types' /\ SameOthers(t)
  BY <1>0, <1>1 DEF Types, ManagerTypeOK, QueuePC, ManagerPC, SameOthers, sharedVars,
     queueVars, waitVars
<1>4. CallRight(t)'
  BY <1>0, <1>1, <1>2, <1>a DEF CallRight, PushCalls, PopCalls, Clears, Aborts, Waits, Pushing
<1>5. own[t] = None
  BY <1>0, <1>1 DEF CallRight, Clears, Aborts
<1>6. ~Clearing(t)' /\ \A o : t \notin Waiting(o) /\ t \notin Waiting(o)'
  BY <1>1, <1>2 DEF Clearing, Waiting, Waits
<1> QED BY <1>1, <1>2, <1>3, <1>4, <1>5, <1>6, QueueQuiet

LEMMA RemoveFoundEmptyKeeps ==
    ASSUME SafeInv, NEW t \in Thread, RemoveFoundEmpty(t)
    PROVE  SafeInv'
<1>0. Types /\ CallRight(t)
  BY DEF SafeInv, ThreadsRight
<1>1. /\ own[t] = None /\ pc[t] = "ret"
      /\ pc' = [pc EXCEPT ![t] = "count_pushers"] /\ OnlyMoves
      /\ UNCHANGED <<sharedVars, queueVars, callVars>>
  BY DEF RemoveFoundEmpty, Goto
<1>2. CallRight(t)'
  BY <1>0, <1>1
     DEF CallRight, PushCalls, PopCalls, Clears, Aborts, Waits, OnlyMoves, Types, callVars
<1> QED BY <1>1, <1>2, OnlyMovesKeeps DEF QueuePC, Waits

\* removeAll and disable have counted the pushers they are about to wake.
LEMMA CountPushersKeeps ==
    ASSUME SafeInv, NEW t \in Thread, RemoveCountPushers(t) \/ DisableCountPushers(t)
    PROVE  SafeInv'
<1>0. Types /\ CallRight(t)
  BY DEF SafeInv, ThreadsRight
<1>1. /\ pc[t] \in {"count_pushers", "disabled"}
      /\ pc' = [pc EXCEPT ![t] = "post_pushers"] /\ OnlyMoves
      /\ UNCHANGED <<sharedVars, queueVars, role, op, calls, value, limit>>
  BY DEF RemoveCountPushers, DisableCountPushers, Goto
<1>2. CallRight(t)'
  BY <1>0, <1>1 DEF CallRight, PushCalls, PopCalls, Clears, Aborts, Waits, OnlyMoves, Types
<1>3. count' \in [Thread -> Nat]
  <2>1. d_numWaitingPushers \in Nat
    <3>1. Waiting("pushBack") \subseteq Thread
      BY DEF Waiting
    <3> QED BY <3>1, Constants, FS_Subset, FS_CardinalityType DEF SafeInv, WaitersCounted
  <2> QED BY <1>0, <2>1 DEF RemoveCountPushers, DisableCountPushers, Types
<1> QED BY <1>0, <1>1, <1>2, <1>3, MoveKeeps, LoadedSame
        DEF QueuePC, Waits, OnlyMoves, Types, queueVars, waitVars

-----------------------------------------------------------------------------
(* Threads that count themselves as waiting *)

LEMMA WaitingFinite ==
    ASSUME NEW o
    PROVE  /\ IsFiniteSet(Waiting(o)) /\ Cardinality(Waiting(o)) \in Nat
           /\ Cardinality(Waiting(o)) <= Cardinality(Thread)
<1>1. Waiting(o) \subseteq Thread
  BY DEF Waiting
<1> QED BY <1>1, Constants, FS_Subset, FS_CardinalityType

LEMMA EnterWaitKeeps ==
    ASSUME SafeInv, NEW t \in Thread, EnterWait(t)
    PROVE  SafeInv'
<1>0. Types /\ CallRight(t)
  BY DEF SafeInv, ThreadsRight
<1>1. /\ op[t] \in Blocking /\ result[t] \in {"full", "empty"}
      /\ pc[t] = "ret" /\ pc' = [pc EXCEPT ![t] = "length_push"]
      /\ UNCHANGED <<loaded, saved, own, result, sharedVars, d_elements, d_popControlSema,
                     d_pushControlSema, callVars>>
  BY DEF EnterWait, Goto, OnlyMoves
<1>2. /\ pc'[t] = "length_push" /\ own' = own /\ op' = op /\ result' = result
      /\ value' = value /\ loaded' = loaded /\ own[t] = None
      /\ d_states' = d_states /\ d_elements' = d_elements
  BY <1>0, <1>1 DEF Types, callVars, sharedVars, CallRight, Clears, Aborts
<1>3. Types' /\ SameOthers(t)
  BY <1>0, <1>1 DEF Types, ManagerTypeOK, QueuePC, ManagerPC, SameOthers, sharedVars, callVars
<1>4. CallRight(t)'
  BY <1>0, <1>1, <1>2 DEF CallRight, PushCalls, PopCalls, Clears, Aborts, Waits
<1>5. PICK o \in Blocking : o = op[t]
  BY <1>1
<1>6. /\ Waiting(o)' = Waiting(o) \cup {t} /\ t \notin Waiting(o)
      /\ \A p : p # o => Waiting(p)' = Waiting(p)
  BY <1>1, <1>2, <1>3, <1>5 DEF Waiting, SameOthers, Waits
<1>c. Cardinality(Waiting(o)') = Cardinality(Waiting(o)) + 1 /\ Cardinality(Waiting(o)) \in Nat
  BY <1>6, WaitingFinite, FS_AddElement
<1>d. Cardinality(Waiting(o))' = Cardinality(Waiting(o)')
  OBVIOUS
<1>7. WaitersCounted'
  <2>1. CASE o = "pushBack"
    <3>1. d_numWaitingPushers' = d_numWaitingPushers + (1) /\ UNCHANGED d_numWaitingPoppers
      BY <1>5, <2>1 DEF EnterWait, AddWaiting, Pushing
    <3>2. Waiting("popFront")' = Waiting("popFront")
      BY <1>6, <2>1
    <3> QED BY <1>c, <1>d, <2>1, <3>1, <3>2 DEF SafeInv, WaitersCounted
  <2>2. CASE o = "popFront"
    <3>1. d_numWaitingPoppers' = d_numWaitingPoppers + (1) /\ UNCHANGED d_numWaitingPushers
      BY <1>5, <2>2 DEF EnterWait, AddWaiting, Pushing
    <3>2. Waiting("pushBack")' = Waiting("pushBack")
      BY <1>6, <2>2
    <3> QED BY <1>c, <1>d, <2>2, <3>1, <3>2 DEF SafeInv, WaitersCounted
  <2> QED BY <2>1, <2>2 DEF Blocking
<1>8. HeldRight(t)'
  BY <1>2 DEF HeldRight, Clearing
<1>9. Held(t)' = {}
  BY <1>2 DEF Held
<1> QED BY <1>2, <1>3, <1>4, <1>7, <1>8, <1>9, QuietKeeps

LEMMA LeaveWaitKeeps ==
    ASSUME SafeInv, NEW t \in Thread, LeaveWait(t)
    PROVE  SafeInv'
<1>0. Types /\ CallRight(t)
  BY DEF SafeInv, ThreadsRight
<1>a. op[t] \in Blocking /\ pc[t] = "leave_wait"
  BY <1>0 DEF LeaveWait, Goto, CallRight, Waits
<1>b. /\ op[t] = "pushBack" => Entry(op[t]) = "push_load"
      /\ op[t] = "popFront" => Entry(op[t]) = "pop_load"
  BY DEF Entry, Pushing, Popping
<1>1. PICK to \in {"push_load", "pop_load"} :
         /\ pc' = [pc EXCEPT ![t] = to] /\ saved' = [saved EXCEPT ![t] = None]
         /\ to = "push_load" <=> op[t] = "pushBack"
         /\ UNCHANGED <<sharedVars, loaded, own, result, d_elements,
                        d_popControlSema, d_pushControlSema, callVars>>
  BY <1>a, <1>b DEF LeaveWait, Goto, Blocking
<1>2. /\ pc'[t] = to /\ own' = own /\ op' = op /\ result' = result
      /\ value' = value /\ loaded' = loaded /\ own[t] = None
      /\ d_states' = d_states /\ d_elements' = d_elements
  BY <1>0, <1>1, <1>a DEF Types, callVars, sharedVars, CallRight, Clears, Aborts
<1>3. Types' /\ SameOthers(t)
  BY <1>0, <1>1 DEF Types, ManagerTypeOK, QueuePC, ManagerPC, SameOthers, sharedVars, callVars
<1>4. CallRight(t)'
  BY <1>0, <1>1, <1>2, <1>a
     DEF CallRight, PushCalls, PopCalls, Clears, Aborts, Waits, Blocking, Pushing, Popping
<1>5. PICK o \in Blocking : o = op[t]
  BY <1>a
<1>6. /\ Waiting(o)' = Waiting(o) \ {t} /\ t \in Waiting(o)
      /\ \A p : p # o => Waiting(p)' = Waiting(p)
  BY <1>1, <1>2, <1>3, <1>a, <1>5 DEF Waiting, SameOthers, Waits
<1>c. Cardinality(Waiting(o)') = Cardinality(Waiting(o)) - 1 /\ Cardinality(Waiting(o)) \in Nat
  BY <1>6, WaitingFinite, FS_RemoveElement
<1>d. Cardinality(Waiting(o))' = Cardinality(Waiting(o)')
  OBVIOUS
<1>7. WaitersCounted'
  <2>1. CASE o = "pushBack"
    <3>1. d_numWaitingPushers' = d_numWaitingPushers + (-1) /\ UNCHANGED d_numWaitingPoppers
      BY <1>5, <2>1 DEF LeaveWait, AddWaiting, Pushing
    <3>2. Waiting("popFront")' = Waiting("popFront")
      BY <1>6, <2>1
    <3> QED BY <1>c, <1>d, <2>1, <3>1, <3>2 DEF SafeInv, WaitersCounted
  <2>2. CASE o = "popFront"
    <3>1. d_numWaitingPoppers' = d_numWaitingPoppers + (-1) /\ UNCHANGED d_numWaitingPushers
      BY <1>5, <2>2 DEF LeaveWait, AddWaiting, Pushing
    <3>2. Waiting("pushBack")' = Waiting("pushBack")
      BY <1>6, <2>2
    <3> QED BY <1>c, <1>d, <2>2, <3>1, <3>2 DEF SafeInv, WaitersCounted
  <2> QED BY <2>1, <2>2 DEF Blocking
<1>8. HeldRight(t)'
  BY <1>2 DEF HeldRight, Clearing
<1>9. Held(t)' = {}
  BY <1>2 DEF Held
<1> QED BY <1>2, <1>3, <1>4, <1>7, <1>8, <1>9, QuietKeeps

-----------------------------------------------------------------------------
(* Calls *)

LEMMA CallKeeps ==
    ASSUME SafeInv, NEW t \in Thread, NEW o \in AllCalls, Call(t, o)
    PROVE  SafeInv'
<1>0. Types /\ CallRight(t)
  BY DEF SafeInv, ThreadsRight
<1>a. /\ o \in Pushing \cup Popping \cup {"removeAll"}
      /\ Entry(o) = IF o \in Pushing THEN "push_load"
                    ELSE IF o \in Popping THEN "pop_load" ELSE "remove_push"
  BY DEF Call, Entry, AllCalls, Pushing, Popping
<1>1. /\ pc[t] = "idle" /\ pc' = [pc EXCEPT ![t] = Entry(o)]
      /\ op' = [op EXCEPT ![t] = o] /\ calls' = [calls EXCEPT ![t] = @ + 1]
      /\ value' = [value EXCEPT ![t] = IF o \in Pushing THEN <<t, calls'[t]>> ELSE NoValue]
      /\ saved' = [saved EXCEPT ![t] = None] /\ count' = [count EXCEPT ![t] = 0]
      /\ UNCHANGED <<sharedVars, loaded, own, result, queueVars, role, limit>>
  BY DEF Call, Goto
<1>b. calls'[t] \in 1 .. MaxCalls /\ calls' \in [Thread -> 0 .. MaxCalls]
  <2>1. calls[t] \in 0 .. MaxCalls /\ calls[t] < MaxCalls
    BY <1>0, Constants DEF Call, MayCall, Types
  <2> QED BY <1>0, <1>1, <2>1, Constants DEF Types
<1>2. /\ pc'[t] = Entry(o) /\ own' = own /\ op'[t] = o /\ result' = result
      /\ loaded' = loaded /\ own[t] = None
      /\ value'[t] = IF o \in Pushing THEN <<t, calls'[t]>> ELSE NoValue
      /\ d_states' = d_states /\ d_elements' = d_elements
      /\ d_numWaitingPoppers' = d_numWaitingPoppers
      /\ d_numWaitingPushers' = d_numWaitingPushers
  BY <1>0, <1>1 DEF Types, sharedVars, queueVars, waitVars, CallRight, Clears, Aborts
<1>c. <<t, calls'[t]>> \in Value
  BY <1>b DEF Value
<1>3. Types' /\ SameOthers(t)
  <2>1. value' \in [Thread -> Value \cup {NoValue}]
    BY <1>0, <1>1, <1>c DEF Types
  <2> QED BY <1>0, <1>1, <1>a, <1>b, <2>1
     DEF Types, ManagerTypeOK, QueuePC, ManagerPC, SameOthers, sharedVars,
         queueVars, waitVars
<1>4. CallRight(t)'
  BY <1>0, <1>1, <1>2, <1>a, <1>c
     DEF CallRight, PushCalls, PopCalls, Clears, Aborts, Waits, Pushing, Popping
<1>5. ~Clearing(t)' /\ \A p : t \notin Waiting(p) /\ t \notin Waiting(p)'
  BY <1>1, <1>2, <1>a DEF Clearing, Waiting, Waits
<1> QED BY <1>2, <1>3, <1>4, <1>5, <1>a, QueueQuiet

LEMMA DisableKeeps ==
    ASSUME SafeInv, NEW t \in Thread, disable(t)
    PROVE  SafeInv'
<1>0. Types /\ CallRight(t)
  BY DEF SafeInv, ThreadsRight
<1>1. /\ pc[t] = "idle" /\ pc' = [pc EXCEPT ![t] = "disabled"]
      /\ op' = [op EXCEPT ![t] = "disable"] /\ calls' = [calls EXCEPT ![t] = @ + 1]
      /\ d_pushIndex' = [d_pushIndex EXCEPT !.disabled = TRUE]
      /\ UNCHANGED <<loaded, saved, own, result, d_popIndex, d_states, queueVars,
                     role, value, count, limit>>
  BY DEF disable, Goto, SetDisabled, OnlyMoves
<1>2. calls' \in [Thread -> 0 .. MaxCalls]
  <2>1. calls[t] \in 0 .. MaxCalls /\ calls[t] < MaxCalls
    BY <1>0, Constants DEF disable, MayCall, Types
  <2> QED BY <1>0, <1>1, <2>1, Constants DEF Types
<1>3. Types' /\ SameOthers(t)
  BY <1>0, <1>1, <1>2 DEF Types, ManagerTypeOK, QueuePC, SameOthers, queueVars, waitVars,
     AllCalls
<1>4. pc'[t] = "disabled" /\ op'[t] = "disable" /\ own' = own /\ own[t] = None
  BY <1>0, <1>1 DEF Types, CallRight, Clears, Aborts
<1>5. CallRight(t)'
  BY <1>4 DEF CallRight, PushCalls, PopCalls, Clears, Aborts, Waits, Pushing
<1>6. ~Clearing(t)' /\ \A p : t \notin Waiting(p) /\ t \notin Waiting(p)'
  BY <1>1, <1>4 DEF Clearing, Waiting, Waits
<1> QED BY <1>1, <1>3, <1>4, <1>5, <1>6, QueueQuiet DEF queueVars, waitVars

LEMMA EnableKeeps ==
    ASSUME SafeInv, NEW t \in Thread, enable(t)
    PROVE  SafeInv'
<1>0. Types /\ CallRight(t)
  BY DEF SafeInv, ThreadsRight
<1>1. /\ pc[t] = "idle" /\ calls' = [calls EXCEPT ![t] = @ + 1]
      /\ d_pushIndex' = [d_pushIndex EXCEPT !.disabled = FALSE]
      /\ UNCHANGED <<pc, loaded, saved, own, result, d_popIndex, d_states, queueVars,
                     role, op, value, count, limit>>
  BY DEF enable, SetDisabled, threadVars
<1>2. calls' \in [Thread -> 0 .. MaxCalls]
  <2>1. calls[t] \in 0 .. MaxCalls /\ calls[t] < MaxCalls
    BY <1>0, Constants DEF enable, MayCall, Types
  <2> QED BY <1>0, <1>1, <2>1, Constants DEF Types
<1>3. Types' /\ SameOthers(t)
  BY <1>0, <1>1, <1>2 DEF Types, ManagerTypeOK, SameOthers, queueVars, waitVars
<1>4. CallRight(t)'
  BY <1>0, <1>1 DEF CallRight
<1>5. ~Clearing(t)' /\ \A p : t \notin Waiting(p) /\ t \notin Waiting(p)'
  BY <1>1 DEF Clearing, Waiting, Waits
<1>6. own[t] = None
  BY <1>0, <1>1 DEF CallRight, Clears, Aborts
<1> QED BY <1>1, <1>3, <1>4, <1>5, <1>6, QueueQuiet DEF queueVars, waitVars

-----------------------------------------------------------------------------
(* The steps that construct or destroy an element *)

LEMMA NoValueIsNone == NoValue \notin Value
<1> SUFFICES ASSUME NEW t \in Thread, NEW k \in 1 .. MaxCalls, <<t, k>> = <<>> PROVE FALSE
  BY DEF NoValue, Value
<1>1. Len(<<t, k>>) = 2 /\ Len(<<>>) = 0
  OBVIOUS
<1> QED BY <1>1

LEMMA ConstructKeeps ==
    ASSUME SafeInv, NEW t \in Thread, ConstructAndCommit(t)
    PROVE  SafeInv'
<1> DEFINE c == own[t]
<1>0. Types /\ CallRight(t) /\ HeldRight(t)
  BY DEF SafeInv, ThreadsRight
<1>1. /\ op[t] \in Pushing /\ c # None
      /\ pc[t] = "ret" /\ pc' = [pc EXCEPT ![t] = "check_poppers"]
      /\ d_elements' = [d_elements EXCEPT ![index(c)] = value[t]]
      /\ SetState(c, generation(c), "FULL") /\ own' = [own EXCEPT ![t] = None]
      /\ UNCHANGED <<d_pushIndex, d_popIndex, loaded, saved, result, waitVars, callVars>>
  BY DEF ConstructAndCommit, Goto, StoreFull
<1>a. /\ c \in Combined /\ c \in Held(t) /\ generation(c) \in Gen
      /\ value[t] \in Value /\ value[t] # NoValue
  BY <1>0, <1>1, Registers, IndexTypes, HeldTypes, NoValueIsNone DEF CallRight
<1>2. /\ index(c) \in Slot /\ d_states' \in [Slot -> [gen : Gen, st : State]]
      /\ d_states'[index(c)] = [gen |-> generation(c), st |-> "FULL"]
      /\ \A j \in Slot \ {index(c)} : d_states'[j] = d_states[j]
  BY <1>0, <1>1, <1>a, SwapTypes DEF State
<1>b. /\ d_elements'[index(c)] = value[t]
      /\ \A j \in Slot \ {index(c)} : d_elements'[j] = d_elements[j]
      /\ d_elements' \in [Slot -> Value \cup {NoValue}]
  BY <1>0, <1>1, <1>2, <1>a DEF Types
<1>3. /\ pc'[t] = "check_poppers" /\ op' = op /\ value' = value
      /\ own'[t] = None /\ loaded' = loaded /\ result' = result
  BY <1>0, <1>1 DEF Types, ManagerTypeOK, callVars
<1>4. Types' /\ SameOthers(t)
  BY <1>0, <1>1, <1>2, <1>b, <1>3 DEF Types, ManagerTypeOK, QueuePC, SameOthers,
     callVars, waitVars
<1>5. CallRight(t)'
  BY <1>0, <1>1, <1>3 DEF CallRight, PushCalls, PopCalls, Clears, Aborts, Waits
<1>6. HeldRight(t)' /\ Held(t)' = {}
  BY <1>3 DEF HeldRight, Clearing, Held
<1>7. \A u \in Thread \ {t} : \A d \in Held(u) : index(d) # index(c)
  BY <1>a, NobodyElseHolds
<1>8. WaitersCounted'
  BY <1>1, <1>3, <1>4, WaitersKept DEF Waits
<1> HIDE DEF c
<1> QED BY <1>2, <1>4, <1>5, <1>6, <1>7, <1>8, <1>a, <1>b, StepKeeps

LEMMA TakeKeeps ==
    ASSUME SafeInv, NEW t \in Thread, TakeAndCommit(t)
    PROVE  SafeInv'
<1> DEFINE c == own[t]
           g == nextGeneration(generation(c))
<1>0. Types /\ CallRight(t) /\ HeldRight(t)
  BY DEF SafeInv, ThreadsRight
<1>1. /\ op[t] \in Popping /\ c # None
      /\ pc[t] = "ret" /\ pc' = [pc EXCEPT ![t] = "check_pushers"]
      /\ value' = [value EXCEPT ![t] = d_elements[index(c)]]
      /\ d_elements' = [d_elements EXCEPT ![index(c)] = NoValue]
      /\ SetState(c, g, "EMPTY") /\ own' = [own EXCEPT ![t] = None]
      /\ UNCHANGED <<d_pushIndex, d_popIndex, loaded, saved, result, waitVars,
                     role, op, calls, count, limit>>
  BY DEF TakeAndCommit, Goto, StoreEmpty
<1>a. c \in Combined /\ c \in Held(t) /\ g \in Gen
  BY <1>0, <1>1, Registers, IndexTypes, NextGenerationType, HeldTypes
<1>2. /\ index(c) \in Slot /\ d_states' \in [Slot -> [gen : Gen, st : State]]
      /\ d_states'[index(c)] = [gen |-> g, st |-> "EMPTY"]
      /\ \A j \in Slot \ {index(c)} : d_states'[j] = d_states[j]
  BY <1>0, <1>1, <1>a, SwapTypes DEF State
<1>b. /\ d_elements'[index(c)] = NoValue
      /\ \A j \in Slot \ {index(c)} : d_elements'[j] = d_elements[j]
      /\ d_elements' \in [Slot -> Value \cup {NoValue}]
      /\ d_elements[index(c)] \in Value \cup {NoValue}
  BY <1>0, <1>1, <1>2 DEF Types
<1>3. /\ pc'[t] = "check_pushers" /\ op' = op
      /\ own'[t] = None /\ loaded' = loaded /\ result' = result
  BY <1>0, <1>1 DEF Types, ManagerTypeOK
<1>4. Types' /\ SameOthers(t)
  BY <1>0, <1>1, <1>2, <1>b, <1>3 DEF Types, ManagerTypeOK, QueuePC, SameOthers, waitVars
<1>5. CallRight(t)'
  BY <1>0, <1>1, <1>3
     DEF CallRight, PushCalls, PopCalls, Clears, Aborts, Waits, Pushing, Popping
<1>6. HeldRight(t)' /\ Held(t)' = {}
  BY <1>3 DEF HeldRight, Clearing, Held
<1>7. \A u \in Thread \ {t} : \A d \in Held(u) : index(d) # index(c)
  BY <1>a, NobodyElseHolds
<1>8. WaitersCounted'
  BY <1>1, <1>3, <1>4, WaitersKept DEF Waits
<1> HIDE DEF c, g
<1> QED BY <1>2, <1>4, <1>5, <1>6, <1>7, <1>8, <1>b, StepKeeps

LEMMA RemoveElementKeeps ==
    ASSUME SafeInv, NEW t \in Thread, RemoveElement(t)
    PROVE  SafeInv'
<1> DEFINE c  == own[t]
           g  == nextGeneration(generation(c))
           to == IF count[t] < limit[t] THEN "pop_load" ELSE "count_pushers"
<1>0. Types /\ CallRight(t) /\ HeldRight(t)
  BY DEF SafeInv, ThreadsRight
<1>1. /\ op[t] = "removeAll" /\ c # None /\ to \in {"pop_load", "count_pushers"}
      /\ pc[t] = "ret" /\ pc' = [pc EXCEPT ![t] = to]
      /\ count' = [count EXCEPT ![t] = count[t] + 1]
      /\ limit' = [limit EXCEPT ![t] = limit[t]]
      /\ saved' = [saved EXCEPT ![t] = None]
      /\ d_elements' = [d_elements EXCEPT ![index(c)] = NoValue]
      /\ SetState(c, g, "EMPTY") /\ own' = [own EXCEPT ![t] = None]
      /\ UNCHANGED <<d_pushIndex, d_popIndex, loaded, result, waitVars,
                     role, op, calls, value>>
  BY DEF RemoveElement, RemoveNext, Goto, StoreEmpty
<1>a. c \in Combined /\ c \in Held(t) /\ g \in Gen
  BY <1>0, <1>1, Registers, IndexTypes, NextGenerationType, HeldTypes
<1>2. /\ index(c) \in Slot /\ d_states' \in [Slot -> [gen : Gen, st : State]]
      /\ d_states'[index(c)] = [gen |-> g, st |-> "EMPTY"]
      /\ \A j \in Slot \ {index(c)} : d_states'[j] = d_states[j]
  BY <1>0, <1>1, <1>a, SwapTypes DEF State
<1>b. /\ d_elements'[index(c)] = NoValue
      /\ \A j \in Slot \ {index(c)} : d_elements'[j] = d_elements[j]
      /\ d_elements' \in [Slot -> Value \cup {NoValue}]
  BY <1>0, <1>1, <1>2 DEF Types
<1> HIDE DEF to
<1>3. /\ pc'[t] = to /\ op' = op /\ value' = value
      /\ own'[t] = None /\ loaded' = loaded /\ result' = result
  BY <1>0, <1>1 DEF Types, ManagerTypeOK
<1>4. Types' /\ SameOthers(t)
  BY <1>0, <1>1, <1>2, <1>b, <1>3
     DEF Types, ManagerTypeOK, QueuePC, ManagerPC, SameOthers, waitVars
<1>5. CallRight(t)'
  BY <1>0, <1>1, <1>3
     DEF CallRight, PushCalls, PopCalls, Clears, Aborts, Waits, Pushing, Popping
<1>6. HeldRight(t)' /\ Held(t)' = {}
  BY <1>1, <1>3 DEF HeldRight, Clearing, Held
<1>7. \A u \in Thread \ {t} : \A d \in Held(u) : index(d) # index(c)
  BY <1>a, NobodyElseHolds
<1>8. WaitersCounted'
  BY <1>1, <1>3, <1>4, WaitersKept DEF Waits
<1> HIDE DEF c, g
<1> QED BY <1>2, <1>4, <1>5, <1>6, <1>7, <1>8, <1>b, StepKeeps

\* A thread whose constructor threw destroys an earlier element, and keeps its
\* own reservation.
LEMMA ClearElementKeeps ==
    ASSUME SafeInv, NEW t \in Thread, ClearElement(t)
    PROVE  SafeInv'
<1> DEFINE c == loaded[t]
           g == nextGeneration(generation(c))
<1>0. Types /\ CallRight(t) /\ HeldRight(t)
  BY DEF SafeInv, ThreadsRight
<1>1. /\ result[t] = "success" /\ pc[t] = "clear_ret"
      /\ pc' = [pc EXCEPT ![t] = "clear_load"]
      /\ d_elements' = [d_elements EXCEPT ![index(c)] = NoValue]
      /\ SetState(c, g, "EMPTY") /\ count' = [count EXCEPT ![t] = @ + 1]
      /\ UNCHANGED <<loaded, saved, own, result, d_pushIndex, d_popIndex, waitVars,
                     role, op, calls, value, limit>>
  BY DEF ClearElement, Goto, StoreEmpty, OnlyMoves
<1>a. c \in Combined /\ c \in Held(t) /\ g \in Gen
  BY <1>0, <1>1, Registers, IndexTypes, NextGenerationType, HeldTypes DEF Clearing
<1>2. /\ index(c) \in Slot /\ d_states' \in [Slot -> [gen : Gen, st : State]]
      /\ d_states'[index(c)] = [gen |-> g, st |-> "EMPTY"]
      /\ \A j \in Slot \ {index(c)} : d_states'[j] = d_states[j]
  BY <1>0, <1>1, <1>a, SwapTypes DEF State
<1>b. /\ d_elements'[index(c)] = NoValue
      /\ \A j \in Slot \ {index(c)} : d_elements'[j] = d_elements[j]
      /\ d_elements' \in [Slot -> Value \cup {NoValue}]
  BY <1>0, <1>1, <1>2 DEF Types
<1>3. /\ pc'[t] = "clear_load" /\ op' = op /\ value' = value
      /\ own' = own /\ loaded' = loaded /\ result' = result
  BY <1>0, <1>1 DEF Types
<1>4. Types' /\ SameOthers(t)
  BY <1>0, <1>1, <1>2, <1>b, <1>3
     DEF Types, ManagerTypeOK, QueuePC, ManagerPC, SameOthers, waitVars
<1>5. CallRight(t)'
  BY <1>0, <1>1, <1>3 DEF CallRight, PushCalls, PopCalls, Clears, Aborts, Waits
<1>c. own[t] # None /\ op[t] \in Pushing
  BY <1>0, <1>1 DEF CallRight, Clears
<1>d. /\ Holds(own[t], "WRITING") /\ Holds(c, "READING")
      /\ index(own[t]) \in Slot /\ index(own[t]) # index(c)
  <2>1. Holds(own[t], "WRITING") /\ Holds(c, "READING")
    BY <1>0, <1>1, <1>c DEF HeldRight, Mode, Clearing
  <2>2. own[t] \in Held(t)
    BY <1>0, <1>c, HeldTypes
  <2> QED BY <2>1, <2>2, HeldStates DEF Holds
<1>6. HeldRight(t)'
  <2>1. Holds(own[t], "WRITING")' /\ Mode(t)' = "WRITING"
    BY <1>2, <1>3, <1>c, <1>d DEF Holds, Mode, index, generation
  <2> QED BY <1>3, <2>1 DEF HeldRight, Clearing
<1>7. \A d \in Held(t)' : d \in Held(t)
  BY <1>3 DEF Held
<1>8. \A u \in Thread \ {t} : \A d \in Held(u) : index(d) # index(c)
  BY <1>a, NobodyElseHolds
<1>9. WaitersCounted'
  BY <1>1, <1>3, <1>4, WaitersKept DEF Waits
<1> HIDE DEF c, g
<1> QED BY <1>2, <1>4, <1>5, <1>6, <1>7, <1>8, <1>9, <1>b, StepKeeps

-----------------------------------------------------------------------------
(* The theorem *)

LEMMA InitHolds == Init => SafeInv
<1> SUFFICES ASSUME Init PROVE SafeInv
  OBVIOUS
<1>1. /\ StartIndex \in Combined /\ index(StartIndex) \in Slot
      /\ generation(StartIndex) \in Gen /\ nextGeneration(generation(StartIndex)) \in Gen
      /\ 0 \in Combined /\ 0 \in 0 .. Capacity /\ 0 \in 0 .. MaxCalls
  BY Words, IndexTypes, NextGenerationType, Constants
<1>2. Types
  <2>1. ManagerTypeOK
    BY <1>1 DEF Init, InitRing, ManagerTypeOK, State, Result
  <2>2. pc \in [Thread -> QueuePC]
    BY DEF Init, InitRing, QueuePC, ManagerPC
  <2> QED BY <1>1, <2>1, <2>2 DEF Init, Types
<1>3. WaitersCounted
  <2>1. \A o : Waiting(o) = {}
    BY DEF Waiting, Waits, Init, InitRing
  <2> QED BY <2>1, FS_EmptySet DEF WaitersCounted, Init
<1>4. \A t \in Thread : pc[t] = "idle" /\ own[t] = None /\ op[t] = "none"
  BY DEF Init, InitRing
<1>5. ThreadsRight
  BY <1>4 DEF ThreadsRight, CallRight, HeldRight, Clearing, PushCalls, PopCalls, Clears,
     Aborts, Waits, Pushing
<1>6. ExclusiveElement
  <2>1. \A t \in Thread : Held(t) = {}
    BY <1>4 DEF Held
  <2> QED BY <2>1 DEF ExclusiveElement
<1>7. ElementLifetime
  BY DEF Init, InitRing, ElementLifetime
<1> QED BY <1>2, <1>3, <1>5, <1>6, <1>7 DEF SafeInv

LEMMA StutterKeeps == SafeInv /\ UNCHANGED vars => SafeInv'
<1> SUFFICES ASSUME SafeInv, UNCHANGED vars PROVE SafeInv'
  OBVIOUS
<1>1. Types' /\ WaitersCounted'
  BY DEF SafeInv, Types, ManagerTypeOK, WaitersCounted, Waiting, vars, managerVars,
     sharedVars, threadVars, queueVars, waitVars, callVars
<1>2. ThreadsRight'
  BY DEF SafeInv, ThreadsRight, CallRight, HeldRight, Holds, Mode, Clearing, vars,
     managerVars, sharedVars, threadVars, queueVars, callVars
<1>3. ExclusiveElement' /\ ElementLifetime'
  BY DEF SafeInv, ExclusiveElement, ElementLifetime, Held, vars, managerVars, sharedVars,
     threadVars, queueVars
<1> QED BY <1>1, <1>2, <1>3 DEF SafeInv

LEMMA NextKeeps == SafeInv /\ [Next]_vars => SafeInv'
<1> SUFFICES ASSUME SafeInv, Next PROVE SafeInv'
  BY StutterKeeps
<1>1. PICK t \in Thread : ThreadStep(t) \/ ClientCall(t)
  BY DEF Next
<1>2. CASE ManagerCall(t) \/ ReportFailure(t) \/ PostPushers(t)
  BY <1>2, ManagerKeeps, ReportFailureKeeps, PostPushersKeeps
<1>3. CASE pushBack(t)
  BY <1>3, ConstructKeeps, CheckPoppersKeeps, PostPopperKeeps, ThrowKeeps,
     ClearElementKeeps, ClearEndKeeps, AbortedKeeps DEF pushBack
<1>4. CASE popFront(t)
  BY <1>4, TakeKeeps, CheckPushersKeeps, PostPusherKeeps DEF popFront
<1>5. CASE block(t)
  BY <1>5, EnterWaitKeeps, LengthLoadPushKeeps, LengthLoadPopKeeps, WaitKeeps,
     LeaveWaitKeeps DEF block
<1>6. CASE removeAll(t) \/ DisableCountPushers(t)
  BY <1>6, RemoveLoadPushKeeps, RemoveLoadPopKeeps, RemoveElementKeeps,
     RemoveFoundEmptyKeeps, CountPushersKeeps DEF removeAll
<1>7. CASE ClientCall(t)
  BY <1>7, CallKeeps, DisableKeeps, EnableKeeps DEF ClientCall
<1> QED BY <1>1, <1>2, <1>3, <1>4, <1>5, <1>6, <1>7 DEF ThreadStep

LEMMA TypesFollow == SafeInv => TypeOK
<1> SUFFICES ASSUME SafeInv PROVE TypeOK
  OBVIOUS
<1>1. Cardinality(Thread) \in Nat
  BY Constants, FS_CardinalityType
<1>2. /\ d_numWaitingPoppers \in 0 .. Cardinality(Thread)
      /\ d_numWaitingPushers \in 0 .. Cardinality(Thread)
  BY <1>1, WaitingFinite DEF SafeInv, WaitersCounted
<1> QED BY <1>2 DEF SafeInv, Types, TypeOK

\* The state of an element, swapped by whoever finds it as expected, gives it to
\* one thread at a time, which finds it constructed to read and not to write.
THEOREM ElementsAreSafe == Spec => []SafeInv
<1>1. Init => SafeInv
  BY InitHolds
<1>2. SafeInv /\ [Next]_vars => SafeInv'
  BY NextKeeps
<1> QED BY <1>1, <1>2, PTL DEF Spec

\* No two threads use an element at a time, none is constructed over a live one,
\* read before it is constructed, or leaked.
THEOREM ConsistentHolds == Spec => []Consistent
<1>1. SafeInv => Consistent
  BY TypesFollow DEF Consistent, SafeInv
<1> QED BY <1>1, ElementsAreSafe, PTL

-----------------------------------------------------------------------------
(* Positions: how many places have been pushed, or popped, before.  An index  *)
(* is the position's word, and comes round.                                   *)

Turn    == d_maxCombinedIndex + 1
Word(a) == a % Turn

\* How far the index d is ahead of the index c, on the circle.
Behind(c, d) == IF c <= d THEN d - c ELSE (d - c) + Turn

\* An element has one generation and another one after it.
TwoGenerations == numRepresentableGenerations >= 2

LEMMA GenerationsAreTwo == TwoGenerations
<1>1. NumIndices \in Nat /\ 4 <= NumIndices
  BY IndexAssumption DEF IndexAssumption
<1>2. CASE Capacity = 1
  BY <1>1, <1>2 DEF TwoGenerations, numRepresentableGenerations
<1>3. CASE Capacity # 1
  <2>1. PICK n \in Nat, r \in Nat : /\ n = NumIndices \div Capacity
                                   /\ NumIndices = Capacity * n + r /\ r < Capacity
    BY Constants, Division
  <2>2. n # 0 /\ n # 1
    BY <2>1, Constants
  <2> QED BY <1>3, <2>1, <2>2 DEF TwoGenerations, numRepresentableGenerations
<1> QED BY <1>2, <1>3

LEMMA Quotient ==
    ASSUME NEW n \in Nat, NEW b \in Nat, b >= 1, NEW k \in Nat, NEW r \in Nat, r < b,
           n = b * k + r
    PROVE  n \div b = k /\ n % b = r
<1>1. PICK g \in Nat, i \in Nat : g = n \div b /\ i = n % b /\ i < b /\ n = b * g + i
  BY Division
<1>2. ASSUME NEW x \in Nat, NEW y \in Nat, x < y PROVE b * x + b <= b * y
  <2>1. b * (x + 1) <= b * y
    BY <1>2, ProductGrows
  <2> QED BY <2>1
<1>3. b * g \in Nat /\ b * k \in Nat
  OBVIOUS
<1>4. ~(g < k) /\ ~(k < g)
  BY <1>1, <1>2, <1>3
<1> QED BY <1>1, <1>3, <1>4

LEMMA Turns ==
    /\ Turn \in Nat /\ Turn >= 1 /\ Turn = Capacity * numRepresentableGenerations
    /\ Combined = 0 .. Turn - 1
    /\ TwoGenerations => Capacity < Turn
<1>1. Turn = numRepresentableGenerations * Capacity
  BY Generations DEF Turn, d_maxCombinedIndex
<1>2. ASSUME TwoGenerations PROVE Capacity * 2 <= Capacity * numRepresentableGenerations
  BY <1>2, Generations, Constants, ProductGrows DEF TwoGenerations
<1> QED BY <1>1, <1>2, Generations, Constants DEF Combined, d_maxCombinedIndex, Turn

LEMMA WordType ==
    ASSUME NEW a \in Nat
    PROVE  /\ Word(a) \in Combined /\ Word(a) \in Nat /\ Word(a) < Turn
           /\ \E k \in Nat : a = Turn * k + Word(a)
<1>1. PICK k \in Nat, w \in Nat : w = a % Turn /\ w < Turn /\ a = Turn * k + w
  <2>1. /\ a \div Turn \in Nat /\ a % Turn \in Nat /\ a % Turn < Turn
        /\ a = Turn * (a \div Turn) + (a % Turn)
    BY Turns, Division
  <2> QED BY <2>1
<1>2. w = Word(a)
  BY <1>1 DEF Word
<1>3. w \in Combined
  BY <1>1, Turns
<1> QED BY <1>1, <1>2, <1>3

LEMMA WordIs ==
    ASSUME NEW a \in Nat, NEW k \in Nat, NEW w \in Nat, w < Turn, a = Turn * k + w
    PROVE  Word(a) = w
BY Turns, Quotient DEF Word

LEMMA WordNext ==
    ASSUME NEW a \in Nat PROVE nextCombinedIndex(Word(a)) = Word(a + 1)
<1>1. PICK k \in Nat, w \in Nat : w = Word(a) /\ a = Turn * k + w /\ w < Turn
  BY WordType
<1>2. Turn \in Nat /\ Turn >= 1 /\ d_maxCombinedIndex = Turn - 1
  BY Turns, Words DEF Turn
<1>3. Turn * (k + 1) = Turn * k + Turn /\ Turn * k \in Nat
  BY <1>2
<1>4. CASE w < Turn - 1
  <2>1. a + 1 = Turn * k + (w + 1)
    BY <1>1, <1>3
  <2>2. Word(a + 1) = w + 1
    BY <1>2, <1>4, <2>1, WordIs
  <2> QED BY <1>1, <1>2, <1>4, <2>2 DEF nextCombinedIndex
<1>5. CASE w = Turn - 1
  <2>1. a + 1 = Turn * (k + 1) + 0
    BY <1>1, <1>2, <1>3, <1>5
  <2>2. Word(a + 1) = 0
    <3>1. a + 1 \in Nat /\ k + 1 \in Nat /\ 0 < Turn
      BY <1>2
    <3> QED BY <2>1, <3>1, WordIs
  <2> QED BY <1>1, <1>2, <1>5, <2>2 DEF nextCombinedIndex
<1> QED BY <1>1, <1>2, <1>4, <1>5

\* Of two positions less than a turn apart.
LEMMA Circle ==
    ASSUME NEW a \in Nat, NEW b \in Nat, a <= b, b < a + Turn
    PROVE  /\ Behind(Word(a), Word(b)) = b - a
           /\ Word(a) = Word(b) => a = b
<1>1. PICK k \in Nat, x \in Nat, w \in Nat :
         w = Word(a) /\ x = Turn * k /\ a = x + w /\ w < Turn
  <2>1. PICK k \in Nat, w \in Nat : w = Word(a) /\ a = Turn * k + w /\ w < Turn
    BY WordType
  <2>2. Turn * k \in Nat
    BY Turns
  <2> QED BY <2>1, <2>2
<1>2. PICK j \in Nat, y \in Nat, v \in Nat :
         v = Word(b) /\ y = Turn * j /\ b = y + v /\ v < Turn
  <2>1. PICK j \in Nat, v \in Nat : v = Word(b) /\ b = Turn * j + v /\ v < Turn
    BY WordType
  <2>2. Turn * j \in Nat
    BY Turns
  <2> QED BY <2>1, <2>2
<1>3. PICK n \in Nat : n = Turn /\ n >= 1
  BY Turns
<1>4. /\ k < j => x + n <= y
      /\ j < k => y + n <= x
      /\ j = k => x = y
      /\ j = k + 1 => y = x + n
      /\ k + 1 < j => x + n + n <= y
  <2>1. ASSUME NEW c \in Nat, NEW d \in Nat, c < d PROVE Turn * c + Turn <= Turn * d
    <3>1. Turn * (c + 1) <= Turn * d
      BY <1>3, <2>1, ProductGrows
    <3> QED BY <1>3, <3>1
  <2>2. Turn * (k + 1) = Turn * k + Turn
    BY <1>3
  <2>3. k + 1 < j => Turn * (k + 1) + Turn <= Turn * j
    BY <2>1
  <2>4. k < j => Turn * k + Turn <= Turn * j
    BY <2>1
  <2>5. j < k => Turn * j + Turn <= Turn * k
    BY <2>1
  <2> QED BY <1>1, <1>2, <1>3, <2>2, <2>3, <2>4, <2>5
<1>5. w < n /\ v < n /\ a <= b /\ b < a + n /\ a = x + w /\ b = y + v
  BY <1>1, <1>2, <1>3
<1>6. (v - w = b - a /\ w <= v) \/ (v < w /\ (v - w) + n = b - a)
  <2>1. j = k \/ j = k + 1
    BY <1>3, <1>4, <1>5
  <2> QED BY <1>3, <1>4, <1>5, <2>1
<1>7. Behind(w, v) = b - a
  BY <1>3, <1>6 DEF Behind
<1>8. w = v => a = b
  BY <1>6
<1> QED BY <1>1, <1>2, <1>7, <1>8

\* An index is what its element and generation say.
LEMMA Whole ==
    ASSUME NEW c \in Combined
    PROVE  /\ index(c) \in Nat /\ index(c) < Capacity /\ generation(c) \in Nat
           /\ c = Capacity * generation(c) + index(c)
<1>1. c \in Nat /\ Capacity \in Nat /\ Capacity >= 1
  BY Constants, Words
<1> QED BY <1>1, Division DEF index, generation

LEMMA IndexIs ==
    ASSUME NEW c \in Combined, NEW g \in Nat, NEW i \in Nat, i < Capacity,
           c = Capacity * g + i
    PROVE  index(c) = i /\ generation(c) = g
BY Constants, Words, Quotient DEF index, generation

\* The element of a position.
LEMMA WordIndex == ASSUME NEW a \in Nat PROVE index(Word(a)) = a % Capacity
<1>1. PICK k \in Nat, w \in Nat : w = Word(a) /\ a = Turn * k + w /\ w \in Combined
  BY WordType
<1>2. PICK g \in Nat, i \in Nat : g = generation(w) /\ i = index(w) /\ i < Capacity
                                  /\ w = Capacity * g + i
  BY <1>1, Whole
<1> DEFINE n == numRepresentableGenerations
<1>3. n \in Nat /\ Turn = Capacity * n /\ Capacity \in Nat /\ Capacity >= 1
  BY Generations, Turns, Constants
<1> HIDE DEF n
<1>4. n * k \in Nat /\ n * k + g \in Nat
  BY <1>3
<1>5. a = Capacity * (n * k + g) + i
  <2>1. (Capacity * n) * k = Capacity * (n * k)
    BY <1>3
  <2>2. Capacity * (n * k + g) = Capacity * (n * k) + Capacity * g
    BY <1>3, <1>4
  <2> QED BY <1>1, <1>2, <1>3, <2>1, <2>2
<1>6. a % Capacity = i
  BY <1>2, <1>3, <1>4, <1>5, Quotient
<1> QED BY <1>1, <1>2, <1>6

\* Positions of one element are a whole number of rounds apart.
LEMMA Apart ==
    ASSUME NEW a \in Nat, NEW b \in Nat, index(Word(a)) = index(Word(b)), a < b
    PROVE  a + Capacity <= b
<1>1. a % Capacity = b % Capacity
  BY WordIndex
<1>2. Capacity \in Nat /\ Capacity >= 1
  BY Constants
<1>3. PICK g \in Nat, x \in Nat, i \in Nat :
         x = Capacity * g /\ i = a % Capacity /\ a = x + i
  <2>1. a \div Capacity \in Nat /\ Capacity * (a \div Capacity) \in Nat /\ a % Capacity \in Nat
        /\ a = Capacity * (a \div Capacity) + (a % Capacity)
    BY <1>2, Division
  <2> QED BY <2>1
<1>4. PICK j \in Nat, y \in Nat : y = Capacity * j /\ b = y + i
  <2>1. b \div Capacity \in Nat /\ Capacity * (b \div Capacity) \in Nat
        /\ b = Capacity * (b \div Capacity) + (b % Capacity)
    BY <1>2, Division
  <2> QED BY <1>1, <1>3, <2>1
<1>5. g < j
  <2> SUFFICES ASSUME j <= g PROVE FALSE
    OBVIOUS
  <2>1. y <= x
    BY <1>2, <1>3, <1>4, ProductGrows
  <2>2. a = x + i /\ b = y + i
    BY <1>3, <1>4
  <2> QED BY <2>1, <2>2
<1>6. x + Capacity <= y
  <2>1. Capacity * (g + 1) <= Capacity * j
    BY <1>2, <1>5, ProductGrows
  <2>2. Capacity * (g + 1) = Capacity * g + Capacity
    BY <1>2
  <2> QED BY <1>3, <1>4, <2>1, <2>2
<1> QED BY <1>2, <1>3, <1>4, <1>6

\* The next position of the element is in the next generation.
LEMMA NextRound ==
    ASSUME NEW a \in Nat
    PROVE  /\ index(Word(a + Capacity)) = index(Word(a))
           /\ generation(Word(a + Capacity)) = nextGeneration(generation(Word(a)))
           /\ isPreviousGeneration(generation(Word(a + Capacity)), generation(Word(a)))
<1>1. PICK k \in Nat, w \in Nat : w = Word(a) /\ a = Turn * k + w /\ w \in Combined
                                  /\ w < Turn
  BY WordType
<1>2. PICK g \in Nat, i \in Nat : g = generation(w) /\ i = index(w) /\ i < Capacity
                                  /\ w = Capacity * g + i
  BY <1>1, Whole
<1>3. PICK n \in Nat : /\ n = numRepresentableGenerations /\ n >= 1
                       /\ Turn = Capacity * n /\ d_maxGeneration = n - 1
  BY Generations, Turns DEF d_maxGeneration
<1>4. Capacity \in Nat /\ Capacity >= 1 /\ Turn \in Nat
  BY Constants, Turns
<1>5. g <= n - 1
  <2> SUFFICES ASSUME n <= g PROVE FALSE
    BY <1>2, <1>3
  <2>1. Capacity * n <= Capacity * g
    BY <1>4, ProductGrows
  <2> QED BY <1>1, <1>2, <1>3, <1>4, <2>1
<1>6. Capacity * (g + 1) = Capacity * g + Capacity /\ Capacity * g \in Nat
  BY <1>4
<1>7. CASE g < n - 1
  <2>1. w + Capacity = Capacity * (g + 1) + i
    BY <1>2, <1>4, <1>6
  <2>2. Capacity * (g + 1) + Capacity <= Turn
    <3>1. Capacity * (g + 2) <= Capacity * n
      BY <1>4, <1>7, ProductGrows
    <3>2. Capacity * (g + 2) = Capacity * (g + 1) + Capacity
      BY <1>4
    <3> QED BY <1>3, <3>1, <3>2
  <2>3. w + Capacity < Turn
    BY <1>2, <1>4, <1>6, <2>1, <2>2
  <2>4. Word(a + Capacity) = w + Capacity
    <3>1. a + Capacity = Turn * k + (w + Capacity) /\ a + Capacity \in Nat /\ w + Capacity \in Nat
      BY <1>1, <1>4
    <3> QED BY <2>3, <3>1, WordIs
  <2>5. index(w + Capacity) = i /\ generation(w + Capacity) = g + 1
    <3>1. w + Capacity \in Combined
      BY <1>4, <2>3, Turns
    <3> QED BY <1>2, <2>1, <3>1, IndexIs
  <2>6. g # d_maxGeneration
    BY <1>3, <1>7
  <2>7. nextGeneration(g) = g + 1 /\ isPreviousGeneration(g + 1, g)
    BY <2>6 DEF nextGeneration, isPreviousGeneration
  <2> QED BY <1>1, <1>2, <2>4, <2>5, <2>7
<1>8. CASE g = n - 1
  <2>1. w + Capacity = Turn + i
    <3>1. Capacity * n = Capacity * (g + 1)
      BY <1>8
    <3> QED BY <1>2, <1>3, <1>4, <1>6, <3>1
  <2>2. Word(a + Capacity) = i
    <3>1. a + Capacity = Turn * (k + 1) + i
      <4>1. Turn * (k + 1) = Turn * k + Turn /\ Turn * k \in Nat
        BY <1>4
      <4>2. PICK x \in Nat : x = Turn * k
        BY <4>1
      <4>3. a = x + w /\ w + Capacity = Turn + i /\ Turn * (k + 1) = x + Turn
        BY <1>1, <2>1, <4>1, <4>2
      <4>4. a + Capacity = (x + Turn) + i
        BY <1>4, <4>3
      <4> QED BY <4>3, <4>4
    <3>2. i < Turn /\ a + Capacity \in Nat /\ k + 1 \in Nat
      BY <1>1, <1>2, <1>4, <1>6
    <3> QED BY <3>1, <3>2, WordIs
  <2>3. index(i) = i /\ generation(i) = 0
    <3>1. i < Turn
      BY <1>1, <1>2, <1>4, <1>6
    <3>2. i \in Combined
      BY <3>1, Turns
    <3>3. i = Capacity * 0 + i
      BY <1>4
    <3> QED BY <1>2, <3>2, <3>3, IndexIs
  <2>4. g = d_maxGeneration /\ 0 - g = -d_maxGeneration
    BY <1>3, <1>8
  <2> QED BY <1>1, <1>2, <2>2, <2>3, <2>4 DEF nextGeneration, isPreviousGeneration
<1> QED BY <1>2, <1>3, <1>5, <1>7, <1>8

-----------------------------------------------------------------------------
(* The ring in positions *)

\* The element of a position.
Elem(p) == index(Word(p))

PushReads == {"push_swap", "push_help"}
PopReads  == {"pop_swap", "pop_help", "clear_swap", "clear_help"}

\* No thread sleeps between a load of an index and the swap that relies on it
\* while the index makes its turn, but for one capacity.
Timely ==
    \A t \in Thread :
        /\ pc[t] \in PushReads => Behind(loaded[t], d_pushIndex.index) + Capacity < Turn
        /\ pc[t] \in PopReads  => Behind(loaded[t], d_popIndex) + Capacity < Turn

\* Element i is at position a, while h have been popped and q pushed.
SlotRight(i, h, q, a) ==
    LET st == d_states[i].st IN
    /\ Elem(a) = i /\ d_states[i].gen = generation(Word(a))
    /\ st \in {"WRITING", "FULL"} =>
          h <= a /\ a <= q /\ q <= a + Capacity /\ a < h + Capacity
    /\ st = "READING" => a <= h /\ h <= a + Capacity /\ a <= q /\ q <= a + Capacity
    /\ st = "EMPTY" => q <= a /\ h <= a /\ a < h + Capacity

\* Somebody has reserved position p to push, or taken it to pop.
Acquired(p, e) ==
    \/ e[Elem(p)] > p
    \/ e[Elem(p)] = p /\ d_states[Elem(p)].st # "EMPTY"

Taken(p, e) ==
    \/ e[Elem(p)] > p
    \/ e[Elem(p)] = p /\ d_states[Elem(p)].st = "READING"

\* An index that a thread has loaded is the word of a position that is not far back,
\* and the thread helps only another that has acquired it.
PushRight(t, q, e) ==
    pc[t] \in PushReads =>
        \E p \in Nat :
            /\ p <= q /\ (q - p) + Capacity < Turn /\ loaded[t] = Word(p)
            /\ pc[t] = "push_help" => Acquired(p, e)

PopRight(t, h, e) ==
    pc[t] \in PopReads =>
        \E p \in Nat :
            /\ p <= h /\ (h - p) + Capacity < Turn /\ loaded[t] = Word(p)
            /\ pc[t] \in {"pop_help", "clear_help"} => Taken(p, e)

\* What a thread has popped is behind d_popIndex; what it must abort is there.
OwnRight(t, h, e) ==
    /\ pc[t] \in {"push_advance", "pop_advance"} => loaded[t] = own[t]
    /\ \/ pc[t] = "ret" /\ own[t] # None /\ op[t] \notin Pushing
       \/ pc[t] = "abort_empty"
       => e[index(own[t])] < h
    /\ pc[t] = "clear_ret" /\ result[t] = "success" => e[index(loaded[t])] < h
    /\ \/ pc[t] = "abort_reading"
       \/ pc[t] = "clear_ret" /\ result[t] = "end"
       => e[index(own[t])] = h

Ring(h, q, e) ==
    /\ d_popIndex = Word(h) /\ d_pushIndex.index = Word(q) /\ h <= q + 1
    /\ \A i \in Slot : SlotRight(i, h, q, e[i])
    /\ \A t \in Thread : PushRight(t, q, e) /\ PopRight(t, h, e) /\ OwnRight(t, h, e)

\* An element that is being written or read is held by somebody.
Owned ==
    \A i \in Slot : d_states[i].st \in {"WRITING", "READING"} =>
        \E t \in Thread : \E c \in Held(t) : index(c) = i

RingInv == SafeInv /\ Owned /\ \E h, q \in Nat : \E e \in [Slot -> Nat] : Ring(h, q, e)

LEMMA ElemType ==
    ASSUME NEW p \in Nat
    PROVE  /\ Elem(p) \in Slot /\ Word(p) \in Combined /\ index(Word(p)) = Elem(p)
           /\ Elem(p + Capacity) = Elem(p)
BY WordType, IndexTypes, NextRound DEF Elem

\* Positions of one element that are less than a capacity apart are the same.
LEMMA SamePlace ==
    ASSUME NEW a \in Nat, NEW b \in Nat, Elem(a) = Elem(b)
    PROVE  (a < b => a + Capacity <= b) /\ (b < a => b + Capacity <= a)
BY Apart DEF Elem

\* An index that finds its element in its own generation is the word of its position.
LEMMA FoundAt ==
    ASSUME NEW c \in Combined, NEW a \in Nat, Elem(a) = index(c),
           generation(Word(a)) = generation(c)
    PROVE  c = Word(a)
BY Whole, WordType DEF Elem

\* The element that a thread holds is at the position of the thread's index.
LEMMA HeldAt ==
    ASSUME SafeInv, NEW h, NEW q, NEW e \in [Slot -> Nat], Ring(h, q, e),
           NEW t \in Thread, NEW c \in Held(t)
    PROVE  /\ c \in Combined /\ index(c) \in Slot /\ e[index(c)] \in Nat
           /\ c = Word(e[index(c)]) /\ Elem(e[index(c)]) = index(c)
           /\ d_states[index(c)].st \in {"WRITING", "READING"}
<1>1. c \in Combined
  BY HeldTypes DEF SafeInv
<1>2. /\ index(c) \in Slot /\ d_states[index(c)].gen = generation(c)
      /\ d_states[index(c)].st \in {"WRITING", "READING"}
  BY HeldStates
<1>3. Elem(e[index(c)]) = index(c) /\ generation(Word(e[index(c)])) = generation(c)
  BY <1>2 DEF Ring, SlotRight
<1> QED BY <1>1, <1>2, <1>3, FoundAt

\* Timeliness, in positions.
LEMMA StillNear ==
    ASSUME NEW p \in Nat, NEW q \in Nat, NEW r \in Nat, p <= q, (q - p) + Capacity < Turn,
           r = q \/ r = q + 1, Behind(Word(p), Word(r)) + Capacity < Turn
    PROVE  p <= r /\ (r - p) + Capacity < Turn
<1>1. PICK n \in Nat, m \in Nat : n = Turn /\ m = Capacity /\ m >= 1
  BY Turns, Constants
<1>2. p <= r /\ r < p + n
  BY <1>1
<1>3. Behind(Word(p), Word(r)) = r - p
  BY <1>1, <1>2, Circle
<1> QED BY <1>1, <1>2, <1>3

\* A step of thread t that moves the indices, or an element, forward.
LEMMA RingStep ==
    ASSUME RingInv, SafeInv', Timely', NEW t \in Thread, SameOthers(t),
           NEW h \in Nat, NEW q \in Nat, NEW e \in [Slot -> Nat], Ring(h, q, e),
           NEW g \in Nat, NEW r \in Nat, NEW f \in [Slot -> Nat],
           r = q \/ r = q + 1,
           g = h \/ (g = h + 1 /\ e[Elem(h)] = h /\ d_states[Elem(h)].st = "READING"),
           d_popIndex' = Word(g), d_pushIndex'.index = Word(r), g <= r + 1,
           \A i \in Slot : SlotRight(i, g, r, f[i])',
           \A i \in Slot :
              /\ f[i] >= e[i]
              /\ f[i] = e[i] => /\ d_states[i].st # "EMPTY" => d_states'[i].st # "EMPTY"
                                /\ d_states[i].st = "READING" => d_states'[i].st = "READING",
           \A u \in Thread \ {t} : \A c \in Held(u) : f[index(c)] = e[index(c)],
           PushRight(t, r, f)', PopRight(t, g, f)', OwnRight(t, g, f)',
           \A i \in Slot : d_states'[i].st \in {"WRITING", "READING"} =>
              \/ \E c \in Held(t)' : index(c) = i
              \/ /\ d_states[i].st \in {"WRITING", "READING"}
                 /\ \A c \in Held(t) : index(c) # i
    PROVE  RingInv' /\ Ring(g, r, f)'
<1>1. ASSUME NEW p \in Nat
      PROVE  /\ Acquired(p, e) => Acquired(p, f)'
             /\ Taken(p, e) => Taken(p, f)'
  <2>1. PICK i \in Slot : i = Elem(p)
    BY ElemType
  <2>2. e[i] \in Nat /\ f[i] \in Nat /\ f[i] >= e[i]
    OBVIOUS
  <2>3. f[i] > p \/ e[i] > p \/ e[i] = p => f[i] > p \/ f[i] = e[i]
    BY <2>2
  <2>4. f[i] = e[i] => /\ d_states[i].st # "EMPTY" => d_states'[i].st # "EMPTY"
                       /\ d_states[i].st = "READING" => d_states'[i].st = "READING"
    OBVIOUS
  <2> QED BY <2>1, <2>2, <2>3, <2>4 DEF Acquired, Taken, Elem, Word, index
<1>2. ASSUME NEW u \in Thread \ {t}
      PROVE  PushRight(u, r, f)' /\ PopRight(u, g, f)' /\ OwnRight(u, g, f)'
  <2>1. /\ pc'[u] = pc[u] /\ loaded'[u] = loaded[u] /\ own'[u] = own[u]
        /\ op'[u] = op[u] /\ result'[u] = result[u]
    BY DEF SameOthers
  <2>2. PushRight(u, r, f)'
    <3> SUFFICES ASSUME pc[u] \in PushReads
                 PROVE  \E p \in Nat : /\ p <= r /\ (r - p) + Capacity < Turn
                                       /\ loaded[u] = Word(p)
                                       /\ pc[u] = "push_help" => Acquired(p, f)'
      BY <2>1 DEF PushRight, Acquired
    <3>1. PICK p \in Nat : /\ p <= q /\ (q - p) + Capacity < Turn /\ loaded[u] = Word(p)
                           /\ pc[u] = "push_help" => Acquired(p, e)
      BY DEF Ring, PushRight
    <3>2. Behind(Word(p), Word(r)) + Capacity < Turn
      BY <2>1, <3>1 DEF Timely
    <3> QED BY <1>1, <3>1, <3>2, StillNear
  <2>3. PopRight(u, g, f)'
    <3> SUFFICES ASSUME pc[u] \in PopReads
                 PROVE  \E p \in Nat : /\ p <= g /\ (g - p) + Capacity < Turn
                                       /\ loaded[u] = Word(p)
                                       /\ pc[u] \in {"pop_help", "clear_help"} => Taken(p, f)'
      BY <2>1 DEF PopRight, Taken
    <3>1. PICK p \in Nat : /\ p <= h /\ (h - p) + Capacity < Turn /\ loaded[u] = Word(p)
                           /\ pc[u] \in {"pop_help", "clear_help"} => Taken(p, e)
      BY DEF Ring, PopRight
    <3>2. Behind(Word(p), Word(g)) + Capacity < Turn
      BY <2>1, <3>1 DEF Timely
    <3> QED BY <1>1, <3>1, <3>2, StillNear
  <2>4. OwnRight(u, g, f)'
    <3>1. SafeInv /\ Types /\ CallRight(u) /\ HeldRight(u) /\ OwnRight(u, h, e)
      BY DEF RingInv, SafeInv, ThreadsRight, Ring
    <3>2. ASSUME own[u] # None
          PROVE  /\ own[u] \in Held(u) /\ f[index(own[u])] = e[index(own[u])]
                 /\ index(own[u]) \in Slot /\ e[index(own[u])] \in Nat
      BY <3>1, <3>2, HeldTypes, HeldAt
    <3>3. ASSUME pc[u] = "clear_ret" /\ result[u] = "success"
          PROVE  /\ f[index(loaded[u])] = e[index(loaded[u])]
                 /\ index(loaded[u]) \in Slot /\ e[index(loaded[u])] \in Nat
      <4>1. loaded[u] \in Held(u)
        BY <3>1, <3>3, HeldTypes DEF Clearing
      <4> QED BY <3>1, <4>1, HeldAt
    <3>4. ASSUME pc[u] = "abort_reading" \/ (pc[u] = "clear_ret" /\ result[u] = "end")
          PROVE  f[index(own[u])] = g
      <4>1. own[u] # None /\ Holds(own[u], "WRITING") /\ e[index(own[u])] = h
        BY <3>1, <3>4 DEF CallRight, HeldRight, Mode, OwnRight, Clears, Aborts
      <4>2. Elem(h) = index(own[u]) /\ d_states[index(own[u])].st = "WRITING"
        BY <3>1, <3>2, <4>1, HeldAt DEF Holds
      <4> QED BY <3>2, <4>1, <4>2
    <3>5. \/ pc[u] = "ret" /\ own[u] # None /\ op[u] \notin Pushing
          \/ pc[u] = "abort_empty"
          => f[index(own[u])] < g
      <4>1. pc[u] = "abort_empty" => own[u] # None
        BY <3>1 DEF CallRight, Aborts
      <4> QED BY <3>1, <3>2, <4>1 DEF OwnRight
    <3>6. pc[u] = "clear_ret" /\ result[u] = "success" => f[index(loaded[u])] < g
      BY <3>1, <3>3 DEF OwnRight
    <3>7. pc[u] \in {"push_advance", "pop_advance"} => loaded[u] = own[u]
      BY <3>1 DEF OwnRight
    <3> QED BY <2>1, <3>4, <3>5, <3>6, <3>7 DEF OwnRight, index
  <2> QED BY <2>2, <2>3, <2>4
<1>3. Ring(g, r, f)'
  BY <1>2 DEF Ring, Word
<1>4. Owned'
  <2> SUFFICES ASSUME NEW i \in Slot, d_states'[i].st \in {"WRITING", "READING"}
               PROVE  \E u \in Thread : \E c \in Held(u)' : index(c) = i
    BY DEF Owned, index
  <2>1. CASE \E c \in Held(t)' : index(c) = i
    BY <2>1
  <2>2. CASE d_states[i].st \in {"WRITING", "READING"} /\ \A c \in Held(t) : index(c) # i
    <3>1. PICK u \in Thread : \E c \in Held(u) : index(c) = i
      BY <2>2 DEF RingInv, Owned
    <3>2. u # t /\ Held(u)' = Held(u)
      BY <2>2, <3>1, OthersSame
    <3> QED BY <3>1, <3>2
  <2> QED BY <2>1, <2>2
<1> QED BY <1>3, <1>4 DEF RingInv

\* A step that moves neither an index nor an element.
LEMMA RingSame ==
    ASSUME RingInv, SafeInv', Timely', NEW t \in Thread, SameOthers(t),
           NEW h \in Nat, NEW q \in Nat, NEW e \in [Slot -> Nat], Ring(h, q, e),
           UNCHANGED <<d_popIndex, d_states>>, d_pushIndex'.index = d_pushIndex.index,
           Held(t) \subseteq Held(t)',
           PushRight(t, q, e)', PopRight(t, h, e)', OwnRight(t, h, e)'
    PROVE  RingInv' /\ Ring(h, q, e)'
<1>1. \A i \in Slot : SlotRight(i, h, q, e[i])'
  BY DEF Ring, SlotRight, Elem, Word, index, generation
<1>2. \A i \in Slot : e[i] >= e[i]
  OBVIOUS
<1> QED BY <1>1, <1>2, RingStep DEF Ring

\* d_pushIndex goes past a position that somebody has acquired.
LEMMA PushMoves ==
    ASSUME NEW h \in Nat, NEW q \in Nat, NEW e \in [Slot -> Nat], Ring(h, q, e),
           NEW p \in Nat, p <= q, q < p + Turn, Acquired(p, e),
           d_pushIndex \in [disabled : BOOLEAN, index : Combined],
           AdvancePushIndex(Word(p)), UNCHANGED d_states
    PROVE  \E r \in Nat : /\ r = q \/ (r = q + 1 /\ Acquired(q, e))
                          /\ d_pushIndex'.index = Word(r) /\ h <= r + 1
                          /\ \A i \in Slot : SlotRight(i, h, r, e[i])'
<1>0. Capacity \in Nat /\ Capacity >= 1
  BY Constants
<1>1. CASE d_pushIndex' = d_pushIndex
  <2>1. \A i \in Slot : SlotRight(i, h, q, e[i])'
    BY DEF Ring, SlotRight, Elem, Word, index, generation
  <2> QED BY <1>1, <2>1 DEF Ring
<1>2. CASE d_pushIndex' # d_pushIndex
  <2>1. d_pushIndex.index = Word(p) /\ d_pushIndex'.index = nextCombinedIndex(Word(p))
    BY <1>2 DEF AdvancePushIndex
  <2>2. p = q
    BY <2>1, Circle DEF Ring
  <2>3. d_pushIndex'.index = Word(q + 1)
    BY <2>1, <2>2, WordNext
  <2>4. ASSUME NEW i \in Slot PROVE SlotRight(i, h, q + 1, e[i])'
    <3>1. PICK a \in Nat : a = e[i]
      OBVIOUS
    <3>2. SlotRight(i, h, q, a) /\ Elem(a) = i /\ h <= q + 1
      BY <3>1 DEF Ring, SlotRight
    <3>3. /\ Elem(q) = i /\ a < q => a + Capacity <= q
          /\ Elem(q) = i /\ q < a => q + Capacity <= a
          /\ Elem(q) # i => a # q /\ q # a + Capacity
      BY <3>2, SamePlace, ElemType
    <3>4. Elem(q) = i => a > q \/ (a = q /\ d_states[i].st # "EMPTY")
      BY <2>2, <3>1 DEF Acquired
    <3>5. d_states'[i] = d_states[i]
      OBVIOUS
    <3>6. d_states[i].st \in {"WRITING", "FULL"} =>
             h <= a /\ a <= q + 1 /\ q + 1 <= a + Capacity /\ a < h + Capacity
      <4> SUFFICES ASSUME d_states[i].st \in {"WRITING", "FULL"}
                   PROVE  h <= a /\ a <= q + 1 /\ q + 1 <= a + Capacity /\ a < h + Capacity
        OBVIOUS
      <4>1. h <= a /\ a <= q /\ q <= a + Capacity /\ a < h + Capacity
        BY <3>2 DEF SlotRight
      <4> QED BY <1>0, <3>3, <3>4, <4>1
    <3>7. d_states[i].st = "READING" =>
             a <= h /\ h <= a + Capacity /\ a <= q + 1 /\ q + 1 <= a + Capacity
      <4> SUFFICES ASSUME d_states[i].st = "READING"
                   PROVE  a <= h /\ h <= a + Capacity /\ a <= q + 1 /\ q + 1 <= a + Capacity
        OBVIOUS
      <4>1. a <= h /\ h <= a + Capacity /\ a <= q /\ q <= a + Capacity
        BY <3>2 DEF SlotRight
      <4> QED BY <1>0, <3>3, <3>4, <4>1
    <3>8. d_states[i].st = "EMPTY" => q + 1 <= a /\ h <= a /\ a < h + Capacity
      <4> SUFFICES ASSUME d_states[i].st = "EMPTY"
                   PROVE  q + 1 <= a /\ h <= a /\ a < h + Capacity
        OBVIOUS
      <4>1. q <= a /\ h <= a /\ a < h + Capacity
        BY <3>2 DEF SlotRight
      <4> QED BY <1>0, <3>3, <3>4, <4>1
    <3> QED BY <3>1, <3>2, <3>5, <3>6, <3>7, <3>8
            DEF SlotRight, Elem, Word, index, generation
  <2>5. h <= (q + 1) + 1
    BY DEF Ring
  <2> QED BY <2>2, <2>3, <2>4, <2>5
<1> QED BY <1>1, <1>2

\* d_popIndex goes past a position that somebody has taken.
LEMMA PopMoves ==
    ASSUME NEW h \in Nat, NEW q \in Nat, NEW e \in [Slot -> Nat], Ring(h, q, e),
           NEW p \in Nat, p <= h, h < p + Turn, Taken(p, e),
           \A i \in Slot : d_states[i].st \in State,
           AdvancePopIndex(Word(p)), UNCHANGED d_states
    PROVE  \E g \in Nat : /\ \/ g = h
                             \/ g = h + 1 /\ e[Elem(h)] = h /\ d_states[Elem(h)].st = "READING"
                          /\ d_popIndex' = Word(g) /\ g <= q + 1 /\ p < g
                          /\ \A i \in Slot : SlotRight(i, g, q, e[i])'
<1>0. Capacity \in Nat /\ Capacity >= 1
  BY Constants
<1>1. CASE d_popIndex # Word(p)
  <2>1. \A i \in Slot : SlotRight(i, h, q, e[i])'
    BY DEF Ring, SlotRight, Elem, Word, index, generation
  <2>2. d_popIndex' = Word(h) /\ h # p /\ p < h /\ h <= q + 1
    BY <1>1 DEF Ring, AdvancePopIndex
  <2> QED BY <2>1, <2>2
<1>2. CASE d_popIndex = Word(p)
  <2>1. p = h /\ d_popIndex' = Word(h + 1)
    BY <1>2, Circle, WordNext DEF Ring, AdvancePopIndex
  <2>2. PICK j \in Slot : j = Elem(h)
    BY ElemType
  <2>3. PICK b \in Nat : b = e[j]
    OBVIOUS
  <2>4. b = h /\ d_states[j].st = "READING" /\ h <= q
    <3>1. b > h \/ (b = h /\ d_states[j].st = "READING")
      BY <2>1, <2>2, <2>3 DEF Taken
    <3>2. SlotRight(j, h, q, b) /\ Elem(b) = j
      BY <2>3 DEF Ring, SlotRight
    <3>3. b > h => h + Capacity <= b
      BY <2>2, <3>2, SamePlace
    <3>4. d_states[j].st \in {"WRITING", "FULL", "EMPTY"} => b < h + Capacity
      BY <3>2 DEF SlotRight
    <3>5. d_states[j].st = "READING" => b <= h /\ b <= q
      BY <3>2 DEF SlotRight
    <3>6. ~(b > h) \/ d_states[j].st = "READING"
      BY <3>1, <3>3, <3>4, <1>0 DEF State
    <3> QED BY <3>1, <3>5, <3>6
  <2>5. ASSUME NEW i \in Slot PROVE SlotRight(i, h + 1, q, e[i])'
    <3>1. PICK a \in Nat : a = e[i]
      OBVIOUS
    <3>2. SlotRight(i, h, q, a) /\ Elem(a) = i /\ h <= q + 1
      BY <3>1 DEF Ring, SlotRight
    <3>3. /\ i = j => a = h /\ d_states[i].st = "READING"
          /\ i # j => a # h /\ h # a + Capacity
      BY <2>2, <2>3, <2>4, <3>1, <3>2, ElemType
    <3>4. d_states'[i] = d_states[i]
      OBVIOUS
    <3>5. d_states[i].st \in {"WRITING", "FULL"} =>
             h + 1 <= a /\ a <= q /\ q <= a + Capacity /\ a < (h + 1) + Capacity
      <4> SUFFICES ASSUME d_states[i].st \in {"WRITING", "FULL"}
                   PROVE  h + 1 <= a /\ a <= q /\ q <= a + Capacity /\ a < (h + 1) + Capacity
        OBVIOUS
      <4>1. h <= a /\ a <= q /\ q <= a + Capacity /\ a < h + Capacity
        BY <3>2 DEF SlotRight
      <4> QED BY <1>0, <3>3, <4>1
    <3>6. d_states[i].st = "READING" =>
             a <= h + 1 /\ h + 1 <= a + Capacity /\ a <= q /\ q <= a + Capacity
      <4> SUFFICES ASSUME d_states[i].st = "READING"
                   PROVE  a <= h + 1 /\ h + 1 <= a + Capacity /\ a <= q /\ q <= a + Capacity
        OBVIOUS
      <4>1. a <= h /\ h <= a + Capacity /\ a <= q /\ q <= a + Capacity
        BY <3>2 DEF SlotRight
      <4> QED BY <1>0, <3>3, <4>1
    <3>7. d_states[i].st = "EMPTY" => q <= a /\ h + 1 <= a /\ a < (h + 1) + Capacity
      <4> SUFFICES ASSUME d_states[i].st = "EMPTY"
                   PROVE  q <= a /\ h + 1 <= a /\ a < (h + 1) + Capacity
        OBVIOUS
      <4>1. q <= a /\ h <= a /\ a < h + Capacity
        BY <3>2 DEF SlotRight
      <4> QED BY <1>0, <3>3, <4>1
    <3> QED BY <3>1, <3>2, <3>4, <3>5, <3>6, <3>7
            DEF SlotRight, Elem, Word, index, generation
  <2>6. h + 1 <= q + 1 /\ p < h + 1
    BY <2>1, <2>4
  <2> QED BY <2>1, <2>2, <2>3, <2>4, <2>5, <2>6
<1> QED BY <1>1, <1>2

\* A step of thread t that swaps element i, or empties it for its next position.
LEMMA RingSwap ==
    ASSUME RingInv, SafeInv', Timely', NEW t \in Thread, SameOthers(t),
           NEW h \in Nat, NEW q \in Nat, NEW e \in [Slot -> Nat], Ring(h, q, e),
           NEW i \in Slot, NEW a \in Nat, NEW f \in [Slot -> Nat],
           f[i] = a, \A j \in Slot \ {i} : f[j] = e[j],
           UNCHANGED <<d_pushIndex, d_popIndex>>,
           \A j \in Slot \ {i} : d_states'[j] = d_states[j],
           SlotRight(i, h, q, a)',
           \/ a > e[i]
           \/ /\ a = e[i]
              /\ d_states[i].st # "EMPTY" => d_states'[i].st # "EMPTY"
              /\ d_states[i].st = "READING" => d_states'[i].st = "READING",
           \A u \in Thread \ {t} : \A c \in Held(u) : index(c) # i,
           PushRight(t, q, f)', PopRight(t, h, f)', OwnRight(t, h, f)',
           \A c \in Held(t) : c \in Held(t)' \/ index(c) = i,
           d_states'[i].st \in {"WRITING", "READING"} => \E c \in Held(t)' : index(c) = i
    PROVE  RingInv' /\ Ring(h, q, f)'
<1>1. f[i] = a /\ \A j \in Slot \ {i} : f[j] = e[j]
  OBVIOUS
<1>2. ASSUME NEW j \in Slot PROVE SlotRight(j, h, q, f[j])'
  <2>1. CASE j = i
    BY <1>1, <2>1
  <2>2. CASE j # i
    <3>1. SlotRight(j, h, q, e[j]) /\ d_states'[j] = d_states[j] /\ f[j] = e[j]
      BY <1>1, <2>2 DEF Ring
    <3> QED BY <3>1 DEF SlotRight, Elem, Word, index, generation
  <2> QED BY <2>1, <2>2
<1>3. ASSUME NEW j \in Slot
      PROVE  /\ f[j] >= e[j]
             /\ f[j] = e[j] => /\ d_states[j].st # "EMPTY" => d_states'[j].st # "EMPTY"
                               /\ d_states[j].st = "READING" => d_states'[j].st = "READING"
  <2>1. CASE j = i
    <3>1. e[i] \in Nat
      OBVIOUS
    <3> QED BY <1>1, <2>1, <3>1
  <2>2. CASE j # i
    <3>1. e[j] \in Nat /\ f[j] = e[j] /\ d_states'[j] = d_states[j]
      BY <1>1, <2>2
    <3> QED BY <3>1
  <2> QED BY <2>1, <2>2
<1>4. \A u \in Thread \ {t} : \A c \in Held(u) : f[index(c)] = e[index(c)]
  BY <1>1, HeldStates DEF RingInv
<1>5. ASSUME NEW j \in Slot, d_states'[j].st \in {"WRITING", "READING"}
      PROVE  \/ \E c \in Held(t)' : index(c) = j
             \/ /\ d_states[j].st \in {"WRITING", "READING"}
                /\ \A c \in Held(t) : index(c) # j
  <2>1. CASE j = i
    BY <1>5, <2>1
  <2>2. CASE j # i
    BY <1>5, <2>2
  <2> QED BY <2>1, <2>2
<1>6. d_popIndex' = Word(h) /\ d_pushIndex'.index = Word(q) /\ h <= q + 1
  BY DEF Ring
<1> QED BY <1>2, <1>3, <1>4, <1>5, <1>6, RingStep

\* A step moves at most the indices, past positions that were acquired or taken.
Onward(h, q, e) ==
    /\ RingInv'
    /\ \E g, r \in Nat :
          /\ Ring(g, r, e)'
          /\ g = h \/ (g = h + 1 /\ e[Elem(h)] = h /\ d_states[Elem(h)].st = "READING")
          /\ r = q \/ (r = q + 1 /\ Acquired(q, e))

LEMMA SameOnward ==
    ASSUME RingInv, SafeInv', Timely', NEW t \in Thread, SameOthers(t),
           NEW h \in Nat, NEW q \in Nat, NEW e \in [Slot -> Nat], Ring(h, q, e),
           UNCHANGED <<d_popIndex, d_states>>, d_pushIndex'.index = d_pushIndex.index,
           Held(t) \subseteq Held(t)',
           PushRight(t, q, e)', PopRight(t, h, e)', OwnRight(t, h, e)'
    PROVE  Onward(h, q, e)
BY RingSame DEF Onward

LEMMA RightOf ==
    ASSUME RingInv, NEW t \in Thread
    PROVE  /\ SafeInv /\ Types /\ CallRight(t) /\ HeldRight(t)
           /\ loaded[t] \in Combined /\ own[t] \in Combined \cup {None}
           /\ pc \in [Thread -> QueuePC] /\ result[t] \in Result
           /\ d_pushIndex \in [disabled : BOOLEAN, index : Combined]
           /\ d_popIndex \in Combined
           /\ \A i \in Slot : d_states[i].st \in State
BY Registers DEF RingInv, SafeInv, ThreadsRight, Types, ManagerTypeOK

LEMMA PushReadRing ==
    ASSUME TwoGenerations, RingInv, SafeInv', Timely', NEW t \in Thread, SameOthers(t),
           NEW h \in Nat, NEW q \in Nat, NEW e \in [Slot -> Nat], Ring(h, q, e),
           UNCHANGED callVars,
           ReservePushLoad(t) \/ ReservePushBehind(t) \/ ReservePushTaken(t)
    PROVE  Onward(h, q, e)
<1>0. /\ CallRight(t) /\ pc \in [Thread -> QueuePC] /\ loaded[t] \in Combined
      /\ loaded \in [Thread -> Combined]
  BY RightOf DEF Types, ManagerTypeOK
<1>1. /\ pc[t] \in {"push_load", "push_swap"} /\ pc' = [pc EXCEPT ![t] = pc'[t]]
      /\ UNCHANGED <<d_pushIndex, d_popIndex, d_states, own>>
      /\ pc'[t] \in {"push_load", "push_swap", "push_help", "ret"}
      /\ pc'[t] = "push_swap" => loaded'[t] = d_pushIndex.index
      /\ pc'[t] = "push_help" => ReservePushTaken(t)
  BY <1>0 DEF ReservePushLoad, ReservePushBehind, ReservePushTaken, Goto, Return, sharedVars
<1>2. op' = op /\ op[t] \in Pushing
  BY <1>0, <1>1 DEF callVars, CallRight, PushCalls
<1>3. PushRight(t, q, e)'
  <2>1. CASE pc'[t] = "push_swap"
    <3>1. loaded'[t] = Word(q) /\ q <= q /\ (q - q) + Capacity < Turn
      BY <1>1, <2>1, Turns, Constants DEF Ring
    <3> QED BY <2>1, <3>1 DEF PushRight, Word
  <2>2. CASE pc'[t] = "push_help"
    <3>1. /\ pc[t] = "push_swap" /\ ~Holds(loaded[t], "EMPTY") /\ ~PushSeesPrevious(t)
          /\ loaded'[t] = loaded[t]
      BY <1>1, <2>2 DEF ReservePushTaken, Goto
    <3>2. PICK p \in Nat : p <= q /\ (q - p) + Capacity < Turn /\ loaded[t] = Word(p)
      BY <3>1 DEF Ring, PushRight, PushReads
    <3>3. PICK i \in Slot : i = Elem(p)
      BY ElemType
    <3>4. PICK a \in Nat : a = e[i]
      OBVIOUS
    <3>5. SlotRight(i, h, q, a) /\ Elem(a) = i /\ d_states[i].gen = generation(Word(a))
      BY <3>4 DEF Ring, SlotRight
    <3>6. index(loaded[t]) = i
      BY <3>2, <3>3 DEF Elem
    <3>7. a # p \/ d_states[i].st # "EMPTY"
      <4> SUFFICES ASSUME a = p, d_states[i].st = "EMPTY" PROVE FALSE
        OBVIOUS
      <4>1. d_states[i] = [gen |-> generation(loaded[t]), st |-> "EMPTY"]
        <5>1. d_states[i] \in [gen : Gen, st : State]
          BY RightOf DEF Types, ManagerTypeOK
        <5> QED BY <3>2, <3>5, <5>1
      <4> QED BY <3>1, <3>6, <4>1 DEF Holds
    <3>8. ~(a < p)
      <4> SUFFICES ASSUME a < p PROVE FALSE
        OBVIOUS
      <4>1. a + Capacity <= p
        BY <3>3, <3>5, SamePlace
      <4>2. q <= a + Capacity
        <5>1. d_states[i].st # "EMPTY" \/ q <= a
          BY <3>5 DEF SlotRight
        <5>2. d_states[i].st \in {"WRITING", "FULL", "READING"} => q <= a + Capacity
          BY <3>5 DEF SlotRight
        <5>3. d_states[i].st \in State
          BY RightOf
        <5> QED BY <5>1, <5>2, <5>3, Constants DEF State
      <4>3. p = a + Capacity
        BY <3>2, <4>1, <4>2, Constants
      <4>4. isPreviousGeneration(generation(Word(p)), generation(Word(a)))
        BY <4>3, NextRound
      <4> QED BY <3>1, <3>2, <3>5, <3>6, <4>4 DEF PushSeesPrevious, was
    <3>9. Acquired(p, e)'
      <4>1. a > p \/ (a = p /\ d_states'[i].st # "EMPTY")
        BY <1>1, <3>7, <3>8
      <4> QED BY <3>3, <3>4, <4>1 DEF Acquired, Elem, Word, index
    <3> QED BY <2>2, <3>1, <3>2, <3>9 DEF PushRight, Word
  <2>3. CASE pc'[t] \notin PushReads
    BY <2>3 DEF PushRight
  <2> QED BY <2>1, <2>2, <2>3 DEF PushReads
<1>4. PopRight(t, h, e)' /\ OwnRight(t, h, e)'
  BY <1>1, <1>2 DEF PopRight, OwnRight, PopReads
<1>5. Held(t) \subseteq Held(t)'
  BY <1>1 DEF Held
<1> QED BY <1>1, <1>3, <1>4, <1>5, SameOnward

LEMMA PushMoveRing ==
    ASSUME TwoGenerations, RingInv, SafeInv', Timely', NEW t \in Thread, SameOthers(t),
           NEW h \in Nat, NEW q \in Nat, NEW e \in [Slot -> Nat], Ring(h, q, e),
           UNCHANGED callVars, ReservePushHelp(t) \/ ReservePushAdvance(t)
    PROVE  Onward(h, q, e)
<1>0. /\ CallRight(t) /\ HeldRight(t) /\ pc \in [Thread -> QueuePC]
      /\ loaded \in [Thread -> Combined] /\ SafeInv /\ Types
      /\ d_pushIndex \in [disabled : BOOLEAN, index : Combined]
  BY RightOf DEF Types, ManagerTypeOK
<1>1. /\ pc[t] \in {"push_help", "push_advance"} /\ pc' = [pc EXCEPT ![t] = pc'[t]]
      /\ UNCHANGED <<d_popIndex, d_states, own>> /\ AdvancePushIndex(loaded[t])
      /\ pc'[t] \in {"push_swap", "ret"}
      /\ pc'[t] = "push_swap" => loaded'[t] = d_pushIndex.index
  BY <1>0 DEF ReservePushHelp, ReservePushAdvance, Goto, Return
<1>2. op' = op /\ op[t] \in Pushing
  BY <1>0, <1>1 DEF callVars, CallRight, PushCalls
<1>3. PICK p \in Nat : /\ loaded[t] = Word(p) /\ p <= q /\ q < p + Turn /\ Acquired(p, e)
  <2>1. CASE pc[t] = "push_help"
    <3>1. PICK p \in Nat : /\ p <= q /\ (q - p) + Capacity < Turn /\ loaded[t] = Word(p)
                           /\ Acquired(p, e)
      BY <2>1 DEF Ring, PushRight, PushReads
    <3>2. q < p + Turn
      BY <3>1, Turns, Constants
    <3> QED BY <3>1, <3>2
  <2>2. CASE pc[t] = "push_advance"
    <3>1. own[t] # None /\ loaded[t] = own[t] /\ Mode(t) = "WRITING"
      BY <1>0, <1>2, <2>2 DEF Ring, OwnRight, CallRight, Mode
    <3>2. own[t] \in Held(t) /\ Holds(own[t], "WRITING")
      BY <1>0, <3>1, HeldTypes DEF HeldRight
    <3>3. PICK p \in Nat : p = e[index(own[t])] /\ own[t] = Word(p)
                           /\ Elem(p) = index(own[t]) /\ index(own[t]) \in Slot
      BY <1>0, <3>2, HeldAt
    <3>4. d_states[Elem(p)].st = "WRITING" /\ p = e[Elem(p)]
      BY <3>2, <3>3 DEF Holds
    <3>5. p <= q /\ q <= p + Capacity
      BY <3>3, <3>4 DEF Ring, SlotRight
    <3>6. q < p + Turn
      BY <3>5, Turns, Constants
    <3> QED BY <3>1, <3>3, <3>4, <3>5, <3>6 DEF Acquired
  <2> QED BY <1>1, <2>1, <2>2
<1>4. PICK r \in Nat : /\ r = q \/ (r = q + 1 /\ Acquired(q, e))
                       /\ d_pushIndex'.index = Word(r) /\ h <= r + 1
                       /\ \A i \in Slot : SlotRight(i, h, r, e[i])'
  <2>1. AdvancePushIndex(Word(p)) /\ d_states' = d_states /\ p <= q /\ q < p + Turn
        /\ Acquired(p, e)
    BY <1>1, <1>3
  <2>2. d_pushIndex \in [disabled : BOOLEAN, index : Combined]
    BY <1>0
  <2> QED BY <2>1, <2>2, PushMoves
<1>5. PushRight(t, r, e)'
  <2>1. CASE pc'[t] = "push_swap"
    <3>1. loaded'[t] = Word(q) /\ q <= r /\ (r - q) + Capacity < Turn
      <4>1. loaded'[t] = Word(q)
        BY <1>1, <2>1 DEF Ring
      <4>2. Behind(Word(q), Word(r)) + Capacity < Turn
        BY <1>4, <2>1, <4>1 DEF Timely, PushReads
      <4>3. (q - q) + Capacity < Turn
        BY Turns, Constants
      <4> QED BY <1>4, <4>1, <4>2, <4>3, StillNear
    <3> QED BY <2>1, <3>1 DEF PushRight, Word
  <2>2. CASE pc'[t] = "ret"
    BY <2>2 DEF PushRight, PushReads
  <2> QED BY <1>1, <2>1, <2>2
<1>6. PopRight(t, h, e)' /\ OwnRight(t, h, e)'
  BY <1>1, <1>2 DEF PopRight, OwnRight, PopReads
<1>7. Held(t)' = Held(t) /\ Held(t) = {own[t]} \ {None}
  BY <1>1 DEF Held
<1>8. d_popIndex' = Word(h)
  BY <1>1 DEF Ring
<1>9. RingInv' /\ Ring(h, r, e)'
  <2>1. \A i \in Slot :
           /\ e[i] >= e[i]
           /\ e[i] = e[i] => /\ d_states[i].st # "EMPTY" => d_states'[i].st # "EMPTY"
                             /\ d_states[i].st = "READING" => d_states'[i].st = "READING"
    BY <1>1
  <2>2. \A i \in Slot : d_states'[i].st \in {"WRITING", "READING"} =>
              \/ \E c \in Held(t)' : index(c) = i
              \/ /\ d_states[i].st \in {"WRITING", "READING"}
                 /\ \A c \in Held(t) : index(c) # i
    BY <1>1, <1>7
  <2> QED BY <1>4, <1>5, <1>6, <1>8, <2>1, <2>2, RingStep
<1> QED BY <1>4, <1>9 DEF Onward

\* Element i is at position a, for the element of an index that some thread loaded.
LEMMA PlaceOf ==
    ASSUME RingInv, NEW h \in Nat, NEW q \in Nat, NEW e \in [Slot -> Nat], Ring(h, q, e),
           NEW p \in Nat
    PROVE  /\ Elem(p) \in Slot /\ e[Elem(p)] \in Nat /\ Elem(e[Elem(p)]) = Elem(p)
           /\ SlotRight(Elem(p), h, q, e[Elem(p)])
           /\ d_states[Elem(p)].gen = generation(Word(e[Elem(p)]))
           /\ d_states[Elem(p)] \in [gen : Gen, st : State]
           /\ d_states[Elem(p)].gen = generation(Word(p)) => Word(e[Elem(p)]) = Word(p)
<1>1. PICK i \in Slot : i = Elem(p)
  BY ElemType
<1>2. /\ e[i] \in Nat /\ SlotRight(i, h, q, e[i]) /\ Elem(e[i]) = i
      /\ d_states[i].gen = generation(Word(e[i]))
  BY DEF Ring, SlotRight
<1>3. d_states[i] \in [gen : Gen, st : State]
  BY DEF RingInv, SafeInv, Types, ManagerTypeOK
<1>4. ASSUME d_states[i].gen = generation(Word(p))
      PROVE  Word(e[i]) = Word(p)
  <2>1. generation(Word(e[i])) = generation(Word(p))
    BY <1>2, <1>4
  <2>2. Word(p) \in Combined /\ Elem(e[i]) = index(Word(p))
    BY <1>1, <1>2, WordType DEF Elem
  <2> QED BY <1>2, <2>1, <2>2, FoundAt
<1> QED BY <1>1, <1>2, <1>3, <1>4

LEMMA PushAcquireRing ==
    ASSUME TwoGenerations, RingInv, SafeInv', Timely', NEW t \in Thread, SameOthers(t),
           NEW h \in Nat, NEW q \in Nat, NEW e \in [Slot -> Nat], Ring(h, q, e),
           UNCHANGED callVars, ReservePushAcquire(t)
    PROVE  /\ RingInv' /\ Ring(h, q, e)'
           /\ loaded[t] = Word(q) /\ Elem(q) \in Slot /\ e[Elem(q)] = q
<1>0. /\ SafeInv /\ CallRight(t) /\ pc \in [Thread -> QueuePC] /\ loaded[t] \in Combined
      /\ own \in [Thread -> Combined \cup {None}] /\ Types
  BY RightOf DEF Types, ManagerTypeOK
<1>1. /\ pc[t] = "push_swap" /\ pc' = [pc EXCEPT ![t] = "push_advance"]
      /\ own' = [own EXCEPT ![t] = loaded[t]] /\ Holds(loaded[t], "EMPTY")
      /\ SetState(loaded[t], generation(loaded[t]), "WRITING")
      /\ UNCHANGED <<d_pushIndex, d_popIndex, loaded, saved, result>>
  BY DEF ReservePushAcquire, Goto
<1>2. PICK p \in Nat : p <= q /\ (q - p) + Capacity < Turn /\ loaded[t] = Word(p)
  BY <1>1 DEF Ring, PushRight, PushReads
<1>3. PICK i \in Slot, a \in Nat : i = Elem(p) /\ a = e[i] /\ i = index(loaded[t])
  BY <1>2, ElemType, PlaceOf DEF Elem
<1>4. d_states[i] = [gen |-> generation(loaded[t]), st |-> "EMPTY"]
  BY <1>1, <1>3 DEF Holds
<1>5. SlotRight(i, h, q, a) /\ Elem(a) = i /\ Word(a) = Word(p)
  <2>1. d_states[Elem(p)].gen = generation(Word(p))
    BY <1>2, <1>3, <1>4
  <2>2. Elem(e[Elem(p)]) = Elem(p) /\ SlotRight(Elem(p), h, q, e[Elem(p)])
    BY PlaceOf
  <2>3. Word(e[Elem(p)]) = Word(p)
    BY <2>1, PlaceOf
  <2> QED BY <1>3, <2>2, <2>3
<1>6. q <= a /\ h <= a /\ a < h + Capacity /\ h <= q + 1
  BY <1>4, <1>5 DEF SlotRight, Ring
<1>7. a = p /\ a = q
  <2>1. a < p + Turn /\ p <= a
    BY <1>2, <1>6, Turns, Constants
  <2>2. a = p
    BY <1>5, <2>1, Circle
  <2> QED BY <1>2, <1>6, <2>2
<1>8. /\ generation(loaded[t]) \in Gen /\ d_states'[i] = [gen |-> generation(loaded[t]), st |-> "WRITING"]
      /\ \A j \in Slot \ {i} : d_states'[j] = d_states[j]
  <2>1. generation(loaded[t]) \in Gen /\ "WRITING" \in State
    BY <1>0, IndexTypes DEF State
  <2> QED BY <1>0, <1>1, <1>3, <2>1, SwapTypes
<1>9. SlotRight(i, h, q, a)'
  <2>1. h <= a /\ a <= q /\ q <= a + Capacity /\ a < h + Capacity
    BY <1>6, <1>7, Constants
  <2>2. d_states'[i].gen = generation(Word(a)) /\ d_states'[i].st = "WRITING"
    BY <1>2, <1>5, <1>8
  <2>3. Elem(a) = i
    BY <1>5
  <2> QED BY <2>1, <2>2, <2>3 DEF SlotRight, Elem, Word, index, generation
<1>10. \A u \in Thread : \A c \in Held(u) : index(c) # i
  <2>1. d_states[index(loaded[t])].st = "EMPTY"
    BY <1>3, <1>4
  <2> QED BY <1>0, <1>3, <2>1, NobodyHolds
<1>11. pc'[t] = "push_advance" /\ own'[t] = loaded[t] /\ loaded'[t] = loaded[t]
  BY <1>0, <1>1
<1>12. PushRight(t, q, e)' /\ PopRight(t, h, e)' /\ OwnRight(t, h, e)'
  BY <1>11 DEF PushRight, PopRight, OwnRight, PushReads, PopReads
<1>13. \E c \in Held(t)' : index(c) = i
  <2>1. loaded[t] # None
    BY <1>0, IndexTypes
  <2> QED BY <1>3, <1>11, <2>1 DEF Held
<1>14. /\ a = e[i]
       /\ d_states[i].st # "EMPTY" => d_states'[i].st # "EMPTY"
       /\ d_states[i].st = "READING" => d_states'[i].st = "READING"
  BY <1>3, <1>4, <1>8
<1>15. RingInv' /\ Ring(h, q, e)'
  <2>1. UNCHANGED <<d_pushIndex, d_popIndex>> /\ e[i] = a
    BY <1>1, <1>3
  <2>2. Held(t) = {}
    BY <1>0, <1>1 DEF Held, CallRight, Clears, Aborts
  <2>3. \A j \in Slot \ {i} : e[j] = e[j]
    OBVIOUS
  <2> QED BY <1>8, <1>9, <1>10, <1>12, <1>13, <1>14, <2>1, <2>2, <2>3, RingSwap
<1> QED BY <1>2, <1>3, <1>7, <1>15

LEMMA PopReadRing ==
    ASSUME TwoGenerations, RingInv, SafeInv', Timely', NEW t \in Thread, SameOthers(t),
           NEW h \in Nat, NEW q \in Nat, NEW e \in [Slot -> Nat], Ring(h, q, e),
           UNCHANGED callVars,
           \/ ReservePopLoad(t) \/ ReservePopEmpty(t) \/ ReservePopRetry(t)
           \/ ReservePopTaken(t)
    PROVE  Onward(h, q, e)
<1>0. /\ CallRight(t) /\ pc \in [Thread -> QueuePC] /\ loaded[t] \in Combined
      /\ loaded \in [Thread -> Combined]
  BY RightOf DEF Types, ManagerTypeOK
<1>1. /\ pc[t] \in {"pop_load", "pop_swap"} /\ pc' = [pc EXCEPT ![t] = pc'[t]]
      /\ UNCHANGED <<d_pushIndex, d_popIndex, d_states, own>>
      /\ pc'[t] \in {"pop_load", "pop_swap", "pop_help", "ret"}
      /\ pc'[t] = "pop_swap" => loaded'[t] = d_popIndex
      /\ pc'[t] = "pop_help" => ReservePopTaken(t)
  BY <1>0 DEF ReservePopLoad, ReservePopEmpty, ReservePopRetry, ReservePopTaken, Goto,
     Return, sharedVars
<1>2. op' = op /\ own'[t] = None
  BY <1>0, <1>1 DEF callVars, CallRight, Clears, Aborts
<1>3. PopRight(t, h, e)'
  <2>1. CASE pc'[t] = "pop_swap"
    <3>1. loaded'[t] = Word(h) /\ h <= h /\ (h - h) + Capacity < Turn
      BY <1>1, <2>1, Turns, Constants DEF Ring
    <3> QED BY <2>1, <3>1 DEF PopRight, Word
  <2>2. CASE pc'[t] = "pop_help"
    <3>1. pc[t] = "pop_swap" /\ Holds(loaded[t], "READING") /\ loaded'[t] = loaded[t]
      BY <1>1, <2>2 DEF ReservePopTaken, Goto
    <3>2. PICK p \in Nat : p <= h /\ (h - p) + Capacity < Turn /\ loaded[t] = Word(p)
      BY <3>1 DEF Ring, PopRight, PopReads
    <3>3. PICK i \in Slot, a \in Nat : i = Elem(p) /\ a = e[i] /\ i = index(loaded[t])
      BY <3>2, ElemType, PlaceOf DEF Elem
    <3>4. d_states[i] = [gen |-> generation(loaded[t]), st |-> "READING"]
      BY <3>1, <3>3 DEF Holds
    <3>5. SlotRight(i, h, q, a) /\ Word(a) = Word(p)
      <4>1. d_states[Elem(p)].gen = generation(Word(p))
        BY <3>2, <3>3, <3>4
      <4>2. SlotRight(Elem(p), h, q, e[Elem(p)])
        BY PlaceOf
      <4>3. Word(e[Elem(p)]) = Word(p)
        BY <4>1, PlaceOf
      <4> QED BY <3>3, <4>2, <4>3
    <3>6. a <= h /\ h <= a + Capacity
      BY <3>4, <3>5 DEF SlotRight
    <3>7. a = p
      <4>1. CASE a <= p
        <5>1. p < a + Turn
          BY <3>2, <3>6, Turns, Constants
        <5> QED BY <3>5, <4>1, <5>1, Circle
      <4>2. CASE p <= a
        <5>1. a < p + Turn
          BY <3>2, <3>6, Turns, Constants
        <5> QED BY <3>5, <4>2, <5>1, Circle
      <4> QED BY <4>1, <4>2
    <3>8. Taken(p, e)'
      <4>1. a = p /\ d_states'[i].st = "READING"
        BY <1>1, <3>4, <3>7
      <4> QED BY <3>3, <4>1 DEF Taken, Elem, Word, index
    <3> QED BY <2>2, <3>1, <3>2, <3>8 DEF PopRight, Word
  <2>3. CASE pc'[t] \notin PopReads
    BY <2>3 DEF PopRight
  <2> QED BY <1>1, <2>1, <2>2, <2>3 DEF PopReads
<1>4. PushRight(t, q, e)' /\ OwnRight(t, h, e)'
  BY <1>1, <1>2 DEF PushRight, OwnRight, PushReads
<1>5. Held(t) \subseteq Held(t)'
  BY <1>1 DEF Held
<1> QED BY <1>1, <1>3, <1>4, <1>5, SameOnward

\* The position of the index with which a thread moves d_popIndex on: one it read
\* and found taken, and one it holds for reading.
LEMMA HelpPlace ==
    ASSUME TwoGenerations, NEW t \in Thread,
           NEW h \in Nat, NEW q \in Nat, NEW e \in [Slot -> Nat], Ring(h, q, e),
           pc[t] \in {"pop_help", "clear_help"}
    PROVE  \E p \in Nat : /\ loaded[t] = Word(p) /\ p <= h /\ h < p + Turn
                          /\ Taken(p, e)
<1>1. PICK p \in Nat : /\ p <= h /\ (h - p) + Capacity < Turn /\ loaded[t] = Word(p)
                       /\ Taken(p, e)
  BY DEF Ring, PopRight, PopReads
<1>2. h < p + Turn
  BY <1>1, Turns, Constants
<1> QED BY <1>1, <1>2

LEMMA ReadPlace ==
    ASSUME TwoGenerations, RingInv, NEW t \in Thread,
           NEW h \in Nat, NEW q \in Nat, NEW e \in [Slot -> Nat], Ring(h, q, e),
           NEW c \in Held(t), d_states[index(c)].st = "READING"
    PROVE  /\ index(c) \in Slot /\ c = Word(e[index(c)])
           /\ e[index(c)] <= h /\ h < e[index(c)] + Turn /\ Taken(e[index(c)], e)
<1>1. PICK p \in Nat : p = e[index(c)] /\ c = Word(p) /\ Elem(p) = index(c)
                       /\ index(c) \in Slot
  BY HeldAt DEF RingInv
<1>2. p <= h /\ h <= p + Capacity
  BY <1>1 DEF Ring, SlotRight
<1>3. h < p + Turn
  BY <1>2, Turns, Constants
<1> QED BY <1>1, <1>2, <1>3 DEF Taken

\* A step that moves d_popIndex past position p.
LEMMA PopMoveRing ==
    ASSUME TwoGenerations, RingInv, SafeInv', Timely', NEW t \in Thread, SameOthers(t),
           NEW h \in Nat, NEW q \in Nat, NEW e \in [Slot -> Nat], Ring(h, q, e),
           NEW p \in Nat, p <= h, h < p + Turn, Taken(p, e), AdvancePopIndex(Word(p)),
           UNCHANGED <<d_pushIndex, d_states>>, Held(t) \subseteq Held(t)',
           pc'[t] \notin PushReads,
           pc'[t] \in PopReads => /\ loaded'[t] = d_popIndex
                                  /\ pc'[t] \notin {"pop_help", "clear_help"},
           \A g \in Nat : p < g /\ (g = h \/ (g = h + 1 /\ d_states[Elem(h)].st = "READING"))
              => OwnRight(t, g, e)'
    PROVE  Onward(h, q, e)
<1>1. \A i \in Slot : d_states[i].st \in State
  BY RightOf
<1>2. PICK g \in Nat : /\ \/ g = h
                          \/ g = h + 1 /\ e[Elem(h)] = h /\ d_states[Elem(h)].st = "READING"
                       /\ d_popIndex' = Word(g) /\ g <= q + 1 /\ p < g
                       /\ \A i \in Slot : SlotRight(i, g, q, e[i])'
  BY <1>1, PopMoves
<1>3. PushRight(t, q, e)' /\ OwnRight(t, g, e)'
  BY <1>2 DEF PushRight
<1>4. PopRight(t, g, e)'
  <2>1. CASE pc'[t] \in PopReads
    <3>1. loaded'[t] = Word(h) /\ pc'[t] \notin {"pop_help", "clear_help"}
      BY <2>1 DEF Ring
    <3>2. Behind(Word(h), Word(g)) + Capacity < Turn
      BY <1>2, <2>1, <3>1 DEF Timely
    <3>3. (h - h) + Capacity < Turn /\ h <= h
      BY Turns, Constants
    <3>4. h <= g /\ (g - h) + Capacity < Turn
      BY <1>2, <3>2, <3>3, StillNear
    <3> QED BY <3>1, <3>4 DEF PopRight, Word
  <2> QED BY <2>1 DEF PopRight
<1>5. \A i \in Slot :
           /\ e[i] >= e[i]
           /\ e[i] = e[i] => /\ d_states[i].st # "EMPTY" => d_states'[i].st # "EMPTY"
                             /\ d_states[i].st = "READING" => d_states'[i].st = "READING"
  OBVIOUS
<1>6. \A i \in Slot : d_states'[i].st \in {"WRITING", "READING"} =>
              \/ \E c \in Held(t)' : index(c) = i
              \/ /\ d_states[i].st \in {"WRITING", "READING"}
                 /\ \A c \in Held(t) : index(c) # i
  OBVIOUS
<1>7. d_pushIndex'.index = Word(q)
  BY DEF Ring
<1>8. RingInv' /\ Ring(g, q, e)'
  BY <1>2, <1>3, <1>4, <1>5, <1>6, <1>7, RingStep
<1> QED BY <1>2, <1>8 DEF Onward

LEMMA PopAdvanceRing ==
    ASSUME TwoGenerations, RingInv, SafeInv', Timely', NEW t \in Thread, SameOthers(t),
           NEW h \in Nat, NEW q \in Nat, NEW e \in [Slot -> Nat], Ring(h, q, e),
           UNCHANGED callVars, ReservePopHelp(t) \/ ReservePopAdvance(t)
    PROVE  Onward(h, q, e)
<1>0. /\ SafeInv /\ Types /\ CallRight(t) /\ HeldRight(t) /\ pc \in [Thread -> QueuePC]
      /\ loaded \in [Thread -> Combined]
  BY RightOf DEF Types, ManagerTypeOK
<1>1. CASE ReservePopHelp(t)
  <2>1. /\ pc[t] = "pop_help" /\ pc'[t] = "pop_swap" /\ loaded'[t] = d_popIndex
        /\ UNCHANGED <<d_pushIndex, d_states, own>> /\ AdvancePopIndex(loaded[t])
    BY <1>0, <1>1 DEF ReservePopHelp, Goto
  <2>2. PICK p \in Nat : loaded[t] = Word(p) /\ p <= h /\ h < p + Turn /\ Taken(p, e)
    BY <2>1, HelpPlace
  <2>3. Held(t) \subseteq Held(t)'
    BY <2>1 DEF Held
  <2>4. \A g \in Nat : OwnRight(t, g, e)'
    BY <2>1 DEF OwnRight
  <2> QED BY <2>1, <2>2, <2>3, <2>4, PopMoveRing DEF PushReads
<1>2. CASE ReservePopAdvance(t)
  <2>1. /\ pc[t] = "pop_advance" /\ pc'[t] = "ret"
        /\ UNCHANGED <<d_pushIndex, d_states, own>> /\ AdvancePopIndex(loaded[t])
    BY <1>0, <1>2 DEF ReservePopAdvance, Goto, Return
  <2>2. /\ own[t] \in Held(t) /\ loaded[t] = own[t] /\ Holds(own[t], "READING")
    <3>1. own[t] # None /\ loaded[t] = own[t] /\ Mode(t) = "READING"
      BY <1>0, <2>1 DEF Ring, OwnRight, CallRight, Mode, PopCalls, Pushing, Popping
    <3> QED BY <1>0, <3>1, HeldTypes DEF HeldRight
  <2>3. PICK p \in Nat : /\ own[t] = Word(p) /\ p <= h /\ h < p + Turn /\ Taken(p, e)
                         /\ p = e[index(own[t])]
    <3>1. own[t] \in Held(t) /\ d_states[index(own[t])].st = "READING"
      BY <2>2 DEF Holds
    <3>2. /\ index(own[t]) \in Slot /\ own[t] = Word(e[index(own[t])])
          /\ e[index(own[t])] <= h /\ h < e[index(own[t])] + Turn /\ Taken(e[index(own[t])], e)
      BY <3>1, ReadPlace
    <3> QED BY <3>2
  <2>4. Held(t) \subseteq Held(t)'
    BY <2>1 DEF Held
  <2>5. \A g \in Nat : p < g => OwnRight(t, g, e)'
    BY <2>1, <2>3 DEF OwnRight, index
  <2> QED BY <2>1, <2>2, <2>3, <2>4, <2>5, PopMoveRing DEF PushReads, PopReads
<1> QED BY <1>1, <1>2

\* The element that a thread holds for writing, as it clears the queue.
LEMMA OwnPlace ==
    ASSUME TwoGenerations, RingInv, NEW t \in Thread,
           NEW h \in Nat, NEW q \in Nat, NEW e \in [Slot -> Nat], Ring(h, q, e),
           pc[t] \in Clears \cup {"abort_reading"} \/ (pc[t] = "ret" /\ op[t] \in Pushing),
           own[t] # None
    PROVE  /\ own[t] \in Held(t) /\ index(own[t]) \in Slot
           /\ d_states[index(own[t])].st = "WRITING"
           /\ \E a \in Nat : /\ a = e[index(own[t])] /\ own[t] = Word(a)
                             /\ Elem(a) = index(own[t])
                             /\ h <= a /\ a <= q /\ q <= a + Capacity /\ a < h + Capacity
                             /\ d_popIndex = own[t] => a = h
<1>1. Mode(t) = "WRITING" /\ own[t] \in Held(t) /\ SafeInv /\ HeldRight(t)
  <2>1. /\ CallRight(t) /\ HeldRight(t) /\ Types /\ SafeInv
    BY RightOf
  <2>2. Mode(t) = "WRITING"
    BY <2>1 DEF CallRight, Mode, Clears, Aborts
  <2> QED BY <2>1, <2>2, HeldTypes
<1>2. d_states[index(own[t])].st = "WRITING"
  BY <1>1 DEF HeldRight, Holds
<1>3. PICK a \in Nat : /\ a = e[index(own[t])] /\ own[t] = Word(a)
                       /\ Elem(a) = index(own[t]) /\ index(own[t]) \in Slot
  BY <1>1, HeldAt
<1>4. h <= a /\ a <= q /\ q <= a + Capacity /\ a < h + Capacity
  BY <1>2, <1>3 DEF Ring, SlotRight
<1>5. d_popIndex = own[t] => a = h
  <2>1. a < h + Turn
    BY <1>4, Turns, Constants
  <2> QED BY <1>3, <1>4, <2>1, Circle DEF Ring
<1> QED BY <1>1, <1>2, <1>3, <1>4, <1>5

LEMMA ClearMoveRing ==
    ASSUME TwoGenerations, RingInv, SafeInv', Timely', NEW t \in Thread, SameOthers(t),
           NEW h \in Nat, NEW q \in Nat, NEW e \in [Slot -> Nat], Ring(h, q, e),
           UNCHANGED callVars,
           ReserveClearHelp(t) \/ ReserveClearAdvance(t) \/ AbortAdvance(t)
    PROVE  Onward(h, q, e)
<1>0. /\ SafeInv /\ Types /\ CallRight(t) /\ HeldRight(t) /\ pc \in [Thread -> QueuePC]
      /\ loaded \in [Thread -> Combined] /\ result \in [Thread -> Result]
  BY RightOf DEF Types, ManagerTypeOK
<1>1. CASE ReserveClearHelp(t)
  <2>1. /\ pc[t] = "clear_help" /\ AdvancePopIndex(loaded[t])
        /\ UNCHANGED <<d_pushIndex, d_states, own>>
        /\ \/ d_popIndex = own[t] /\ pc'[t] = "clear_ret" /\ result'[t] = "end"
           \/ pc'[t] = "clear_swap" /\ loaded'[t] = d_popIndex
    BY <1>0, <1>1 DEF ReserveClearHelp, Goto
  <2>6. own[t] # None /\ pc[t] \in Clears
    BY <1>0, <2>1 DEF CallRight, Clears
  <2>7. PICK a \in Nat : /\ a = e[index(own[t])] /\ Elem(a) = index(own[t])
                         /\ d_popIndex = own[t] => a = h
    BY <2>1, <2>6, OwnPlace DEF Clears
  <2>2. PICK p \in Nat : loaded[t] = Word(p) /\ p <= h /\ h < p + Turn /\ Taken(p, e)
    BY <2>1, HelpPlace
  <2>3. Held(t) \subseteq Held(t)'
    BY <2>1 DEF Held
  <2>4. ASSUME NEW g \in Nat, g = h \/ (g = h + 1 /\ d_states[Elem(h)].st = "READING")
        PROVE  OwnRight(t, g, e)'
    <3>1. CASE pc'[t] = "clear_swap"
      BY <3>1 DEF OwnRight
    <3>2. CASE d_popIndex = own[t] /\ pc'[t] = "clear_ret" /\ result'[t] = "end"
      <4>2. a = e[index(own[t])] /\ Elem(a) = index(own[t]) /\ a = h
        BY <2>7, <3>2
      <4>3. d_states[index(own[t])].st = "WRITING"
        BY <2>6, OwnPlace
      <4>4. g = h
        BY <2>4, <4>2, <4>3
      <4>5. e[index(own'[t])] = g
        BY <2>1, <4>2, <4>4
      <4> QED BY <3>2, <4>5 DEF OwnRight, index
    <3> QED BY <2>1, <3>1, <3>2
  <2>5. pc'[t] \notin PushReads
        /\ (pc'[t] \in PopReads => /\ loaded'[t] = d_popIndex
                                   /\ pc'[t] \notin {"pop_help", "clear_help"})
    BY <2>1 DEF PushReads, PopReads
  <2> QED BY <2>1, <2>2, <2>3, <2>4, <2>5, PopMoveRing
<1>2. CASE ReserveClearAdvance(t)
  <2>1. /\ pc[t] = "clear_advance" /\ pc'[t] = "clear_ret" /\ result'[t] = "success"
        /\ UNCHANGED <<d_pushIndex, d_states, loaded, own>> /\ AdvancePopIndex(loaded[t])
    BY <1>0, <1>2 DEF ReserveClearAdvance, Goto
  <2>2. loaded[t] \in Held(t) /\ Holds(loaded[t], "READING")
    BY <1>0, <2>1, HeldTypes DEF HeldRight, Clearing
  <2>3. PICK p \in Nat : /\ loaded[t] = Word(p) /\ p <= h /\ h < p + Turn /\ Taken(p, e)
                         /\ p = e[index(loaded[t])]
    <3>1. loaded[t] \in Held(t) /\ d_states[index(loaded[t])].st = "READING"
      BY <2>2 DEF Holds
    <3>2. /\ index(loaded[t]) \in Slot /\ loaded[t] = Word(e[index(loaded[t])])
          /\ e[index(loaded[t])] <= h /\ h < e[index(loaded[t])] + Turn /\ Taken(e[index(loaded[t])], e)
      BY <3>1, ReadPlace
    <3> QED BY <3>2
  <2>4. Held(t) \subseteq Held(t)'
    BY <2>1 DEF Held
  <2>5. \A g \in Nat : p < g => OwnRight(t, g, e)'
    BY <2>1, <2>3 DEF OwnRight, index
  <2> QED BY <2>1, <2>2, <2>3, <2>4, <2>5, PopMoveRing DEF PushReads, PopReads
<1>3. CASE AbortAdvance(t)
  <2>1. /\ pc[t] = "abort_advance" /\ pc'[t] = "abort_empty"
        /\ UNCHANGED <<d_pushIndex, d_states, loaded, own>> /\ AdvancePopIndex(own[t])
    BY <1>0, <1>3 DEF AbortAdvance, Goto
  <2>2. own[t] \in Held(t) /\ Holds(own[t], "READING")
    <3>1. own[t] # None /\ Mode(t) = "READING"
      BY <1>0, <2>1 DEF CallRight, Mode, Aborts
    <3> QED BY <1>0, <3>1, HeldTypes DEF HeldRight
  <2>3. PICK p \in Nat : /\ own[t] = Word(p) /\ p <= h /\ h < p + Turn /\ Taken(p, e)
                         /\ p = e[index(own[t])]
    <3>1. own[t] \in Held(t) /\ d_states[index(own[t])].st = "READING"
      BY <2>2 DEF Holds
    <3>2. /\ index(own[t]) \in Slot /\ own[t] = Word(e[index(own[t])])
          /\ e[index(own[t])] <= h /\ h < e[index(own[t])] + Turn /\ Taken(e[index(own[t])], e)
      BY <3>1, ReadPlace
    <3> QED BY <3>2
  <2>4. Held(t) \subseteq Held(t)'
    BY <2>1 DEF Held
  <2>5. \A g \in Nat : p < g => OwnRight(t, g, e)'
    BY <2>1, <2>3 DEF OwnRight, index
  <2> QED BY <2>1, <2>2, <2>3, <2>4, <2>5, PopMoveRing DEF PushReads, PopReads
<1> QED BY <1>1, <1>2, <1>3

LEMMA ClearReadRing ==
    ASSUME TwoGenerations, RingInv, SafeInv', Timely', NEW t \in Thread, SameOthers(t),
           NEW h \in Nat, NEW q \in Nat, NEW e \in [Slot -> Nat], Ring(h, q, e),
           UNCHANGED callVars,
           ReserveClearLoad(t) \/ (ReserveClearSwap(t) /\ UNCHANGED d_states)
    PROVE  Onward(h, q, e)
<1>0. /\ CallRight(t) /\ pc \in [Thread -> QueuePC] /\ loaded[t] \in Combined
      /\ loaded \in [Thread -> Combined] /\ result \in [Thread -> Result]
      /\ \A i \in Slot : d_states[i] \in [gen : Gen, st : State]
  BY RightOf DEF Types, ManagerTypeOK
<1>1. /\ pc[t] \in {"clear_load", "clear_swap"}
      /\ UNCHANGED <<d_pushIndex, d_popIndex, d_states, own>>
      /\ \/ pc[t] = "clear_load" /\ d_popIndex = own[t] /\ pc'[t] = "clear_ret" /\ result'[t] = "end"
         \/ pc[t] = "clear_load" /\ pc'[t] = "clear_swap" /\ loaded'[t] = d_popIndex
         \/ pc'[t] = "clear_load"
         \/ /\ pc[t] = "clear_swap" /\ pc'[t] = "clear_help" /\ loaded' = loaded
            /\ was(loaded[t]).st \in {"EMPTY", "READING"}
  <2>1. CASE ReserveClearLoad(t)
    BY <1>0, <2>1 DEF ReserveClearLoad, Goto, sharedVars
  <2>2. CASE ReserveClearSwap(t) /\ UNCHANGED d_states
    <3>1. index(loaded[t]) \in Slot
      BY <1>0, IndexTypes
    <3>2. ~(Holds(loaded[t], "FULL") /\ SetState(loaded[t], generation(loaded[t]), "READING"))
      <4>1. d_states \in [Slot -> [gen : Gen, st : State]]
        BY RightOf DEF Types, ManagerTypeOK
      <4> QED BY <2>2, <3>1, <4>1 DEF Holds, SetState
    <3> QED BY <1>0, <2>2, <3>2 DEF ReserveClearSwap, Goto
  <2> QED BY <2>1, <2>2
<1>2. own[t] # None /\ op' = op
  BY <1>0, <1>1 DEF CallRight, Clears, callVars
<1>3. PICK b \in Nat : /\ b = e[index(own[t])] /\ Elem(b) = index(own[t])
                       /\ h <= b /\ b <= q /\ (d_popIndex = own[t] => b = h)
  BY <1>1, <1>2, OwnPlace DEF Clears
<1>4. d_states[index(own[t])].st = "WRITING"
  BY <1>1, <1>2, OwnPlace DEF Clears
<1>5. PopRight(t, h, e)'
  <2>1. CASE pc'[t] = "clear_swap" /\ loaded'[t] = d_popIndex
    <3>1. loaded'[t] = Word(h) /\ h <= h /\ (h - h) + Capacity < Turn
      BY <2>1, Turns, Constants DEF Ring
    <3> QED BY <2>1, <3>1 DEF PopRight, Word
  <2>2. CASE /\ pc[t] = "clear_swap" /\ pc'[t] = "clear_help" /\ loaded' = loaded
             /\ was(loaded[t]).st \in {"EMPTY", "READING"}
    <3>1. PICK p \in Nat : p <= h /\ (h - p) + Capacity < Turn /\ loaded[t] = Word(p)
      BY <2>2 DEF Ring, PopRight, PopReads
    <3>2. PICK i \in Slot, a \in Nat : i = Elem(p) /\ a = e[i] /\ i = index(loaded[t])
      BY <3>1, ElemType, PlaceOf DEF Elem
    <3>3. SlotRight(i, h, q, a) /\ Elem(a) = Elem(p) /\ d_states[i].st \in {"EMPTY", "READING"}
      <4>1. SlotRight(Elem(p), h, q, e[Elem(p)]) /\ Elem(e[Elem(p)]) = Elem(p)
        BY PlaceOf
      <4> QED BY <2>2, <3>2, <4>1 DEF was
    <3>4. i # index(own[t]) /\ Elem(h) = i => h # b
      BY <1>3, <1>4, <3>3
    <3>5. /\ d_states[i].st = "EMPTY" => q <= a /\ h <= a
          /\ d_states[i].st = "READING" => q <= a + Capacity /\ h <= a + Capacity
      BY <3>3 DEF SlotRight
    <3>6. (a < p => a + Capacity <= p) /\ Capacity >= 1 /\ Capacity \in Nat
      BY <3>3, SamePlace, Constants
    <3>7. h = p => Elem(h) = i
      BY <3>2
    <3>8. i # index(own[t])
      BY <1>4, <3>3
    <3>9. a > p \/ (a = p /\ d_states[i].st = "READING")
      <4>1. CASE d_states[i].st = "EMPTY"
        BY <1>3, <3>1, <3>4, <3>5, <3>7, <3>8, <4>1
      <4>2. CASE d_states[i].st = "READING"
        BY <1>3, <3>1, <3>4, <3>5, <3>6, <3>7, <3>8, <4>2
      <4> QED BY <3>3, <4>1, <4>2
    <3>10. Taken(p, e)'
      <4>1. d_states'[i].st = d_states[i].st
        BY <1>1
      <4> QED BY <3>2, <3>9, <4>1 DEF Taken, Elem, Word, index
    <3>11. loaded'[t] = Word(p)
      BY <2>2, <3>1
    <3> QED BY <2>2, <3>1, <3>10, <3>11 DEF PopRight, Word
  <2>3. CASE pc'[t] \notin PopReads
    BY <2>3 DEF PopRight
  <2> QED BY <1>1, <2>1, <2>2, <2>3 DEF PopReads
<1>6. PushRight(t, q, e)'
  BY <1>1 DEF PushRight, PushReads
<1>7. OwnRight(t, h, e)'
  <2>1. pc'[t] = "clear_ret" => result'[t] = "end" /\ e[index(own'[t])] = h
    BY <1>1, <1>3
  <2>2. pc'[t] \in {"clear_ret", "clear_swap", "clear_load", "clear_help"}
    BY <1>1
  <2> QED BY <2>1, <2>2 DEF OwnRight, index
<1>8. Held(t) \subseteq Held(t)'
  BY <1>1 DEF Held
<1> QED BY <1>1, <1>5, <1>6, <1>7, <1>8, SameOnward

\* An element that a thread finds full at the index it has loaded is the oldest.
LEMMA FullIsOldest ==
    ASSUME TwoGenerations, RingInv, NEW t \in Thread,
           NEW h \in Nat, NEW q \in Nat, NEW e \in [Slot -> Nat], Ring(h, q, e),
           pc[t] \in {"pop_swap", "clear_swap"}, Holds(loaded[t], "FULL")
    PROVE  /\ loaded[t] = Word(h) /\ Elem(h) = index(loaded[t]) /\ Elem(h) \in Slot
           /\ e[Elem(h)] = h /\ d_states[Elem(h)].st = "FULL"
           /\ h <= q /\ q <= h + Capacity
<1>1. PICK p \in Nat : p <= h /\ (h - p) + Capacity < Turn /\ loaded[t] = Word(p)
  BY DEF Ring, PopRight, PopReads
<1>2. PICK i \in Slot, a \in Nat : i = Elem(p) /\ a = e[i] /\ i = index(loaded[t])
  BY <1>1, ElemType, PlaceOf DEF Elem
<1>3. d_states[i] = [gen |-> generation(loaded[t]), st |-> "FULL"]
  BY <1>2 DEF Holds
<1>4. SlotRight(i, h, q, a) /\ Word(a) = Word(p)
  <2>1. d_states[Elem(p)].gen = generation(Word(p))
    BY <1>1, <1>2, <1>3
  <2>2. SlotRight(Elem(p), h, q, e[Elem(p)])
    BY PlaceOf
  <2>3. Word(e[Elem(p)]) = Word(p)
    BY <2>1, PlaceOf
  <2> QED BY <1>2, <2>2, <2>3
<1>5. h <= a /\ a <= q /\ q <= a + Capacity /\ a < h + Capacity
  BY <1>3, <1>4 DEF SlotRight
<1>6. a = p
  <2>1. p <= h /\ (h - p) + Capacity < Turn /\ h <= a /\ a < h + Capacity
    BY <1>1, <1>5
  <2>2. Turn \in Nat /\ Capacity \in Nat
    BY Turns, Constants
  <2>3. p <= a /\ a < p + Turn
    BY <2>1, <2>2
  <2> QED BY <1>4, <2>3, Circle
<1>7. p = h /\ a = h
  BY <1>1, <1>5, <1>6
<1>8. i = Elem(h) /\ loaded[t] = Word(h) /\ h <= q /\ q <= h + Capacity
  BY <1>1, <1>2, <1>5, <1>7
<1>9. e[i] = h /\ d_states[i].st = "FULL" /\ i = index(loaded[t])
  BY <1>2, <1>3, <1>7
<1> QED BY <1>8, <1>9

\* The oldest element is being read: the bounds of its position.
LEMMA ReadSlot ==
    ASSUME NEW h \in Nat, NEW q \in Nat, NEW e \in [Slot -> Nat], Ring(h, q, e),
           e[Elem(h)] = h, h <= q, q <= h + Capacity,
           d_states'[Elem(h)].gen = d_states[Elem(h)].gen,
           d_states'[Elem(h)].st = "READING"
    PROVE  SlotRight(Elem(h), h, q, h)'
<1>1. SlotRight(Elem(h), h, q, e[Elem(h)])
  BY ElemType DEF Ring
<1>2. d_states[Elem(h)].gen = generation(Word(h))
  BY <1>1 DEF SlotRight
<1>3. h <= h /\ h <= h + Capacity
  BY Constants
<1> QED BY <1>2, <1>3 DEF SlotRight, Elem, Word, index, generation

LEMMA PopAcquireRing ==
    ASSUME TwoGenerations, RingInv, SafeInv', Timely', NEW t \in Thread, SameOthers(t),
           NEW h \in Nat, NEW q \in Nat, NEW e \in [Slot -> Nat], Ring(h, q, e),
           UNCHANGED callVars, ReservePopAcquire(t)
    PROVE  RingInv' /\ Ring(h, q, e)'
<1>0. /\ SafeInv /\ CallRight(t) /\ pc \in [Thread -> QueuePC] /\ loaded[t] \in Combined
      /\ own \in [Thread -> Combined \cup {None}] /\ Types
  BY RightOf DEF Types, ManagerTypeOK
<1>1. /\ pc[t] = "pop_swap" /\ pc' = [pc EXCEPT ![t] = "pop_advance"]
      /\ own' = [own EXCEPT ![t] = loaded[t]] /\ Holds(loaded[t], "FULL")
      /\ SetState(loaded[t], generation(loaded[t]), "READING")
      /\ UNCHANGED <<d_pushIndex, d_popIndex, loaded, saved, result>>
  BY DEF ReservePopAcquire, Goto
<1>2. /\ loaded[t] = Word(h) /\ Elem(h) = index(loaded[t]) /\ Elem(h) \in Slot
      /\ e[Elem(h)] = h /\ d_states[Elem(h)].st = "FULL"
      /\ h <= q /\ q <= h + Capacity
  BY <1>1, FullIsOldest
<1>3. PICK i \in Slot : i = Elem(h)
  BY <1>2
<1>4. d_states[i] = [gen |-> generation(loaded[t]), st |-> "FULL"]
  BY <1>1, <1>2, <1>3 DEF Holds
<1>5. /\ d_states'[i] = [gen |-> generation(loaded[t]), st |-> "READING"]
      /\ \A j \in Slot \ {i} : d_states'[j] = d_states[j]
  <2>1. generation(loaded[t]) \in Gen /\ "READING" \in State
    BY <1>0, IndexTypes DEF State
  <2> QED BY <1>0, <1>1, <1>2, <1>3, <2>1, SwapTypes
<1>6. SlotRight(i, h, q, h)'
  BY <1>2, <1>3, <1>4, <1>5, ReadSlot
<1>7. \A u \in Thread : \A c \in Held(u) : index(c) # i
  BY <1>0, <1>2, <1>3, <1>4, NobodyHolds
<1>8. pc'[t] = "pop_advance" /\ own'[t] = loaded[t] /\ loaded'[t] = loaded[t]
  BY <1>0, <1>1
<1>9. PushRight(t, q, e)' /\ PopRight(t, h, e)' /\ OwnRight(t, h, e)'
  BY <1>8 DEF PushRight, PopRight, OwnRight, PushReads, PopReads
<1>10. \E c \in Held(t)' : index(c) = i
  <2>1. loaded[t] # None
    BY <1>0, IndexTypes
  <2> QED BY <1>2, <1>3, <1>8, <2>1 DEF Held
<1>11. /\ h = e[i]
       /\ d_states[i].st # "EMPTY" => d_states'[i].st # "EMPTY"
       /\ d_states[i].st = "READING" => d_states'[i].st = "READING"
  BY <1>2, <1>3, <1>4, <1>5
<1>12. UNCHANGED <<d_pushIndex, d_popIndex>> /\ e[i] = h
  BY <1>1, <1>11
<1>13. Held(t) = {}
  BY <1>0, <1>1 DEF Held, CallRight, Clears, Aborts
<1>14. \A j \in Slot \ {i} : e[j] = e[j]
  OBVIOUS
<1> QED BY <1>5, <1>6, <1>7, <1>9, <1>10, <1>11, <1>12, <1>13, <1>14, RingSwap

LEMMA ClearAcquireRing ==
    ASSUME TwoGenerations, RingInv, SafeInv', Timely', NEW t \in Thread, SameOthers(t),
           NEW h \in Nat, NEW q \in Nat, NEW e \in [Slot -> Nat], Ring(h, q, e),
           UNCHANGED callVars, ReserveClearSwap(t), Holds(loaded[t], "FULL")
    PROVE  RingInv' /\ Ring(h, q, e)'
<1>0. /\ SafeInv /\ CallRight(t) /\ pc \in [Thread -> QueuePC] /\ loaded[t] \in Combined
      /\ own \in [Thread -> Combined \cup {None}] /\ Types
  BY RightOf DEF Types, ManagerTypeOK
<1>a. was(loaded[t]).st = "FULL"
  BY DEF Holds, was
<1>1. /\ pc[t] = "clear_swap" /\ pc' = [pc EXCEPT ![t] = "clear_advance"]
      /\ SetState(loaded[t], generation(loaded[t]), "READING")
      /\ UNCHANGED <<d_pushIndex, d_popIndex, loaded, saved, own, result>>
  BY <1>a DEF ReserveClearSwap, Goto
<1>2. /\ loaded[t] = Word(h) /\ Elem(h) = index(loaded[t]) /\ Elem(h) \in Slot
      /\ e[Elem(h)] = h /\ d_states[Elem(h)].st = "FULL"
      /\ h <= q /\ q <= h + Capacity
  BY <1>1, FullIsOldest
<1>3. PICK i \in Slot : i = Elem(h)
  BY <1>2
<1>4. d_states[i] = [gen |-> generation(loaded[t]), st |-> "FULL"]
  BY <1>1, <1>2, <1>3 DEF Holds
<1>5. /\ d_states'[i] = [gen |-> generation(loaded[t]), st |-> "READING"]
      /\ \A j \in Slot \ {i} : d_states'[j] = d_states[j]
  <2>1. generation(loaded[t]) \in Gen /\ "READING" \in State
    BY <1>0, IndexTypes DEF State
  <2> QED BY <1>0, <1>1, <1>2, <1>3, <2>1, SwapTypes
<1>6. SlotRight(i, h, q, h)'
  BY <1>2, <1>3, <1>4, <1>5, ReadSlot
<1>7. \A u \in Thread : \A c \in Held(u) : index(c) # i
  BY <1>0, <1>2, <1>3, <1>4, NobodyHolds
<1>8. pc'[t] = "clear_advance" /\ own'[t] = own[t] /\ loaded'[t] = loaded[t]
  BY <1>0, <1>1
<1>9. PushRight(t, q, e)' /\ PopRight(t, h, e)' /\ OwnRight(t, h, e)'
  BY <1>8 DEF PushRight, PopRight, OwnRight, PushReads, PopReads
<1>10. \E c \in Held(t)' : index(c) = i
  BY <1>2, <1>3, <1>8 DEF Held
<1>11. /\ h = e[i]
       /\ d_states[i].st # "EMPTY" => d_states'[i].st # "EMPTY"
       /\ d_states[i].st = "READING" => d_states'[i].st = "READING"
  BY <1>2, <1>3, <1>4, <1>5
<1>12. UNCHANGED <<d_pushIndex, d_popIndex>> /\ e[i] = h
  BY <1>1, <1>11
<1>13. Held(t) \subseteq Held(t)'
  BY <1>1, <1>8 DEF Held
<1>14. \A j \in Slot \ {i} : e[j] = e[j]
  OBVIOUS
<1> QED BY <1>5, <1>6, <1>7, <1>9, <1>10, <1>11, <1>12, <1>13, <1>14, RingSwap

LEMMA AbortReadingRing ==
    ASSUME TwoGenerations, RingInv, SafeInv', Timely', NEW t \in Thread, SameOthers(t),
           NEW h \in Nat, NEW q \in Nat, NEW e \in [Slot -> Nat], Ring(h, q, e),
           UNCHANGED callVars, AbortReading(t)
    PROVE  /\ RingInv' /\ Ring(h, q, e)'
           /\ own[t] = Word(h) /\ Elem(h) = index(own[t]) /\ Elem(h) \in Slot
           /\ e[Elem(h)] = h /\ d_states[Elem(h)].st = "WRITING"
<1>0. /\ SafeInv /\ CallRight(t) /\ pc \in [Thread -> QueuePC]
      /\ own \in [Thread -> Combined \cup {None}] /\ Types
  BY RightOf DEF Types, ManagerTypeOK
<1>1. /\ pc[t] = "abort_reading" /\ pc' = [pc EXCEPT ![t] = "abort_advance"]
      /\ SetState(own[t], generation(own[t]), "READING")
      /\ UNCHANGED <<d_pushIndex, d_popIndex, loaded, saved, own, result>>
  BY DEF AbortReading, Goto
<1>2. own[t] # None /\ e[index(own[t])] = h
  BY <1>0, <1>1 DEF CallRight, Aborts, Ring, OwnRight
<1>3. /\ own[t] \in Held(t) /\ index(own[t]) \in Slot
      /\ d_states[index(own[t])].st = "WRITING"
  BY <1>1, <1>2, OwnPlace
<1>4. PICK a \in Nat : /\ a = e[index(own[t])] /\ own[t] = Word(a)
                       /\ Elem(a) = index(own[t])
                       /\ h <= a /\ a <= q /\ q <= a + Capacity
  BY <1>1, <1>2, OwnPlace
<1>5. a = h /\ own[t] = Word(h) /\ Elem(h) = index(own[t])
  BY <1>2, <1>4
<1>6. PICK i \in Slot : i = Elem(h)
  BY <1>3, <1>5
<1>7. /\ d_states'[i] = [gen |-> generation(own[t]), st |-> "READING"]
      /\ \A j \in Slot \ {i} : d_states'[j] = d_states[j]
  <2>1. generation(own[t]) \in Gen /\ "READING" \in State /\ own[t] \in Combined
    BY <1>0, <1>2, IndexTypes DEF State
  <2> QED BY <1>0, <1>1, <1>5, <1>6, <2>1, SwapTypes
<1>8. d_states[i].gen = generation(own[t])
  BY <1>0, <1>3, <1>5, <1>6, HeldStates
<1>9. SlotRight(i, h, q, h)'
  BY <1>2, <1>4, <1>5, <1>6, <1>7, <1>8, ReadSlot
<1>10. \A u \in Thread \ {t} : \A c \in Held(u) : index(c) # i
  BY <1>0, <1>3, <1>5, <1>6, NobodyElseHolds
<1>11. pc'[t] = "abort_advance" /\ own'[t] = own[t]
  BY <1>0, <1>1
<1>12. PushRight(t, q, e)' /\ PopRight(t, h, e)' /\ OwnRight(t, h, e)'
  BY <1>11 DEF PushRight, PopRight, OwnRight, PushReads, PopReads
<1>13. \E c \in Held(t)' : index(c) = i
  BY <1>2, <1>5, <1>6, <1>11 DEF Held
<1>14. /\ h = e[i]
       /\ d_states[i].st # "EMPTY" => d_states'[i].st # "EMPTY"
       /\ d_states[i].st = "READING" => d_states'[i].st = "READING"
  BY <1>2, <1>3, <1>5, <1>6, <1>7
<1>15. UNCHANGED <<d_pushIndex, d_popIndex>> /\ e[i] = h
  BY <1>1, <1>14
<1>16. Held(t) \subseteq Held(t)'
  BY <1>1, <1>11 DEF Held
<1>17. \A j \in Slot \ {i} : e[j] = e[j]
  OBVIOUS
<1>18. RingInv' /\ Ring(h, q, e)'
  BY <1>7, <1>9, <1>10, <1>12, <1>13, <1>14, <1>15, <1>16, <1>17, RingSwap
<1> QED BY <1>2, <1>3, <1>5, <1>18

\* An element that has been read is emptied for its next position.
LEMMA EmptiedRing ==
    ASSUME TwoGenerations, RingInv, SafeInv', Timely', NEW t \in Thread, SameOthers(t),
           NEW h \in Nat, NEW q \in Nat, NEW e \in [Slot -> Nat], Ring(h, q, e),
           NEW c \in Held(t), d_states[index(c)].st = "READING", e[index(c)] < h,
           StoreEmpty(c), UNCHANGED <<d_pushIndex, d_popIndex>>,
           pc'[t] \in {"check_pushers", "pop_load", "count_pushers", "clear_load", "ret"},
           pc'[t] = "ret" => own'[t] = None,
           \A d \in Held(t) : d \in Held(t)' \/ d = c,
           NEW f \in [Slot -> Nat], f[index(c)] = e[index(c)] + Capacity,
           \A j \in Slot \ {index(c)} : f[j] = e[j]
    PROVE  RingInv' /\ Ring(h, q, f)'
<1>0. SafeInv /\ Types /\ d_states \in [Slot -> [gen : Gen, st : State]]
  BY RightOf DEF Types, ManagerTypeOK
<1>1. /\ c \in Combined /\ index(c) \in Slot /\ e[index(c)] \in Nat
      /\ c = Word(e[index(c)]) /\ Elem(e[index(c)]) = index(c)
  BY <1>0, HeldAt
<1>2. PICK i \in Slot, a \in Nat : i = index(c) /\ a = e[i]
  BY <1>1
<1>3. /\ c = Word(a) /\ Elem(a) = i /\ a < h /\ d_states[i].st = "READING"
      /\ f[i] = a + Capacity /\ (\A j \in Slot \ {i} : f[j] = e[j])
  BY <1>1, <1>2
<1>4. /\ d_states'[i] = [gen |-> nextGeneration(generation(c)), st |-> "EMPTY"]
      /\ \A j \in Slot \ {i} : d_states'[j] = d_states[j]
  <2>1. nextGeneration(generation(c)) \in Gen /\ "EMPTY" \in State
    BY <1>1, IndexTypes, NextGenerationType DEF State
  <2> QED BY <1>0, <1>1, <1>2, <2>1, SwapTypes DEF StoreEmpty
<1>5. PICK b \in Nat : b = a + Capacity /\ b > a
  BY Constants
<1>6. SlotRight(i, h, q, b)'
  <2>1. SlotRight(i, h, q, a)
    BY <1>2 DEF Ring
  <2>2. a <= h /\ h <= a + Capacity /\ a <= q /\ q <= a + Capacity
    BY <1>3, <2>1 DEF SlotRight
  <2>3. q <= b /\ h <= b /\ b < h + Capacity
    BY <1>3, <1>5, <2>2, Constants
  <2>4. Elem(b) = i /\ generation(Word(b)) = nextGeneration(generation(c))
    BY <1>3, <1>5, NextRound DEF Elem
  <2> QED BY <1>4, <2>3, <2>4 DEF SlotRight, Elem, Word, index, generation
<1>7. \A u \in Thread \ {t} : \A d \in Held(u) : index(d) # i
  BY <1>0, <1>2, NobodyElseHolds
<1>8. PushRight(t, q, f)' /\ PopRight(t, h, f)' /\ OwnRight(t, h, f)'
  BY DEF PushRight, PopRight, OwnRight, PushReads, PopReads
<1>9. \A d \in Held(t) : d \in Held(t)' \/ index(d) = i
  BY <1>2
<1>10. b > e[i] /\ f[i] = b
  BY <1>2, <1>3, <1>5
<1>11. d_states'[i].st \notin {"WRITING", "READING"}
  BY <1>4
<1>12. (\A j \in Slot \ {i} : f[j] = e[j]) /\ (\A j \in Slot \ {i} : d_states'[j] = d_states[j])
  BY <1>3, <1>4
<1> QED BY <1>6, <1>7, <1>8, <1>9, <1>10, <1>11, <1>12, RingSwap

LEMMA ConstructRing ==
    ASSUME TwoGenerations, RingInv, SafeInv', Timely', NEW t \in Thread, SameOthers(t),
           NEW h \in Nat, NEW q \in Nat, NEW e \in [Slot -> Nat], Ring(h, q, e),
           ConstructAndCommit(t)
    PROVE  /\ RingInv' /\ Ring(h, q, e)'
           /\ index(own[t]) \in Slot /\ d_states[index(own[t])].st = "WRITING"
           /\ own[t] = Word(e[index(own[t])])
<1>0. /\ SafeInv /\ CallRight(t) /\ pc \in [Thread -> QueuePC]
      /\ own \in [Thread -> Combined \cup {None}] /\ Types
  BY RightOf DEF Types, ManagerTypeOK
<1>1. /\ op[t] \in Pushing /\ own[t] # None
      /\ pc[t] = "ret" /\ pc' = [pc EXCEPT ![t] = "check_poppers"]
      /\ SetState(own[t], generation(own[t]), "FULL")
      /\ own' = [own EXCEPT ![t] = None]
      /\ UNCHANGED <<d_pushIndex, d_popIndex>>
  BY DEF ConstructAndCommit, Goto, StoreFull
<1>2. /\ own[t] \in Held(t) /\ index(own[t]) \in Slot
      /\ d_states[index(own[t])].st = "WRITING"
  BY <1>1, OwnPlace
<1>3. PICK i \in Slot, a \in Nat :
         /\ i = index(own[t]) /\ a = e[i] /\ own[t] = Word(a) /\ Elem(a) = i
         /\ h <= a /\ a <= q /\ q <= a + Capacity /\ a < h + Capacity
  BY <1>1, <1>2, OwnPlace
<1>4. /\ d_states'[i] = [gen |-> generation(own[t]), st |-> "FULL"]
      /\ \A j \in Slot \ {i} : d_states'[j] = d_states[j]
  <2>1. generation(own[t]) \in Gen /\ "FULL" \in State /\ own[t] \in Combined
    BY <1>0, <1>1, IndexTypes DEF State
  <2> QED BY <1>0, <1>1, <1>3, <2>1, SwapTypes
<1>5. SlotRight(i, h, q, a)'
  <2>1. d_states'[i].gen = generation(Word(a)) /\ d_states'[i].st = "FULL" /\ Elem(a) = i
    BY <1>3, <1>4
  <2>2. h <= a /\ a <= q /\ q <= a + Capacity /\ a < h + Capacity
    BY <1>3
  <2> QED BY <2>1, <2>2 DEF SlotRight, Elem, Word, index, generation
<1>6. \A u \in Thread \ {t} : \A c \in Held(u) : index(c) # i
  BY <1>0, <1>2, <1>3, NobodyElseHolds
<1>7. pc'[t] = "check_poppers" /\ own'[t] = None
  BY <1>0, <1>1
<1>8. PushRight(t, q, e)' /\ PopRight(t, h, e)' /\ OwnRight(t, h, e)'
  BY <1>7 DEF PushRight, PopRight, OwnRight, PushReads, PopReads
<1>9. \A c \in Held(t) : c \in Held(t)' \/ index(c) = i
  BY <1>1, <1>3 DEF Held
<1>10. /\ a = e[i]
       /\ d_states[i].st # "EMPTY" => d_states'[i].st # "EMPTY"
       /\ d_states[i].st = "READING" => d_states'[i].st = "READING"
  BY <1>2, <1>3, <1>4
<1>11. d_states'[i].st \notin {"WRITING", "READING"}
  BY <1>4
<1>12. \A j \in Slot \ {i} : e[j] = e[j]
  OBVIOUS
<1>13. RingInv' /\ Ring(h, q, e)'
  BY <1>1, <1>4, <1>5, <1>6, <1>8, <1>9, <1>10, <1>11, <1>12, RingSwap
<1> QED BY <1>2, <1>3, <1>13

\* A step outside the manager that moves no index, element or reservation.
LEMMA OutsideRing ==
    ASSUME RingInv, SafeInv', Timely', NEW t \in Thread, SameOthers(t),
           NEW h \in Nat, NEW q \in Nat, NEW e \in [Slot -> Nat], Ring(h, q, e),
           UNCHANGED <<d_popIndex, d_states, own>>,
           d_pushIndex'.index = d_pushIndex.index, ~Clearing(t),
           pc'[t] \notin PushReads \cup PopReads
                         \cup {"push_advance", "pop_advance", "clear_ret", "ret", "abort_empty"},
           pc'[t] = "abort_reading" => pc[t] = "clear_ret" /\ result[t] = "end"
    PROVE  Onward(h, q, e)
<1>1. Held(t) \subseteq Held(t)'
  BY DEF Held, Clearing
<1>2. OwnRight(t, h, e)
  BY DEF Ring
<1>3. PushRight(t, q, e)' /\ PopRight(t, h, e)' /\ OwnRight(t, h, e)'
  BY <1>2 DEF PushRight, PopRight, OwnRight, index
<1> QED BY <1>1, <1>3, SameOnward

-----------------------------------------------------------------------------
(* Every step keeps the ring. *)

\* The steps that move no element, nor an index but for its disabled flag.
OtherStep(t) ==
    \/ ReportFailure(t) \/ CheckPoppers(t) \/ PostPopper(t)
    \/ Throw(t) \/ ClearEnd(t) \/ Aborted(t)
    \/ CheckPushers(t) \/ PostPusher(t) \/ block(t)
    \/ RemoveLoadPush(t) \/ RemoveLoadPop(t) \/ RemoveFoundEmpty(t)
    \/ RemoveCountPushers(t) \/ PostPushers(t) \/ DisableCountPushers(t)
    \/ ClientCall(t)

\* What such a step does to the call of its thread: it goes on, or it is over, or
\* it begins.
CallMoves(t) ==
    /\ pc'[t] \notin PushReads \cup PopReads
                     \cup {"push_advance", "pop_advance", "clear_ret", "ret", "abort_empty"}
    /\ pc'[t] = "abort_reading" => pc[t] = "clear_ret" /\ result[t] = "end"
    /\ \/ /\ op'[t] = op[t] /\ value'[t] = value[t]
          /\ pc[t] \in {"check_pushers", "post_pusher"} => pc'[t] = "post_pusher"
       \/ op'[t] \notin Popping
       \/ op'[t] \in Popping /\ value'[t] = NoValue /\ pc[t] = "idle"

OutsideOf(t) ==
    /\ SameOthers(t) /\ CallMoves(t) /\ ~Clearing(t)
    /\ UNCHANGED <<d_popIndex, d_states, d_elements, own>>
    /\ d_pushIndex'.index = d_pushIndex.index

LEMMA FinishOutside ==
    ASSUME Types, NEW t \in Thread, NEW from, Finish(t, from),
           from \notin {"clear_advance", "clear_ret"},
           UNCHANGED <<sharedVars, d_elements, value>>
    PROVE  OutsideOf(t)
BY DEF Finish, OutsideOf, SameOthers, CallMoves, Clearing, sharedVars, Goto, Types,
   ManagerTypeOK, PushReads, PopReads, Popping

LEMMA MoveOutside ==
    ASSUME Types, NEW t \in Thread, NEW from, NEW to, Goto(t, from, to), ~Clearing(t),
           to \notin PushReads \cup PopReads
                     \cup {"push_advance", "pop_advance", "clear_ret", "ret", "abort_empty"},
           to = "abort_reading" => pc[t] = "clear_ret" /\ result[t] = "end",
           from \in {"check_pushers", "post_pusher"} => to = "post_pusher",
           UNCHANGED <<sharedVars, d_elements, own, op, value, result>>,
           loaded' = [loaded EXCEPT ![t] = loaded'[t]]
    PROVE  OutsideOf(t)
BY DEF OutsideOf, SameOthers, CallMoves, sharedVars, Goto, Types, ManagerTypeOK

LEMMA PushOutside ==
    ASSUME SafeInv, NEW t \in Thread,
           \/ ReportFailure(t) \/ CheckPoppers(t) \/ PostPopper(t)
           \/ Throw(t) \/ ClearEnd(t) \/ Aborted(t)
           \/ CheckPushers(t) \/ PostPusher(t)
           \/ PostPushers(t) \/ DisableCountPushers(t)
    PROVE  OutsideOf(t)
<1>0. Types /\ loaded = [loaded EXCEPT ![t] = loaded[t]]
  BY DEF SafeInv, Types, ManagerTypeOK
<1>1. CASE ReportFailure(t)
  BY <1>0, <1>1, FinishOutside DEF ReportFailure, queueVars
<1>2. CASE CheckPoppers(t)
  <2>1. CASE Finish(t, "check_poppers")
    BY <1>0, <1>2, <2>1, FinishOutside DEF CheckPoppers, queueVars
  <2>2. CASE Goto(t, "check_poppers", "post_popper") /\ OnlyMoves /\ UNCHANGED op
    BY <1>0, <1>2, <2>2, MoveOutside
       DEF CheckPoppers, queueVars, OnlyMoves, Clearing, Goto, PushReads, PopReads
  <2> QED BY <1>2, <2>1, <2>2 DEF CheckPoppers
<1>3. CASE PostPopper(t)
  BY <1>0, <1>3, FinishOutside DEF PostPopper
<1>4. CASE Throw(t)
  BY <1>0, <1>4, MoveOutside
     DEF Throw, queueVars, OnlyMoves, Clearing, Goto, PushReads, PopReads
<1>5. CASE ClearEnd(t)
  BY <1>0, <1>5, MoveOutside
     DEF ClearEnd, queueVars, callVars, OnlyMoves, Clearing, Goto, PushReads, PopReads
<1>6. CASE Aborted(t)
  BY <1>0, <1>6, MoveOutside
     DEF Aborted, queueVars, callVars, OnlyMoves, Clearing, Goto, PushReads, PopReads
<1>7. CASE CheckPushers(t)
  <2>1. CASE Finish(t, "check_pushers")
    BY <1>0, <1>7, <2>1, FinishOutside DEF CheckPushers, queueVars
  <2>2. CASE Goto(t, "check_pushers", "post_pusher") /\ OnlyMoves /\ UNCHANGED op
    BY <1>0, <1>7, <2>2, MoveOutside
       DEF CheckPushers, queueVars, OnlyMoves, Clearing, Goto, PushReads, PopReads
  <2> QED BY <1>7, <2>1, <2>2 DEF CheckPushers
<1>8. CASE PostPusher(t)
  BY <1>0, <1>8, FinishOutside DEF PostPusher
<1>9. CASE PostPushers(t)
  <2>1. CASE Finish(t, "post_pushers")
    BY <1>0, <1>9, <2>1, FinishOutside DEF PostPushers
  <2>2. CASE Goto(t, "post_pushers", "post_pushers") /\ OnlyMoves /\ UNCHANGED op
    BY <1>0, <1>9, <2>2, MoveOutside
       DEF PostPushers, OnlyMoves, Clearing, Goto, PushReads, PopReads
  <2> QED BY <1>9, <2>1, <2>2 DEF PostPushers
<1>10. CASE DisableCountPushers(t)
  BY <1>0, <1>10, MoveOutside
     DEF DisableCountPushers, queueVars, OnlyMoves, Clearing, Goto, PushReads, PopReads
<1> QED BY <1>1, <1>2, <1>3, <1>4, <1>5, <1>6, <1>7, <1>8, <1>9, <1>10

LEMMA BlockOutside ==
    ASSUME SafeInv, NEW t \in Thread, block(t)
    PROVE  OutsideOf(t)
<1>0. Types /\ loaded = [loaded EXCEPT ![t] = loaded[t]] /\ CallRight(t)
  BY DEF SafeInv, Types, ManagerTypeOK, ThreadsRight
<1>1. CASE EnterWait(t)
  BY <1>0, <1>1, MoveOutside
     DEF EnterWait, callVars, OnlyMoves, Clearing, Goto, PushReads, PopReads
<1>2. CASE LengthLoadPush(t)
  <2>1. loaded' = [loaded EXCEPT ![t] = loaded'[t]]
    BY <1>0, <1>2 DEF LengthLoadPush, Types, ManagerTypeOK
  <2> QED BY <1>0, <1>2, <2>1, MoveOutside
     DEF LengthLoadPush, queueVars, callVars, Clearing, Goto, PushReads, PopReads
<1>3. CASE LengthLoadPop(t)
  <2>1. PICK to \in {"check_enabled", "wait", "leave_wait"} : Goto(t, "length_pop", to)
    BY <1>3 DEF LengthLoadPop
  <2> QED BY <1>0, <1>3, <2>1, MoveOutside
     DEF LengthLoadPop, queueVars, callVars, OnlyMoves, Clearing, Goto, PushReads, PopReads
<1>4. CASE CheckEnabled(t)
  <2>1. PICK to \in {"wait", "leave_wait"} : Goto(t, "check_enabled", to)
    BY <1>4 DEF CheckEnabled
  <2> QED BY <1>0, <1>4, <2>1, MoveOutside
     DEF CheckEnabled, queueVars, callVars, OnlyMoves, Clearing, Goto, PushReads, PopReads
<1>5. CASE Wait(t)
  BY <1>0, <1>5, MoveOutside
     DEF Wait, callVars, OnlyMoves, Clearing, Goto, PushReads, PopReads
<1>6. CASE LeaveWait(t)
  <2>1. PICK to \in {"push_load", "pop_load"} : Goto(t, "leave_wait", to)
    BY <1>0, <1>6 DEF LeaveWait, Entry, CallRight, Waits, Blocking, Pushing, Popping, Goto
  <2> QED BY <1>0, <1>6, <2>1, MoveOutside
     DEF LeaveWait, callVars, Clearing, Goto, PushReads, PopReads
<1> QED BY <1>1, <1>2, <1>3, <1>4, <1>5, <1>6 DEF block

LEMMA RemoveOutside ==
    ASSUME SafeInv, NEW t \in Thread,
           \/ RemoveLoadPush(t) \/ RemoveLoadPop(t) \/ RemoveFoundEmpty(t)
           \/ RemoveCountPushers(t)
    PROVE  OutsideOf(t)
<1>0. Types /\ loaded = [loaded EXCEPT ![t] = loaded[t]]
  BY DEF SafeInv, Types, ManagerTypeOK
<1>1. CASE RemoveLoadPush(t)
  <2>1. loaded' = [loaded EXCEPT ![t] = loaded'[t]]
    BY <1>0, <1>1 DEF RemoveLoadPush, Types, ManagerTypeOK
  <2> QED BY <1>0, <1>1, <2>1, MoveOutside
     DEF RemoveLoadPush, queueVars, callVars, Clearing, Goto, PushReads, PopReads
<1>2. CASE RemoveLoadPop(t)
  <2>1. PICK to \in {"pop_load", "count_pushers"} : Goto(t, "remove_pop", to)
    BY <1>2 DEF RemoveLoadPop, RemoveNext
  <2> QED BY <1>0, <1>2, <2>1, MoveOutside
     DEF RemoveLoadPop, queueVars, Clearing, Goto, PushReads, PopReads
<1>3. CASE RemoveFoundEmpty(t)
  BY <1>0, <1>3, MoveOutside
     DEF RemoveFoundEmpty, queueVars, callVars, OnlyMoves, Clearing, Goto, PushReads, PopReads
<1>4. CASE RemoveCountPushers(t)
  BY <1>0, <1>4, MoveOutside
     DEF RemoveCountPushers, queueVars, OnlyMoves, Clearing, Goto, PushReads, PopReads
<1> QED BY <1>1, <1>2, <1>3, <1>4

LEMMA ClientOutside ==
    ASSUME SafeInv, NEW t \in Thread, ClientCall(t)
    PROVE  OutsideOf(t)
<1>0. Types
  BY DEF SafeInv
<1>1. ASSUME NEW o \in AllCalls, Call(t, o) PROVE OutsideOf(t)
  <2>1. /\ pc[t] = "idle" /\ pc'[t] \in {"push_load", "pop_load", "remove_push"}
        /\ o \in AllCalls \ {"disable", "enable"}
    BY <1>0, <1>1 DEF Call, Goto, Types, Entry, AllCalls, Pushing, Popping
  <2>2. op'[t] = o /\ (o \notin Pushing => value'[t] = NoValue)
    BY <1>0, <1>1 DEF Call, Types
  <2>3. CallMoves(t)
    BY <2>1, <2>2 DEF CallMoves, PushReads, PopReads, Pushing, Popping
  <2>4. SameOthers(t)
    BY <1>0, <1>1 DEF Call, Goto, SameOthers, Types, ManagerTypeOK
  <2> QED BY <1>1, <2>1, <2>3, <2>4 DEF Call, OutsideOf, Clearing, sharedVars, queueVars
<1>2. CASE disable(t)
  <2>1. pc[t] = "idle" /\ pc'[t] = "disabled" /\ op'[t] = "disable"
    BY <1>0, <1>2 DEF disable, Goto, Types
  <2>2. CallMoves(t)
    BY <2>1 DEF CallMoves, PushReads, PopReads, Popping
  <2>3. SameOthers(t)
    BY <1>0, <1>2 DEF disable, Goto, OnlyMoves, SameOthers, Types, ManagerTypeOK
  <2>4. d_pushIndex'.index = d_pushIndex.index
    BY <1>0, <1>2 DEF disable, SetDisabled, Types, ManagerTypeOK
  <2> QED BY <1>2, <2>1, <2>2, <2>3, <2>4
             DEF disable, OutsideOf, Clearing, OnlyMoves, queueVars
<1>3. CASE enable(t)
  <2>1. pc[t] = "idle" /\ UNCHANGED <<threadVars, op, value>>
    BY <1>3 DEF enable
  <2>2. SameOthers(t) /\ CallMoves(t)
    BY <2>1 DEF SameOthers, CallMoves, threadVars, PushReads, PopReads
  <2>3. d_pushIndex'.index = d_pushIndex.index
    BY <1>0, <1>3 DEF enable, SetDisabled, Types, ManagerTypeOK
  <2> QED BY <1>3, <2>1, <2>2, <2>3 DEF enable, OutsideOf, Clearing, queueVars, threadVars
<1> QED BY <1>1, <1>2, <1>3 DEF ClientCall

LEMMA OtherOutside ==
    ASSUME SafeInv, NEW t \in Thread, OtherStep(t)
    PROVE  OutsideOf(t)
BY PushOutside, BlockOutside, RemoveOutside, ClientOutside DEF OtherStep

LEMMA ManagerOthers ==
    ASSUME SafeInv, NEW t \in Thread, ManagerCall(t)
    PROVE  SameOthers(t) /\ UNCHANGED <<callVars, d_elements>>
<1>0. /\ pc \in [Thread -> QueuePC] /\ own \in [Thread -> Combined \cup {None}]
      /\ loaded \in [Thread -> Combined] /\ result \in [Thread -> Result]
      /\ UNCHANGED callVars /\ UNCHANGED queueVars
  BY DEF SafeInv, Types, ManagerTypeOK, ManagerCall
<1> DEFINE Same == \A u \in Thread \ {t} :
                      /\ pc'[u] = pc[u] /\ own'[u] = own[u]
                      /\ loaded'[u] = loaded[u] /\ result'[u] = result[u]
<1>1. ASSUME reservePushIndex(t) PROVE Same
  <2>1. CASE ReservePushLoad(t)
    BY <1>0, <2>1 DEF ReservePushLoad, Goto, Return
  <2>2. CASE ReservePushAcquire(t)
    BY <1>0, <2>2 DEF ReservePushAcquire, Goto, Return
  <2>3. CASE ReservePushBehind(t)
    BY <1>0, <2>3 DEF ReservePushBehind, Goto, Return
  <2>4. CASE ReservePushTaken(t)
    BY <1>0, <2>4 DEF ReservePushTaken, Goto, Return
  <2>5. CASE ReservePushHelp(t)
    BY <1>0, <2>5 DEF ReservePushHelp, Goto, Return
  <2>6. CASE ReservePushAdvance(t)
    BY <1>0, <2>6 DEF ReservePushAdvance, Goto, Return
  <2> QED BY <1>1, <2>1, <2>2, <2>3, <2>4, <2>5, <2>6 DEF reservePushIndex, ReservePushSwap
<1>2. ASSUME reservePopIndex(t) PROVE Same
  <2>1. CASE ReservePopLoad(t)
    BY <1>0, <2>1 DEF ReservePopLoad, Goto, Return
  <2>2. CASE ReservePopAcquire(t)
    BY <1>0, <2>2 DEF ReservePopAcquire, Goto, Return
  <2>3. CASE ReservePopEmpty(t)
    BY <1>0, <2>3 DEF ReservePopEmpty, Goto, Return
  <2>4. CASE ReservePopRetry(t)
    BY <1>0, <2>4 DEF ReservePopRetry, Goto, Return
  <2>5. CASE ReservePopTaken(t)
    BY <1>0, <2>5 DEF ReservePopTaken, Goto, Return
  <2>6. CASE ReservePopHelp(t)
    BY <1>0, <2>6 DEF ReservePopHelp, Goto, Return
  <2>7. CASE ReservePopAdvance(t)
    BY <1>0, <2>7 DEF ReservePopAdvance, Goto, Return
  <2> QED BY <1>2, <2>1, <2>2, <2>3, <2>4, <2>5, <2>6, <2>7 DEF reservePopIndex, ReservePopSwap
<1>3. ASSUME reservePopIndexForClear(t) PROVE Same
  <2>1. CASE ReserveClearLoad(t)
    BY <1>0, <2>1 DEF ReserveClearLoad, Goto, Return
  <2>2. CASE ReserveClearSwap(t)
    BY <1>0, <2>2 DEF ReserveClearSwap, Goto, Return
  <2>3. CASE ReserveClearHelp(t)
    BY <1>0, <2>3 DEF ReserveClearHelp, Goto, Return
  <2>4. CASE ReserveClearAdvance(t)
    BY <1>0, <2>4 DEF ReserveClearAdvance, Goto, Return
  <2> QED BY <1>3, <2>1, <2>2, <2>3, <2>4 DEF reservePopIndexForClear
<1>4. ASSUME abortPushIndexReservation(t) PROVE Same
  <2>1. CASE AbortReading(t)
    BY <1>0, <2>1 DEF AbortReading, Goto, Return
  <2>2. CASE AbortAdvance(t)
    BY <1>0, <2>2 DEF AbortAdvance, Goto, Return
  <2>3. CASE AbortEmpty(t)
    BY <1>0, <2>3 DEF AbortEmpty, Goto, Return
  <2> QED BY <1>4, <2>1, <2>2, <2>3 DEF abortPushIndexReservation
<1>5. Same
  BY <1>1, <1>2, <1>3, <1>4 DEF ManagerCall, ManagerStep
<1>6. SameOthers(t)
  BY <1>0, <1>5 DEF SameOthers, callVars
<1> QED BY <1>0, <1>6 DEF queueVars

\* The thread empties the element it has read, of index c.
Empties(t, c) ==
    \/ TakeAndCommit(t) /\ c = own[t]
    \/ RemoveElement(t) /\ c = own[t]
    \/ ClearElement(t) /\ c = loaded[t]
    \/ AbortEmpty(t) /\ c = own[t] /\ UNCHANGED <<callVars, queueVars>>

LEMMA EmptiesRing ==
    ASSUME TwoGenerations, RingInv, SafeInv', Timely', NEW t \in Thread,
           NEW h \in Nat, NEW q \in Nat, NEW e \in [Slot -> Nat], Ring(h, q, e),
           NEW c, Empties(t, c)
    PROVE  /\ SameOthers(t) /\ c \in Held(t) /\ index(c) \in Slot
           /\ d_states[index(c)].st = "READING" /\ e[index(c)] < h
           /\ d_states'[index(c)].st = "EMPTY"
           /\ \A j \in Slot \ {index(c)} :
                 d_states'[j] = d_states[j] /\ d_elements'[j] = d_elements[j]
           /\ own'[t] = own[t] \/ (own[t] = c /\ own'[t] = None)
           /\ RingInv'
           /\ \E f \in [Slot -> Nat] :
                 /\ Ring(h, q, f)' /\ f[index(c)] = e[index(c)] + Capacity
                 /\ \A j \in Slot \ {index(c)} : f[j] = e[j]
<1>0. /\ SafeInv /\ Types /\ CallRight(t) /\ HeldRight(t)
      /\ pc \in [Thread -> QueuePC] /\ own \in [Thread -> Combined \cup {None}]
      /\ d_states \in [Slot -> [gen : Gen, st : State]]
      /\ d_elements \in [Slot -> Value \cup {NoValue}]
  BY RightOf DEF Types, ManagerTypeOK
<1>1. /\ StoreEmpty(c) /\ UNCHANGED <<d_pushIndex, d_popIndex>>
      /\ pc'[t] \in {"check_pushers", "pop_load", "count_pushers", "clear_load", "ret"}
      /\ pc'[t] = "ret" => own'[t] = None
      /\ own'[t] = own[t] \/ (own[t] = c /\ own'[t] = None)
      /\ SameOthers(t)
      /\ d_elements' = [d_elements EXCEPT ![index(c)] = NoValue] \/ d_elements' = d_elements
  <2>1. CASE TakeAndCommit(t) /\ c = own[t]
    <3>1. pc'[t] = "check_pushers" /\ own'[t] = None
      BY <1>0, <2>1 DEF TakeAndCommit, Goto
    <3>2. SameOthers(t)
      BY <1>0, <2>1 DEF TakeAndCommit, Goto, SameOthers, Types
    <3> QED BY <2>1, <3>1, <3>2 DEF TakeAndCommit
  <2>2. CASE RemoveElement(t) /\ c = own[t]
    <3>1. pc'[t] \in {"pop_load", "count_pushers"} /\ own'[t] = None
      BY <1>0, <2>2 DEF RemoveElement, RemoveNext, Goto
    <3>2. SameOthers(t)
      BY <1>0, <2>2 DEF RemoveElement, RemoveNext, Goto, SameOthers
    <3> QED BY <2>2, <3>1, <3>2 DEF RemoveElement
  <2>3. CASE ClearElement(t) /\ c = loaded[t]
    <3>1. pc'[t] = "clear_load" /\ own' = own
      BY <1>0, <2>3 DEF ClearElement, OnlyMoves, Goto
    <3>2. SameOthers(t)
      BY <1>0, <2>3 DEF ClearElement, OnlyMoves, Goto, SameOthers
    <3> QED BY <2>3, <3>1, <3>2 DEF ClearElement
  <2>4. CASE AbortEmpty(t) /\ c = own[t] /\ UNCHANGED <<callVars, queueVars>>
    <3>1. pc'[t] = "ret" /\ own'[t] = None
      BY <1>0, <2>4 DEF AbortEmpty, Goto
    <3>2. SameOthers(t)
      BY <1>0, <2>4 DEF AbortEmpty, Goto, SameOthers, callVars
    <3> QED BY <2>4, <3>1, <3>2 DEF AbortEmpty, StoreEmpty, queueVars
  <2> QED BY <2>1, <2>2, <2>3, <2>4 DEF Empties
<1>2. c \in Held(t) /\ Holds(c, "READING")
  <2>1. CASE TakeAndCommit(t) \/ RemoveElement(t) \/ AbortEmpty(t)
    <3>1. c = own[t] /\ own[t] # None
      <4>1. c = own[t]
        BY <2>1 DEF Empties, ClearElement, TakeAndCommit, RemoveElement, RemoveNext,
           AbortEmpty, Goto
      <4>2. own[t] # None
        BY <1>0, <2>1 DEF TakeAndCommit, RemoveElement, AbortEmpty, Goto, CallRight, Aborts
      <4> QED BY <4>1, <4>2
    <3>2. Mode(t) = "READING"
      BY <2>1 DEF Mode, TakeAndCommit, RemoveElement, AbortEmpty, Goto, Pushing, Popping
    <3> QED BY <1>0, <3>1, <3>2, HeldTypes DEF HeldRight
  <2>2. CASE ClearElement(t) /\ c = loaded[t]
    <3>1. Clearing(t)
      BY <2>2 DEF ClearElement, Goto, Clearing
    <3> QED BY <1>0, <2>2, <3>1, HeldTypes DEF HeldRight
  <2> QED BY <2>1, <2>2 DEF Empties
<1>3. d_states[index(c)].st = "READING" /\ index(c) \in Slot /\ c \in Combined
  BY <1>0, <1>2, HeldAt DEF Holds
<1>4. e[index(c)] < h
  <2>1. OwnRight(t, h, e)
    BY DEF Ring
  <2>2. CASE TakeAndCommit(t) /\ c = own[t]
    BY <2>1, <2>2 DEF OwnRight, TakeAndCommit, Goto, Pushing, Popping
  <2>3. CASE RemoveElement(t) /\ c = own[t]
    BY <2>1, <2>3 DEF OwnRight, RemoveElement, RemoveNext, Goto, Pushing
  <2>4. CASE ClearElement(t) /\ c = loaded[t]
    BY <2>1, <2>4 DEF OwnRight, ClearElement, Goto
  <2>5. CASE AbortEmpty(t) /\ c = own[t]
    BY <2>1, <2>5 DEF OwnRight, AbortEmpty, Goto
  <2> QED BY <2>2, <2>3, <2>4, <2>5 DEF Empties
<1>5. /\ d_states'[index(c)] = [gen |-> nextGeneration(generation(c)), st |-> "EMPTY"]
      /\ \A j \in Slot \ {index(c)} : d_states'[j] = d_states[j]
  <2>1. nextGeneration(generation(c)) \in Gen /\ "EMPTY" \in State
    BY <1>3, IndexTypes, NextGenerationType DEF State
  <2> QED BY <1>0, <1>1, <1>3, <2>1, SwapTypes DEF StoreEmpty
<1>6. \A j \in Slot \ {index(c)} : d_elements'[j] = d_elements[j]
  BY <1>0, <1>1
<1>7. \A d \in Held(t) : d \in Held(t)' \/ d = c
  <2>1. CASE ClearElement(t) /\ c = loaded[t]
    <3>1. own' = own
      BY <2>1 DEF ClearElement, OnlyMoves
    <3> QED BY <2>1, <3>1 DEF Held
  <2>2. CASE (TakeAndCommit(t) \/ RemoveElement(t) \/ AbortEmpty(t)) /\ c = own[t]
    <3>1. ~Clearing(t)
      BY <2>2 DEF TakeAndCommit, RemoveElement, RemoveNext, AbortEmpty, Goto, Clearing
    <3> QED BY <1>0, <2>2, <3>1, HeldTypes
  <2> QED BY <2>1, <2>2 DEF Empties
<1>8. PICK f \in [Slot -> Nat] : /\ f[index(c)] = e[index(c)] + Capacity
                                 /\ \A j \in Slot \ {index(c)} : f[j] = e[j]
  <2>1. e[index(c)] + Capacity \in Nat
    BY <1>3, Constants
  <2> DEFINE f == [e EXCEPT ![index(c)] = e[index(c)] + Capacity]
  <2>2. f \in [Slot -> Nat] /\ f[index(c)] = e[index(c)] + Capacity
        /\ \A j \in Slot \ {index(c)} : f[j] = e[j]
    BY <1>3, <2>1
  <2> QED BY <2>2
<1>9. RingInv' /\ Ring(h, q, f)'
  BY <1>1, <1>2, <1>3, <1>4, <1>7, <1>8, EmptiedRing
<1>10. d_states'[index(c)].st = "EMPTY"
  BY <1>5
<1> QED BY <1>1, <1>2, <1>3, <1>4, <1>5, <1>6, <1>8, <1>9, <1>10

\* The steps within the manager that move no element, but an index at most.
ReadsOrMoves(t) ==
    \/ ReservePushLoad(t) \/ ReservePushBehind(t) \/ ReservePushTaken(t)
    \/ ReservePushHelp(t) \/ ReservePushAdvance(t)
    \/ ReservePopLoad(t) \/ ReservePopEmpty(t) \/ ReservePopRetry(t) \/ ReservePopTaken(t)
    \/ ReservePopHelp(t) \/ ReservePopAdvance(t)
    \/ ReserveClearLoad(t) \/ (ReserveClearSwap(t) /\ UNCHANGED d_states)
    \/ ReserveClearHelp(t) \/ ReserveClearAdvance(t) \/ AbortAdvance(t)

LEMMA ManagerCases ==
    ASSUME NEW t \in Thread, ManagerCall(t)
    PROVE  \/ ReadsOrMoves(t) \/ ReservePushAcquire(t) \/ ReservePopAcquire(t)
           \/ ReserveClearSwap(t) /\ Holds(loaded[t], "FULL")
           \/ AbortReading(t) \/ (AbortEmpty(t) /\ UNCHANGED <<callVars, queueVars>>)
BY DEF ManagerCall, ManagerStep, reservePushIndex, ReservePushSwap, reservePopIndex,
   ReservePopSwap, reservePopIndexForClear, ReserveClearSwap, abortPushIndexReservation,
   ReadsOrMoves

LEMMA StepCases ==
    ASSUME NEW t \in Thread, ThreadStep(t) \/ ClientCall(t)
    PROVE  \/ ManagerCall(t) \/ OtherStep(t) \/ ConstructAndCommit(t)
           \/ TakeAndCommit(t) \/ RemoveElement(t) \/ ClearElement(t)
BY DEF ThreadStep, pushBack, popFront, removeAll, OtherStep

LEMMA OnwardSteps ==
    ASSUME TwoGenerations, RingInv, SafeInv', Timely', NEW t \in Thread,
           NEW h \in Nat, NEW q \in Nat, NEW e \in [Slot -> Nat], Ring(h, q, e),
           OtherStep(t) \/ (ManagerCall(t) /\ ReadsOrMoves(t))
    PROVE  Onward(h, q, e) /\ UNCHANGED <<d_states, d_elements, own>>
<1>0. SafeInv
  BY DEF RingInv
<1>1. CASE OtherStep(t)
  <2>1. OutsideOf(t)
    BY <1>0, <1>1, OtherOutside
  <2> QED BY <2>1, OutsideRing DEF OutsideOf, CallMoves
<1>2. CASE ManagerCall(t) /\ ReadsOrMoves(t)
  <2>1. SameOthers(t) /\ UNCHANGED <<callVars, d_elements>>
    BY <1>0, <1>2, ManagerOthers
  <2>2. Onward(h, q, e)
    BY <1>2, <2>1, PushReadRing, PushMoveRing, PopReadRing, PopAdvanceRing, ClearReadRing,
       ClearMoveRing DEF ReadsOrMoves
  <2>3. UNCHANGED <<d_states, own>>
    BY <1>2 DEF ReadsOrMoves, ReservePushLoad, ReservePushBehind, ReservePushTaken,
       ReservePushHelp, ReservePushAdvance, ReservePopLoad, ReservePopEmpty,
       ReservePopRetry, ReservePopTaken, ReservePopHelp, ReservePopAdvance,
       ReserveClearLoad, ReserveClearSwap, ReserveClearHelp, ReserveClearAdvance,
       AbortAdvance, sharedVars
  <2> QED BY <2>1, <2>2, <2>3
<1> QED BY <1>1, <1>2

LEMMA ConstructOthers ==
    ASSUME SafeInv, NEW t \in Thread, ConstructAndCommit(t)
    PROVE  SameOthers(t)
BY DEF SafeInv, Types, ManagerTypeOK, ConstructAndCommit, Goto, SameOthers, callVars

LEMMA StutterRing == ASSUME RingInv, UNCHANGED vars PROVE RingInv'
<1>1. SafeInv'
  BY StutterKeeps DEF RingInv
<1>2. PICK h \in Nat, q \in Nat : \E e \in [Slot -> Nat] : Ring(h, q, e)
  BY DEF RingInv
<1>3. PICK e \in [Slot -> Nat] : Ring(h, q, e)
  BY <1>2
<1>4. /\ UNCHANGED <<d_pushIndex, d_popIndex, d_states, pc, loaded, own, result, op>>
  BY DEF vars, managerVars, sharedVars, threadVars, callVars
<1>5. Ring(h, q, e)'
  BY <1>3, <1>4 DEF Ring, SlotRight, PushRight, PopRight, OwnRight, Acquired, Taken,
     Elem, Word, index, generation
<1>6. Owned'
  BY <1>4 DEF RingInv, Owned, Held, index
<1> QED BY <1>1, <1>5, <1>6 DEF RingInv

LEMMA NextRing == ASSUME TwoGenerations, RingInv, Timely', [Next]_vars PROVE RingInv'
<1> SUFFICES ASSUME Next PROVE RingInv'
  BY StutterRing
<1>1. SafeInv /\ SafeInv'
  BY NextKeeps DEF RingInv
<1>2. PICK t \in Thread : ThreadStep(t) \/ ClientCall(t)
  BY DEF Next
<1>3. PICK h \in Nat, q \in Nat : \E e \in [Slot -> Nat] : Ring(h, q, e)
  BY DEF RingInv
<1>4. PICK e \in [Slot -> Nat] : Ring(h, q, e)
  BY <1>3
<1>5. CASE OtherStep(t) \/ (ManagerCall(t) /\ ReadsOrMoves(t))
  BY <1>1, <1>4, <1>5, OnwardSteps DEF Onward
<1>6. CASE ConstructAndCommit(t)
  BY <1>1, <1>4, <1>6, ConstructOthers, ConstructRing
<1>7. ASSUME NEW c, Empties(t, c) PROVE RingInv'
  BY <1>1, <1>4, <1>7, EmptiesRing
<1>8. CASE ManagerCall(t) /\ ~ReadsOrMoves(t)
  <2>1. SameOthers(t) /\ UNCHANGED callVars
    BY <1>1, <1>8, ManagerOthers
  <2>2. CASE ReservePushAcquire(t)
    BY <1>1, <1>4, <2>1, <2>2, PushAcquireRing
  <2>3. CASE ReservePopAcquire(t)
    BY <1>1, <1>4, <2>1, <2>3, PopAcquireRing
  <2>4. CASE ReserveClearSwap(t) /\ Holds(loaded[t], "FULL")
    BY <1>1, <1>4, <2>1, <2>4, ClearAcquireRing
  <2>5. CASE AbortReading(t)
    BY <1>1, <1>4, <2>1, <2>5, AbortReadingRing
  <2>6. CASE AbortEmpty(t) /\ UNCHANGED <<callVars, queueVars>>
    BY <1>7, <2>6 DEF Empties
  <2> QED BY <1>8, <2>2, <2>3, <2>4, <2>5, <2>6, ManagerCases
<1>9. CASE TakeAndCommit(t) \/ RemoveElement(t) \/ ClearElement(t)
  BY <1>7, <1>9 DEF Empties
<1> QED BY <1>2, <1>5, <1>6, <1>8, <1>9, StepCases

LEMMA StartsRing == ASSUME Init PROVE RingInv
<1>1. SafeInv
  BY InitHolds
<1>2. StartIndex \in Nat /\ StartIndex \in Combined /\ Word(StartIndex) = StartIndex
  <2>1. StartIndex \in Nat /\ StartIndex \in Combined /\ StartIndex < Turn
    BY Constants, Words, Turns DEF Turn
  <2>2. StartIndex = Turn * 0 + StartIndex
    BY <2>1, Turns
  <2> QED BY <2>1, <2>2, WordIs
<1>3. PICK s \in Nat, g \in Nat, j \in Nat, x \in Nat :
         /\ s = StartIndex /\ g = generation(s) /\ j = index(s) /\ j < Capacity
         /\ x = Capacity * g /\ s = x + j
  <2>1. /\ index(StartIndex) \in Nat /\ index(StartIndex) < Capacity
        /\ generation(StartIndex) \in Nat
        /\ StartIndex = Capacity * generation(StartIndex) + index(StartIndex)
    BY <1>2, Whole
  <2>2. Capacity * generation(StartIndex) \in Nat
    BY <2>1, Constants
  <2> QED BY <1>2, <2>1, <2>2
<1>4. Capacity \in Nat /\ Capacity >= 1 /\ Slot = 0 .. Capacity - 1
  BY Constants DEF Slot
<1> DEFINE e == [i \in Slot |-> IF i < j THEN (x + i) + Capacity ELSE x + i]
<1>a. ASSUME NEW i \in Slot PROVE i \in Nat /\ i < Capacity
  BY <1>4
<1>b. /\ s \in Nat /\ x \in Nat /\ j \in Nat /\ g \in Nat /\ Capacity \in Nat
      /\ s = x + j /\ j < Capacity
  BY <1>3, <1>4
<1>5. e \in [Slot -> Nat]
  <2>1. ASSUME NEW i \in Slot PROVE x + i \in Nat /\ (x + i) + Capacity \in Nat
    BY <1>a, <1>b
  <2> QED BY <2>1
<1>6. ASSUME NEW i \in Slot
      PROVE  Elem(x + i) = i /\ generation(Word(x + i)) = g /\ x + i \in Nat
  <2>1. i \in Nat /\ i < Capacity
    BY <1>4
  <2>2. x + i < Turn
    <3>1. PICK n \in Nat : n = numRepresentableGenerations /\ Turn = Capacity * n
      BY Generations, Turns
    <3>2. g < n
      <4> SUFFICES ASSUME n <= g PROVE FALSE
        BY <3>1
      <4>1. Capacity * n <= Capacity * g
        BY <1>4, <3>1, ProductGrows
      <4>2. s < Turn
        BY <1>2, <1>3, Turns
      <4> QED BY <1>3, <1>4, <3>1, <4>1, <4>2, Turns
    <3>3. Capacity * (g + 1) <= Turn
      BY <1>4, <3>1, <3>2, ProductGrows
    <3>4. Capacity * (g + 1) = x + Capacity
      BY <1>3, <1>4
    <3>5. x + i < x + Capacity /\ x + Capacity \in Nat
      BY <1>b, <2>1
    <3>6. x + Capacity <= Turn /\ Turn \in Nat
      BY <3>3, <3>4, Turns
    <3> QED BY <1>b, <2>1, <3>5, <3>6
  <2>3. Word(x + i) = x + i
    <3>1. x + i = Turn * 0 + (x + i) /\ x + i \in Nat
      BY <2>1, Turns
    <3> QED BY <2>2, <3>1, WordIs
  <2>4. x + i \in Combined
    BY <2>1, <2>2, Turns
  <2> QED BY <1>3, <2>1, <2>3, <2>4, IndexIs DEF Elem
<1>7. ASSUME NEW i \in Slot PROVE SlotRight(i, s, s, e[i])
  <2>0. d_states[i] = [gen |-> IF i < j THEN nextGeneration(g) ELSE g, st |-> "EMPTY"]
    BY <1>3 DEF Init, InitRing
  <2>1. PICK a \in Nat : a = e[i]
    BY <1>5
  <2>2. CASE i < j
    <3>1. a = (x + i) + Capacity
      BY <2>1, <2>2
    <3>2. Elem(a) = i /\ generation(Word(a)) = nextGeneration(g)
      BY <1>6, <3>1, NextRound DEF Elem
    <3>3. s <= a /\ a < s + Capacity
      <4>1. i \in Nat
        BY <1>a
      <4> QED BY <1>b, <2>2, <3>1, <4>1
    <3> QED BY <2>0, <2>1, <2>2, <3>2, <3>3 DEF SlotRight
  <2>3. CASE ~(i < j)
    <3>1. a = x + i
      BY <2>1, <2>3
    <3>2. Elem(a) = i /\ generation(Word(a)) = g
      BY <1>6, <3>1
    <3>3. s <= a /\ a < s + Capacity
      <4>1. i \in Nat /\ i < Capacity
        BY <1>a
      <4> QED BY <1>b, <2>3, <3>1, <4>1
    <3> QED BY <2>0, <2>1, <2>3, <3>2, <3>3 DEF SlotRight
  <2> QED BY <2>2, <2>3
<1> HIDE DEF e
<1>8. \A t \in Thread : pc[t] = "idle"
  BY DEF Init, InitRing
<1>9. \A t \in Thread : PushRight(t, s, e) /\ PopRight(t, s, e) /\ OwnRight(t, s, e)
  BY <1>8 DEF PushRight, PopRight, OwnRight, PushReads, PopReads
<1>10. d_popIndex = Word(s) /\ d_pushIndex.index = Word(s)
  BY <1>2, <1>3 DEF Init, InitRing
<1>11. s <= s + 1
  BY <1>3
<1>12. Ring(s, s, e)
  BY <1>7, <1>9, <1>10, <1>11 DEF Ring
<1>13. Owned
  BY DEF Init, InitRing, Owned
<1> QED BY <1>1, <1>3, <1>5, <1>12, <1>13 DEF RingInv

\* An index, while no thread keeps one for a whole turn, tells positions apart; what
\* is in the ring lies between the two indices, in its place.
\* The elements lie on a line of positions that never comes round, in the order in which
\* they are pushed and popped, each within a capacity of the two indices.
THEOREM RingIsKept == Spec /\ []Timely => []RingInv
<1>1. Init => RingInv
  BY StartsRing
<1>2. RingInv /\ Timely' /\ [Next]_vars => RingInv'
  BY GenerationsAreTwo, NextRing
<1> QED BY <1>1, <1>2, PTL DEF Spec

-----------------------------------------------------------------------------
(* The items, by position *)

\* The oldest position in the queue, and the first that nobody has reserved yet.
First(h, e) == IF e[Elem(h)] = h /\ d_states[Elem(h)].st = "READING" THEN h + 1 ELSE h
Past(q, e)  == IF Acquired(q, e) THEN q + 1 ELSE q

ItemValues == [by : Thread \cup {None}, val : Value \cup {NoValue}]

\* What itemsBar has for a position, and outBar for a thread.
Item(p) ==
    IF d_states[Elem(p)].st = "WRITING"
    THEN [by |-> CHOOSE t \in Thread : own[t] = Word(p), val |-> NoValue]
    ELSE [by |-> None, val |-> d_elements[Elem(p)]]

Got(t) ==
    IF op[t] \notin Popping THEN NoValue
    ELSE IF own[t] # None THEN d_elements[index(own[t])]
    ELSE value[t]

\* The n items from position a on.
Bar(a, n) ==
    /\ itemsBar \in Seq(ItemValues) /\ Len(itemsBar) = n
    /\ \A k \in 1 .. n : itemsBar[k] = Item(a + k - 1)

LEMMA WordAdd ==
    ASSUME NEW a \in Nat, NEW n \in Nat PROVE (Word(a) + n) % Turn = Word(a + n)
<1>1. PICK k \in Nat, x \in Nat, w \in Nat : w = Word(a) /\ x = Turn * k /\ a = x + w
  <2>1. PICK k \in Nat, w \in Nat : w = Word(a) /\ a = Turn * k + w
    BY WordType
  <2>2. Turn * k \in Nat
    BY Turns
  <2> QED BY <2>1, <2>2
<1>2. PICK j \in Nat, y \in Nat, v \in Nat :
         v = Word(w + n) /\ y = Turn * j /\ w + n = y + v /\ v < Turn
  <2>1. PICK j \in Nat, v \in Nat : v = Word(w + n) /\ w + n = Turn * j + v /\ v < Turn
    <3>1. w + n \in Nat
      OBVIOUS
    <3> QED BY <3>1, WordType
  <2>2. Turn * j \in Nat
    BY Turns
  <2> QED BY <2>1, <2>2
<1>3. Turn * (k + j) = x + y
  BY <1>1, <1>2, Turns
<1>4. a + n = (x + y) + v
  <2>1. a = x + w /\ w + n = y + v
    BY <1>1, <1>2
  <2> QED BY <2>1
<1>5. a + n = Turn * (k + j) + v /\ k + j \in Nat /\ a + n \in Nat
  BY <1>3, <1>4
<1>6. Word(a + n) = v
  BY <1>2, <1>5, WordIs
<1> QED BY <1>1, <1>2, <1>6 DEF Word

\* The elements with an item are those of the positions from First to Past.
LEMMA Contents ==
    ASSUME RingInv, NEW h \in Nat, NEW q \in Nat, NEW e \in [Slot -> Nat], Ring(h, q, e)
    PROVE  /\ First(h, e) \in Nat /\ Past(q, e) \in Nat /\ First(h, e) <= Past(q, e)
           /\ \A p \in Nat : First(h, e) <= p /\ p < Past(q, e) =>
                 /\ Elem(p) \in Slot /\ e[Elem(p)] = p
                 /\ d_states[Elem(p)].st \in {"WRITING", "FULL"}
           /\ \A i \in Items : /\ e[i] \in Nat /\ Elem(e[i]) = i
                               /\ First(h, e) <= e[i] /\ e[i] < Past(q, e)
<1>0. Capacity \in Nat /\ Capacity >= 1 /\ h <= q + 1
      /\ \A i \in Slot : d_states[i].st \in State
  BY Constants, RightOf DEF Ring, RingInv, SafeInv, Types, ManagerTypeOK
<1>1. PICK j \in Slot, b \in Nat : j = Elem(h) /\ b = e[j]
  BY ElemType
<1>2. PICK m \in Slot, c \in Nat : m = Elem(q) /\ c = e[m]
  BY ElemType
<1>3. PICK a \in Nat : /\ a = First(h, e)
                       /\ b = h /\ d_states[j].st = "READING" => a = h + 1
                       /\ ~(b = h /\ d_states[j].st = "READING") => a = h
  BY <1>1 DEF First
<1>4. PICK n \in Nat : /\ n = Past(q, e)
                       /\ c > q \/ (c = q /\ d_states[m].st # "EMPTY") => n = q + 1
                       /\ ~(c > q \/ (c = q /\ d_states[m].st # "EMPTY")) => n = q
  BY <1>2 DEF Past, Acquired
<1>5. ASSUME NEW i \in Slot, NEW x \in Nat, x = e[i]
      PROVE  /\ Elem(x) = i
             /\ d_states[i].st \in {"WRITING", "FULL"} =>
                   h <= x /\ x <= q /\ q <= x + Capacity /\ x < h + Capacity
             /\ d_states[i].st = "READING" =>
                   x <= h /\ h <= x + Capacity /\ x <= q /\ q <= x + Capacity
             /\ d_states[i].st = "EMPTY" => q <= x /\ h <= x /\ x < h + Capacity
             /\ d_states[i].st \in {"WRITING", "FULL", "READING", "EMPTY"}
  BY <1>0, <1>5 DEF Ring, SlotRight, State
<1>6. ASSUME NEW p \in Nat, NEW i \in Slot, NEW x \in Nat, i = Elem(p), x = e[i]
      PROVE  (x < p => x + Capacity <= p) /\ (p < x => p + Capacity <= x)
  BY <1>5, <1>6, SamePlace
<1>7. a <= n
  <2>1. /\ Elem(b) = j
        /\ d_states[j].st = "READING" => b <= q
    BY <1>1, <1>5
  <2>2. h = q => j = m /\ b = c
    BY <1>1, <1>2
  <2>3. h = q + 1 => c > q \/ (c = q /\ d_states[m].st # "EMPTY")
    <3>1. c < q => c + Capacity <= q
      BY <1>2, <1>6
    <3>2. /\ d_states[m].st \in {"WRITING", "FULL"} => h <= c
          /\ d_states[m].st = "READING" => h <= c + Capacity
          /\ d_states[m].st = "EMPTY" => h <= c
          /\ d_states[m].st \in {"WRITING", "FULL", "READING", "EMPTY"}
      BY <1>2, <1>5
    <3> QED BY <1>0, <3>1, <3>2
  <2> QED BY <1>0, <1>3, <1>4, <2>1, <2>2, <2>3
<1>8. ASSUME NEW p \in Nat, a <= p, p < n
      PROVE  /\ Elem(p) \in Slot /\ e[Elem(p)] = p
             /\ d_states[Elem(p)].st \in {"WRITING", "FULL"}
  <2>1. PICK i \in Slot, x \in Nat : i = Elem(p) /\ x = e[i]
    BY ElemType
  <2>2. h <= p /\ p <= q
    BY <1>3, <1>4, <1>8
  <2>3. (x < p => x + Capacity <= p) /\ (p < x => p + Capacity <= x)
    BY <1>6, <2>1
  <2>4. p = q => i = m /\ x = c
    BY <1>2, <2>1
  <2>5. p = h => i = j /\ x = b
    BY <1>1, <2>1
  <2>6. CASE d_states[i].st \in {"WRITING", "FULL"}
    <3>1. h <= x /\ x <= q /\ q <= x + Capacity /\ x < h + Capacity
      BY <1>5, <2>1, <2>6
    <3>2. ~(p < x)
      BY <1>0, <2>2, <2>3, <3>1
    <3>3. x < p => p = q
      BY <1>0, <2>2, <2>3, <3>1
    <3>4. ~(x < p)
      BY <1>0, <1>4, <1>8, <2>4, <3>3
    <3>5. x = p
      BY <3>2, <3>4
    <3> QED BY <2>1, <2>6, <3>5
  <2>7. CASE d_states[i].st = "READING"
    <3>1. x <= h /\ h <= x + Capacity /\ x <= q /\ q <= x + Capacity
      BY <1>5, <2>1, <2>7
    <3>2. x < p => p = q
      BY <1>0, <2>2, <2>3, <3>1
    <3>3. ~(x < p)
      BY <1>0, <1>4, <1>8, <2>4, <3>2
    <3>4. x = p /\ p = h
      BY <2>2, <3>1, <3>3
    <3> QED BY <1>3, <1>8, <2>5, <2>7, <3>4
  <2>8. CASE d_states[i].st = "EMPTY"
    <3>1. q <= x /\ h <= x /\ x < h + Capacity
      BY <1>5, <2>1, <2>8
    <3>2. ~(p < x)
      BY <1>0, <2>2, <2>3, <3>1
    <3>3. x = p /\ p = q
      BY <2>2, <3>1, <3>2
    <3> QED BY <1>4, <1>8, <2>4, <2>8, <3>3
  <2> QED BY <1>5, <2>1, <2>6, <2>7, <2>8
<1>9. ASSUME NEW i \in Items
      PROVE  e[i] \in Nat /\ Elem(e[i]) = i /\ a <= e[i] /\ e[i] < n
  <2>1. i \in Slot /\ d_states[i].st \in {"WRITING", "FULL"}
    BY DEF Items
  <2>2. PICK x \in Nat : x = e[i]
    BY <2>1
  <2>3. Elem(x) = i /\ h <= x /\ x <= q
    BY <1>5, <2>1, <2>2
  <2>4. x = h => i = j /\ x = b
    BY <1>1, <2>2, <2>3
  <2>5. x = q => i = m /\ x = c
    BY <1>2, <2>2, <2>3
  <2>6. a <= x
    BY <1>3, <2>1, <2>3, <2>4
  <2>7. x < n
    BY <1>4, <2>1, <2>3, <2>5
  <2> QED BY <2>2, <2>3, <2>6, <2>7
<1> QED BY <1>3, <1>4, <1>7, <1>8, <1>9

HeadFact ==
    TwoGenerations /\ RingInv => \A g, r \in Nat : \A f \in [Slot -> Nat] :
        Ring(g, r, f) => \A b \in Nat : b = First(g, f) => HeadIndex = Word(b)

LEMMA HeadIs == HeadFact
<1> SUFFICES ASSUME TwoGenerations, RingInv, NEW h \in Nat, NEW q \in Nat,
                    NEW e \in [Slot -> Nat], Ring(h, q, e)
             PROVE  HeadIndex = Word(First(h, e))
  BY DEF HeadFact
<1>1. PICK j \in Slot, b \in Nat : j = Elem(h) /\ b = e[j]
  BY ElemType
<1>2. /\ d_popIndex = Word(h) /\ SlotRight(j, h, q, b) /\ index(Word(h)) = j
      /\ d_states[j] \in [gen : Gen, st : State]
  BY <1>1, RightOf DEF Ring, Elem, RingInv, SafeInv, Types, ManagerTypeOK
<1>3. Holds(d_popIndex, "READING") <=> b = h /\ d_states[j].st = "READING"
  <2>1. Holds(d_popIndex, "READING")
           <=> d_states[j].gen = generation(Word(h)) /\ d_states[j].st = "READING"
    BY <1>2 DEF Holds
  <2>2. ASSUME d_states[j].gen = generation(Word(h)), d_states[j].st = "READING"
        PROVE  b = h
    <3>1. Word(b) = Word(h)
      BY <1>1, <2>2, PlaceOf
    <3>2. b <= h /\ h <= b + Capacity
      BY <1>2, <2>2 DEF SlotRight
    <3>3. h < b + Turn
      BY <3>2, Turns, Constants
    <3> QED BY <3>1, <3>2, <3>3, Circle
  <2>3. b = h => d_states[j].gen = generation(Word(h))
    BY <1>2 DEF SlotRight
  <2> QED BY <2>1, <2>2, <2>3
<1>4. nextCombinedIndex(Word(h)) = Word(h + 1)
  BY WordNext
<1> QED BY <1>1, <1>2, <1>3, <1>4 DEF HeadIndex, First

LEMMA ItemsCounted ==
    ASSUME RingInv, NEW h \in Nat, NEW q \in Nat, NEW e \in [Slot -> Nat], Ring(h, q, e)
    PROVE  /\ IsFiniteSet(Items) /\ Cardinality(Items) = Past(q, e) - First(h, e)
           /\ Cardinality(Items) \in Nat /\ Past(q, e) = First(h, e) + Cardinality(Items)
<1>1. PICK a \in Nat, b \in Nat : a = First(h, e) /\ b = Past(q, e) /\ a <= b
  BY Contents
<1>2. PICK n \in Nat : n = b - a /\ b = a + n
  BY <1>1
<1> DEFINE F == [k \in 1 .. n |-> Elem(a + k - 1)]
<1>3. ASSUME NEW k \in 1 .. n
      PROVE  /\ a + k - 1 \in Nat /\ Elem(a + k - 1) \in Items
             /\ e[Elem(a + k - 1)] = a + k - 1
  <2>1. PICK p \in Nat : p = a + k - 1 /\ a <= p /\ p < b
    BY <1>2
  <2>2. Elem(p) \in Slot /\ e[Elem(p)] = p /\ d_states[Elem(p)].st \in {"WRITING", "FULL"}
    <3>1. First(h, e) <= p /\ p < Past(q, e)
      BY <1>1, <2>1
    <3> QED BY <3>1, Contents
  <2> QED BY <2>1, <2>2 DEF Items
<1>4. F \in [1 .. n -> Items]
  BY <1>3
<1>5. ASSUME NEW k \in 1 .. n, NEW l \in 1 .. n, F[k] = F[l] PROVE k = l
  <2>1. a + k - 1 = a + l - 1
    BY <1>3, <1>5
  <2> QED BY <2>1
<1>6. ASSUME NEW i \in Items PROVE \E k \in 1 .. n : F[k] = i
  <2>1. PICK p \in Nat : p = e[i] /\ Elem(p) = i /\ a <= p /\ p < b
    BY <1>1, Contents
  <2>2. PICK k \in 1 .. n : p = a + k - 1
    <3>1. p - a + 1 \in 1 .. n /\ p = a + (p - a + 1) - 1
      BY <1>2, <2>1
    <3> QED BY <3>1
  <2> QED BY <2>1, <2>2
<1>7. F \in Bijection(1 .. n, Items)
  <2>1. F \in Injection(1 .. n, Items)
    BY <1>4, <1>5 DEF Injection, IsInjective
  <2>2. F \in Surjection(1 .. n, Items)
    BY <1>4, <1>6 DEF Surjection
  <2> QED BY <2>1, <2>2 DEF Bijection
<1>8. ExistsBijection(1 .. n, Items)
  BY <1>7 DEF ExistsBijection
<1>9. Cardinality(Items) = n
  BY <1>8, FS_CountingElements
<1>10. IsFiniteSet(Items)
  <2>1. IsFiniteSet(1 .. n)
    BY FS_Interval
  <2> QED BY <1>8, <2>1, FS_Bijection
<1> QED BY <1>1, <1>2, <1>9, <1>10

\* The thread that writes an element is the one that holds its index.
LEMMA WriterThere ==
    ASSUME RingInv, NEW h \in Nat, NEW q \in Nat, NEW e \in [Slot -> Nat], Ring(h, q, e),
           NEW p \in Nat, e[Elem(p)] = p, d_states[Elem(p)].st = "WRITING"
    PROVE  \E u \in Thread : own[u] = Word(p)
<1>1. Elem(p) \in Slot
  BY ElemType
<1>2. PICK u \in Thread : \E c \in Held(u) : index(c) = Elem(p)
  BY <1>1 DEF RingInv, Owned
<1>3. PICK c \in Held(u) : index(c) = Elem(p)
  BY <1>2
<1>4. c = Word(p) /\ SafeInv
  BY <1>3, HeldAt DEF RingInv
<1>5. c = own[u]
  <2>1. ~(c = loaded[u] /\ Clearing(u))
    <3> SUFFICES ASSUME c = loaded[u], Clearing(u) PROVE FALSE
      OBVIOUS
    <3>1. Holds(loaded[u], "READING")
      BY <1>4 DEF SafeInv, ThreadsRight, HeldRight
    <3> QED BY <1>3, <3>1 DEF Holds
  <2> QED BY <1>3, <1>4, <2>1, HeldTypes DEF SafeInv
<1> QED BY <1>4, <1>5

LEMMA OneWriter ==
    SafeInv => \A p \in Nat : \A u, s \in Thread : own[u] = Word(p) /\ own[s] = Word(p) => u = s
<1> SUFFICES ASSUME SafeInv, NEW p \in Nat, NEW u \in Thread, NEW s \in Thread,
                    own[u] = Word(p), own[s] = Word(p)
             PROVE  u = s
  OBVIOUS
<1>1. Word(p) # None
  BY WordType, IndexTypes
<1>2. own[u] \in Held(u) /\ own[s] \in Held(s)
  BY <1>1 DEF Held
<1> QED BY <1>2 DEF SafeInv, ExclusiveElement

WritingFact ==
    SafeInv => \A x \in Nat : \A s \in Thread :
        own[s] = Word(x) /\ d_states[Elem(x)].st = "WRITING" =>
           Item(x) = [by |-> s, val |-> NoValue]

LEMMA ItemWriting == WritingFact
<1> SUFFICES ASSUME SafeInv, NEW p \in Nat, NEW u \in Thread,
                    own[u] = Word(p), d_states[Elem(p)].st = "WRITING"
             PROVE  Item(p) = [by |-> u, val |-> NoValue]
  BY DEF WritingFact
<1>1. \A s \in Thread : own[s] = Word(p) => s = u
  BY OneWriter
<1>2. (CHOOSE t \in Thread : own[t] = Word(p)) = u
  BY <1>1
<1> QED BY <1>2 DEF Item

LEMMA ItemTyped ==
    ASSUME RingInv, NEW h \in Nat, NEW q \in Nat, NEW e \in [Slot -> Nat], Ring(h, q, e),
           NEW p \in Nat, e[Elem(p)] = p
    PROVE  Item(p) \in ItemValues
<1>1. Elem(p) \in Slot /\ d_elements[Elem(p)] \in Value \cup {NoValue}
  BY ElemType DEF RingInv, SafeInv, Types
<1>2. CASE d_states[Elem(p)].st = "WRITING"
  <2>1. PICK u \in Thread : own[u] = Word(p)
    BY <1>2, WriterThere
  <2>2. Item(p) = [by |-> u, val |-> NoValue]
    BY <1>2, <2>1, ItemWriting DEF RingInv, WritingFact
  <2> QED BY <2>2 DEF ItemValues
<1>3. CASE d_states[Elem(p)].st # "WRITING"
  BY <1>1, <1>3 DEF Item, ItemValues
<1> QED BY <1>2, <1>3

BarFact ==
    TwoGenerations /\ RingInv => \A g, r \in Nat : \A f \in [Slot -> Nat] :
        Ring(g, r, f) =>
           \A b, m \in Nat : b = First(g, f) /\ Past(r, f) = b + m => Bar(b, m)

LEMMA BarIs == BarFact
<1> SUFFICES ASSUME TwoGenerations, RingInv,
                    NEW h \in Nat, NEW q \in Nat, NEW e \in [Slot -> Nat], Ring(h, q, e),
                    NEW a \in Nat, NEW n \in Nat, a = First(h, e), Past(q, e) = a + n
             PROVE  Bar(a, n)
  BY DEF BarFact
<1>1. n = Cardinality(Items)
  BY ItemsCounted
<1>2. HeadIndex = Word(a)
  BY <1>1, HeadIs DEF HeadFact
<1>3. ASSUME NEW k \in 1 .. n
      PROVE  /\ a + k - 1 \in Nat /\ Item(a + k - 1) \in ItemValues
             /\ (HeadIndex + k - 1) % (d_maxCombinedIndex + 1) = Word(a + k - 1)
  <2>1. PICK p \in Nat, m \in Nat : m = k - 1 /\ p = a + m /\ a <= p /\ p < a + n
    BY <1>1
  <2>2. e[Elem(p)] = p
    <3>1. First(h, e) <= p /\ p < Past(q, e)
      BY <1>1, <2>1
    <3> QED BY <3>1, Contents
  <2>3. Item(p) \in ItemValues
    BY <2>2, ItemTyped
  <2>4. (Word(a) + m) % Turn = Word(p)
    BY <2>1, WordAdd
  <2>5. Word(a) + m = HeadIndex + k - 1 /\ p = a + k - 1
    BY <1>2, <2>1, WordType
  <2> QED BY <2>3, <2>4, <2>5 DEF Turn
<1>4. itemsBar = [k \in 1 .. n |-> Item(a + k - 1)]
  <2>1. itemsBar = [k \in 1 .. n |->
           LET c == (HeadIndex + k - 1) % (d_maxCombinedIndex + 1)
           IN  IF d_states[index(c)].st = "WRITING"
               THEN [by  |-> CHOOSE t \in Thread : own[t] = c, val |-> NoValue]
               ELSE [by  |-> None, val |-> d_elements[index(c)]]]
    BY <1>1 DEF itemsBar
  <2>2. ASSUME NEW k \in 1 .. n
        PROVE  (LET c == (HeadIndex + k - 1) % (d_maxCombinedIndex + 1)
                IN  IF d_states[index(c)].st = "WRITING"
                    THEN [by  |-> CHOOSE t \in Thread : own[t] = c, val |-> NoValue]
                    ELSE [by  |-> None, val |-> d_elements[index(c)]])
               = Item(a + k - 1)
    BY <1>3 DEF Item, Elem
  <2> QED BY <2>1, <2>2
<1>5. itemsBar \in [1 .. n -> ItemValues]
  BY <1>3, <1>4
<1>6. itemsBar \in Seq(ItemValues) /\ Len(itemsBar) = n
  <2>1. itemsBar \in Seq(ItemValues)
    BY <1>5, IsASeq
  <2>2. DOMAIN itemsBar = 1 .. Len(itemsBar) /\ Len(itemsBar) \in Nat
    BY <2>1, LenProperties
  <2> QED BY <1>5, <2>1, <2>2
<1>7. \A k \in 1 .. n : itemsBar[k] = Item(a + k - 1)
  BY <1>4
<1> QED BY <1>6, <1>7 DEF Bar

LEMMA Rigid ==
    /\ TwoGenerations => TwoGenerations'
    /\ \A p \in Nat : Elem(p)' = Elem(p) /\ Word(p)' = Word(p)
BY DEF TwoGenerations, numRepresentableGenerations, Elem, Word, index, Turn,
   d_maxCombinedIndex

LEMMA BarNow ==
    ASSUME TwoGenerations, RingInv,
           NEW h \in Nat, NEW q \in Nat, NEW e \in [Slot -> Nat], Ring(h, q, e),
           NEW a \in Nat, NEW n \in Nat, a = First(h, e), Past(q, e) = a + n
    PROVE  /\ itemsBar \in Seq(ItemValues) /\ Len(itemsBar) = n
           /\ \A k \in 1 .. n : itemsBar[k] = Item(a + k - 1)
BY BarIs DEF BarFact, Bar

LEMMA BarNext ==
    ASSUME TwoGenerations, RingInv',
           NEW h \in Nat, NEW q \in Nat, NEW e \in [Slot -> Nat], Ring(h, q, e)',
           NEW a \in Nat, NEW n \in Nat, a = First(h, e)', Past(q, e)' = a + n
    PROVE  /\ itemsBar' \in Seq(ItemValues) /\ Len(itemsBar') = n
           /\ \A k \in 1 .. n : itemsBar'[k] = Item(a + k - 1)'
<1>1. BarFact'
  BY BarIs, PTL
<1>2. TwoGenerations'
  BY Rigid
<1>3. Bar(a, n)'
  BY <1>1, <1>2 DEF BarFact
<1> QED BY <1>3 DEF Bar

LEMMA HeadNext ==
    ASSUME TwoGenerations, RingInv',
           NEW h \in Nat, NEW q \in Nat, NEW e \in [Slot -> Nat], Ring(h, q, e)',
           NEW a \in Nat, a = First(h, e)'
    PROVE  HeadIndex' = Word(a)
<1>1. HeadFact'
  BY HeadIs, PTL
<1>2. TwoGenerations'
  BY Rigid
<1>3. HeadIndex' = Word(a)'
  BY <1>1, <1>2 DEF HeadFact
<1> QED BY <1>3 DEF Word, Turn, d_maxCombinedIndex

\* The item of a position whose element a step leaves alone.
LEMMA ItemSame ==
    ASSUME RingInv, SafeInv', NEW h \in Nat, NEW q \in Nat, NEW e \in [Slot -> Nat],
           Ring(h, q, e), NEW p \in Nat, e[Elem(p)] = p,
           d_states'[Elem(p)] = d_states[Elem(p)], d_elements'[Elem(p)] = d_elements[Elem(p)],
           \A u \in Thread : own[u] # None /\ index(own[u]) = Elem(p) => own'[u] = own[u]
    PROVE  Item(p)' = Item(p)
<1>1. CASE d_states[Elem(p)].st = "WRITING"
  <2>1. PICK u \in Thread : own[u] = Word(p)
    BY <1>1, WriterThere
  <2>2. Item(p) = [by |-> u, val |-> NoValue]
    BY <1>1, <2>1, ItemWriting DEF RingInv, WritingFact
  <2>3. own'[u] = Word(p)
    BY <2>1, WordType, IndexTypes DEF Elem
  <2>4. WritingFact'
    BY ItemWriting, PTL
  <2>5. own'[u] = Word(p)' /\ d_states'[Elem(p)'].st = "WRITING"
    BY <1>1, <2>3, Rigid
  <2>6. Item(p)' = [by |-> u, val |-> NoValue]
    BY <2>4, <2>5 DEF WritingFact, NoValue
  <2> QED BY <2>2, <2>6
<1>2. CASE d_states[Elem(p)].st # "WRITING"
  <2>1. d_states'[Elem(p)'].st # "WRITING" /\ Elem(p)' = Elem(p)
    BY <1>2, Rigid
  <2>2. Item(p) = [by |-> None, val |-> d_elements[Elem(p)]]
    BY <1>2 DEF Item
  <2>3. Item(p)' = [by |-> None, val |-> d_elements'[Elem(p)']]
    BY <2>1 DEF Item, None
  <2> QED BY <2>1, <2>2, <2>3
<1> QED BY <1>1, <1>2

\* Steps that move the indices at most.
LEMMA OnwardBar ==
    ASSUME TwoGenerations, RingInv,
           NEW h \in Nat, NEW q \in Nat, NEW e \in [Slot -> Nat], Ring(h, q, e),
           Onward(h, q, e), UNCHANGED <<d_states, d_elements, own>>
    PROVE  itemsBar' = itemsBar
<1>1. PICK g \in Nat, r \in Nat :
         /\ RingInv' /\ Ring(g, r, e)'
         /\ g = h \/ (g = h + 1 /\ e[Elem(h)] = h /\ d_states[Elem(h)].st = "READING")
  BY DEF Onward
<1>2. PICK a \in Nat : a = First(h, e)
  BY Contents
<1>3. First(g, e)' = a
  <2>0. First(g, e)' = IF e[Elem(g)] = g /\ d_states[Elem(g)].st = "READING" THEN g + 1 ELSE g
    BY DEF First, Elem, Word, index
  <2>1. CASE g = h
    BY <1>2, <2>0, <2>1 DEF First
  <2>2. CASE g = h + 1 /\ e[Elem(h)] = h /\ d_states[Elem(h)].st = "READING"
    <3>1. SlotRight(Elem(g), h, q, e[Elem(g)]) /\ e[Elem(g)] \in Nat
      BY PlaceOf
    <3>2. ~(e[Elem(g)] = g /\ d_states[Elem(g)].st = "READING")
      BY <2>2, <3>1 DEF SlotRight
    <3> QED BY <1>2, <2>0, <2>2, <3>2 DEF First
  <2> QED BY <1>1, <2>1, <2>2
<1>4. HeadIndex' = HeadIndex
  <2>1. HeadIndex = Word(a)
    BY <1>2, HeadIs DEF HeadFact
  <2>2. HeadIndex' = Word(a)
    BY <1>1, <1>3, HeadNext
  <2> QED BY <2>1, <2>2
<1>5. Items' = Items
  BY DEF Items
<1> QED BY <1>4, <1>5 DEF itemsBar, index, NoValue, None, d_maxCombinedIndex

\* A step that leaves every item in its place.
LEMMA BarSame ==
    ASSUME TwoGenerations, RingInv, RingInv',
           NEW h \in Nat, NEW q \in Nat, NEW e \in [Slot -> Nat], Ring(h, q, e),
           NEW f \in [Slot -> Nat], Ring(h, q, f)',
           First(h, f)' = First(h, e), Past(q, f)' = Past(q, e),
           \A p \in Nat : First(h, e) <= p /\ p < Past(q, e) => Item(p)' = Item(p)
    PROVE  itemsBar' = itemsBar
<1>1. PICK a \in Nat, n \in Nat : a = First(h, e) /\ Past(q, e) = a + n
  <2>1. First(h, e) \in Nat /\ Past(q, e) \in Nat /\ First(h, e) <= Past(q, e)
    BY Contents
  <2> QED BY <2>1
<1>2. /\ itemsBar \in Seq(ItemValues) /\ Len(itemsBar) = n
      /\ \A k \in 1 .. n : itemsBar[k] = Item(a + k - 1)
  BY <1>1, BarNow
<1>3. /\ itemsBar' \in Seq(ItemValues) /\ Len(itemsBar') = n
      /\ \A k \in 1 .. n : itemsBar'[k] = Item(a + k - 1)'
  BY <1>1, BarNext
<1>4. ASSUME NEW k \in 1 .. n PROVE itemsBar'[k] = itemsBar[k]
  <2>1. PICK p \in Nat : p = a + k - 1 /\ a <= p /\ p < a + n
    BY <1>1
  <2>2. Item(p)' = Item(p)
    BY <1>1, <2>1
  <2>3. itemsBar[k] = Item(p) /\ itemsBar'[k] = Item(a + k - 1)'
    BY <1>2, <1>3, <2>1
  <2> QED BY <2>1, <2>2, <2>3
<1> QED BY <1>2, <1>3, <1>4, SeqEqual

-----------------------------------------------------------------------------
(* The steps of the queue, as steps of a bounded FIFO *)

LEMMA Slid ==
    ASSUME NEW S, NEW s \in Seq(S), NEW r \in Seq(S), NEW m \in 1 .. Len(s),
           Len(r) = Len(s) - m, \A i \in 1 .. Len(r) : r[i] = s[i + m]
    PROVE  r = SubSeq(s, m + 1, Len(s)) /\ (m = 1 => r = Tail(s))
<1>1. Len(s) \in Nat /\ m \in Nat /\ \A i \in 1 .. Len(s) : s[i] \in S
  BY LenProperties, ElementOfSeq
<1> DEFINE u == SubSeq(s, m + 1, Len(s))
<1>2. /\ u \in Seq(S)
      /\ Len(u) = IF m + 1 <= Len(s) THEN Len(s) - (m + 1) + 1 ELSE 0
      /\ \A i \in 1 .. Len(s) - (m + 1) + 1 : u[i] = s[(m + 1) + i - 1]
  <2>1. m + 1 \in Int /\ Len(s) \in Int /\ \A i \in m + 1 .. Len(s) : s[i] \in S
    BY <1>1
  <2> HIDE DEF u
  <2> QED BY <2>1, SubSeqProperties DEF u
<1> HIDE DEF u
<1>3. Len(u) = Len(r)
  BY <1>1, <1>2
<1>4. ASSUME NEW i \in 1 .. Len(r) PROVE r[i] = u[i]
  <2>1. i \in 1 .. Len(s) - (m + 1) + 1 /\ (m + 1) + i - 1 = i + m
    BY <1>1
  <2> QED BY <1>2, <2>1
<1>5. r = u
  BY <1>2, <1>3, <1>4, SeqEqual
<1>6. m = 1 => r = Tail(s)
  <2>1. s # <<>>
    BY <1>1, EmptySeq
  <2>2. Tail(s) = SubSeq(s, 2, Len(s))
    BY <2>1, TailIsSubSeq
  <2> QED BY <1>5, <2>2 DEF u
<1> QED BY <1>5, <1>6 DEF u

LEMMA Grown ==
    ASSUME NEW S, NEW s \in Seq(S), NEW r \in Seq(S), NEW e \in S,
           Len(r) = Len(s) + 1, r[Len(r)] = e, \A i \in 1 .. Len(s) : r[i] = s[i]
    PROVE  r = Append(s, e)
<1>1. Len(s) \in Nat
  BY LenProperties
<1>2. /\ Append(s, e) \in Seq(S) /\ Len(Append(s, e)) = Len(s) + 1
      /\ \A i \in 1 .. Len(s) : Append(s, e)[i] = s[i]
      /\ Append(s, e)[Len(s) + 1] = e
  BY AppendProperties
<1>3. ASSUME NEW i \in 1 .. Len(r) PROVE r[i] = Append(s, e)[i]
  <2>1. i \in 1 .. Len(s) \/ i = Len(s) + 1
    BY <1>1
  <2> QED BY <1>2, <2>1
<1> QED BY <1>2, <1>3, SeqEqual

LEMMA Changed ==
    ASSUME NEW S, NEW s \in Seq(S), NEW r \in Seq(S), NEW j \in 1 .. Len(s), NEW e \in S,
           Len(r) = Len(s), r[j] = e, \A i \in 1 .. Len(s) : i # j => r[i] = s[i]
    PROVE  r = [s EXCEPT ![j] = e]
<1>1. /\ [s EXCEPT ![j] = e] \in Seq(S) /\ Len([s EXCEPT ![j] = e]) = Len(s)
      /\ \A i \in 1 .. Len(s) : [s EXCEPT ![j] = e][i] = IF i = j THEN e ELSE s[i]
  BY ExceptSeq
<1>2. \A i \in 1 .. Len(r) : r[i] = [s EXCEPT ![j] = e][i]
  BY <1>1
<1> QED BY <1>1, <1>2, SeqEqual

\* A pop has taken its value when it has emptied the element.
Unpopped ==
    \A t \in Thread :
        op[t] \in Popping /\ pc[t] \notin {"check_pushers", "post_pusher"} => value[t] = NoValue

FifoInv == RingInv /\ Unpopped

FifoStep == [Fifo!Next]_<<itemsBar, outBar>>

OutFact == outBar = [t \in Thread |-> Got(t)]

LEMMA OutIs == OutFact
BY DEF OutFact, outBar, Got

LEMMA OutBars ==
    outBar = [t \in Thread |-> Got(t)] /\ outBar' = [t \in Thread |-> Got(t)']
<1>1. OutFact'
  BY OutIs, PTL
<1> QED BY <1>1, OutIs DEF OutFact

\* What a step does to the values taken, when it is one thread's.
LEMMA OutMoves ==
    ASSUME NEW t \in Thread, \A u \in Thread \ {t} : Got(u)' = Got(u)
    PROVE  /\ outBar' = [outBar EXCEPT ![t] = Got(t)'] /\ outBar[t] = Got(t)
           /\ Got(t)' = Got(t) => outBar' = outBar
BY OutBars

\* Another thread's value stays where it is, in an element that this one does not hold.
LEMMA OthersGot ==
    ASSUME RingInv, NEW t \in Thread, SameOthers(t), NEW c \in Held(t),
           \A j \in Slot \ {index(c)} : d_elements'[j] = d_elements[j]
    PROVE  \A u \in Thread \ {t} : Got(u)' = Got(u)
<1> SUFFICES ASSUME NEW u \in Thread \ {t} PROVE Got(u)' = Got(u)
  OBVIOUS
<1>1. own'[u] = own[u] /\ op'[u] = op[u] /\ value'[u] = value[u]
  BY DEF SameOthers
<1>2. CASE own[u] = None
  BY <1>1, <1>2 DEF Got, None, NoValue
<1>3. CASE own[u] # None
  <2>1. own[u] \in Held(u) /\ index(own[u]) \in Slot
    BY <1>3, HeldTypes, RightOf, IndexTypes
  <2>2. index(own[u]) # index(c)
    BY <2>1 DEF RingInv, SafeInv, ExclusiveElement
  <2>3. d_elements'[index(own[u])] = d_elements[index(own[u])]
    BY <2>1, <2>2
  <2> QED BY <1>1, <1>3, <2>3 DEF Got, None, NoValue, index
<1> QED BY <1>2, <1>3

\* Nor does it move when no element changes.
LEMMA StillGot ==
    ASSUME NEW t \in Thread, SameOthers(t), d_elements' = d_elements
    PROVE  \A u \in Thread \ {t} : Got(u)' = Got(u)
BY DEF SameOthers, Got, None, NoValue, index

LEMMA StepOfFifo ==
    ASSUME NEW t \in Thread,
           \/ Fifo!Discard \/ Fifo!Reserve(t) \/ Fifo!Publish(t) \/ Fifo!Take(t)
           \/ Fifo!Abort(t) \/ Fifo!Forget(t)
           \/ (itemsBar' = itemsBar /\ outBar' = outBar)
    PROVE  FifoStep
BY DEF FifoStep, Fifo!Next

LEMMA Forgets ==
    ASSUME NEW t \in Thread, itemsBar' = itemsBar, \A u \in Thread \ {t} : Got(u)' = Got(u),
           Got(t)' = Got(t) \/ Got(t)' = NoValue
    PROVE  FifoStep
<1>1. CASE Got(t)' = Got(t)
  BY <1>1, OutMoves, StepOfFifo
<1>2. CASE Got(t)' = NoValue
  <2>1. outBar' = [outBar EXCEPT ![t] = NoValue]
    BY <1>2, OutMoves
  <2>2. Fifo!Forget(t)
    BY <2>1 DEF Fifo!Forget
  <2> QED BY <2>2, StepOfFifo
<1> QED BY <1>1, <1>2

LEMMA OnwardFifo ==
    ASSUME TwoGenerations, FifoInv, SafeInv', Timely', NEW t \in Thread,
           NEW h \in Nat, NEW q \in Nat, NEW e \in [Slot -> Nat], Ring(h, q, e),
           OtherStep(t) \/ (ManagerCall(t) /\ ReadsOrMoves(t))
    PROVE  FifoStep
<1>0. RingInv /\ SafeInv /\ CallRight(t)
  BY RightOf DEF FifoInv
<1>1. Onward(h, q, e) /\ UNCHANGED <<d_states, d_elements, own>>
  BY <1>0, OnwardSteps
<1>2. itemsBar' = itemsBar
  BY <1>0, <1>1, OnwardBar
<1>3. /\ SameOthers(t)
      /\ \/ op'[t] = op[t] /\ value'[t] = value[t]
         \/ op'[t] \notin Popping
         \/ op'[t] \in Popping /\ value'[t] = NoValue /\ pc[t] = "idle"
  <2>1. CASE OtherStep(t)
    BY <1>0, <2>1, OtherOutside DEF OutsideOf, CallMoves
  <2>2. CASE ManagerCall(t)
    BY <1>0, <2>2, ManagerOthers DEF callVars
  <2> QED BY <2>1, <2>2
<1>4. Got(t)' = Got(t) \/ Got(t)' = NoValue
  <2>1. CASE op'[t] = op[t] /\ value'[t] = value[t]
    BY <1>1, <2>1 DEF Got, None, NoValue, index
  <2>2. CASE op'[t] \notin Popping
    BY <2>2 DEF Got, NoValue
  <2>3. CASE op'[t] \in Popping /\ value'[t] = NoValue /\ pc[t] = "idle"
    <3>1. own'[t] = None
      BY <1>0, <1>1, <2>3 DEF CallRight, Clears, Aborts
    <3> QED BY <2>3, <3>1 DEF Got, NoValue, None
  <2> QED BY <1>3, <2>1, <2>2, <2>3
<1> QED BY <1>1, <1>2, <1>3, <1>4, StillGot, Forgets

LEMMA ManagerAt ==
    ASSUME NEW t \in Thread, ManagerCall(t)
    PROVE  pc[t] \notin {"check_pushers", "post_pusher"}
BY DEF ManagerCall, ManagerStep, reservePushIndex, reservePopIndex, reservePopIndexForClear,
   abortPushIndexReservation, ReservePushLoad, ReservePushSwap, ReservePushAcquire,
   ReservePushBehind, ReservePushTaken, ReservePushHelp, ReservePushAdvance,
   ReservePopLoad, ReservePopSwap, ReservePopAcquire, ReservePopEmpty, ReservePopRetry,
   ReservePopTaken, ReservePopHelp, ReservePopAdvance, ReserveClearLoad, ReserveClearSwap,
   ReserveClearHelp, ReserveClearAdvance, AbortReading, AbortAdvance, AbortEmpty,
   Return, Goto

LEMMA UnpoppedKept ==
    ASSUME FifoInv, NEW t \in Thread, ThreadStep(t) \/ ClientCall(t)
    PROVE  Unpopped'
<1>0. /\ SafeInv /\ Types /\ CallRight(t) /\ pc \in [Thread -> QueuePC]
      /\ op \in [Thread -> AllCalls \cup {"none"}]
  BY RightOf DEF FifoInv, Types
<1>1. /\ SameOthers(t)
      /\ op'[t] \in Popping /\ pc'[t] \notin {"check_pushers", "post_pusher"} =>
            value'[t] = NoValue
  <2>1. CASE OtherStep(t)
    BY <1>0, <2>1, OtherOutside DEF OutsideOf, CallMoves, FifoInv, Unpopped
  <2>2. CASE ManagerCall(t)
    BY <1>0, <2>2, ManagerOthers, ManagerAt DEF callVars, FifoInv, Unpopped
  <2>3. CASE ConstructAndCommit(t)
    <3>1. op'[t] = op[t] /\ op[t] \notin Popping
      BY <2>3 DEF ConstructAndCommit, callVars, Pushing, Popping
    <3> QED BY <1>0, <2>3, <3>1, ConstructOthers
  <2>4. CASE TakeAndCommit(t)
    BY <1>0, <2>4 DEF TakeAndCommit, Goto, SameOthers, Types
  <2>5. CASE RemoveElement(t)
    <3>1. op'[t] = op[t] /\ op[t] \notin Popping
      BY <2>5 DEF RemoveElement, Popping
    <3>2. SameOthers(t)
      BY <1>0, <2>5 DEF RemoveElement, RemoveNext, Goto, SameOthers, Types, ManagerTypeOK
    <3> QED BY <3>1, <3>2
  <2>6. CASE ClearElement(t)
    <3>1. op'[t] = op[t] /\ op[t] \notin Popping
      BY <1>0, <2>6 DEF ClearElement, Goto, CallRight, Clears, Pushing, Popping
    <3>2. SameOthers(t)
      BY <1>0, <2>6 DEF ClearElement, OnlyMoves, Goto, SameOthers
    <3> QED BY <3>1, <3>2
  <2> QED BY <2>1, <2>2, <2>3, <2>4, <2>5, <2>6, StepCases
<1>2. \A u \in Thread \ {t} : op'[u] = op[u] /\ pc'[u] = pc[u] /\ value'[u] = value[u]
  BY <1>1 DEF SameOthers
<1> QED BY <1>1, <1>2 DEF FifoInv, Unpopped, NoValue

\* An element that has been read is emptied: its place has left the FIFO before.
LEMMA EmptiesFifo ==
    ASSUME TwoGenerations, FifoInv, SafeInv', Timely', NEW t \in Thread,
           NEW h \in Nat, NEW q \in Nat, NEW e \in [Slot -> Nat], Ring(h, q, e),
           NEW c, Empties(t, c)
    PROVE  FifoStep
<1>0. RingInv /\ SafeInv /\ Types /\ CallRight(t) /\ own \in [Thread -> Combined \cup {None}]
  BY RightOf DEF FifoInv, Types, ManagerTypeOK
<1>1. PICK i \in Slot : i = index(c)
  BY <1>0, EmptiesRing
<1>2. PICK f \in [Slot -> Nat] : /\ Ring(h, q, f)' /\ f[i] = e[i] + Capacity
                                 /\ \A j \in Slot \ {i} : f[j] = e[j]
  BY <1>0, <1>1, EmptiesRing
<1>3. /\ RingInv' /\ SameOthers(t) /\ c \in Held(t)
      /\ d_states[i].st = "READING" /\ e[i] < h /\ d_states'[i].st = "EMPTY"
      /\ \A j \in Slot \ {i} : d_states'[j] = d_states[j] /\ d_elements'[j] = d_elements[j]
      /\ own'[t] = own[t] \/ (own[t] = c /\ own'[t] = None)
  BY <1>0, <1>1, EmptiesRing
<1>4. PICK a \in Nat : a = e[i] /\ a < h /\ Elem(a) = i /\ a <= q /\ q <= a + Capacity
  BY <1>1, <1>3 DEF Ring, SlotRight
<1>5. First(h, f)' = First(h, e)
  <2>1. PICK j \in Slot : j = Elem(h)
    BY ElemType
  <2>2. First(h, f)' = IF f[j] = h /\ d_states'[j].st = "READING" THEN h + 1 ELSE h
    BY <2>1, Rigid DEF First
  <2>3. First(h, e) = IF e[j] = h /\ d_states[j].st = "READING" THEN h + 1 ELSE h
    BY <2>1 DEF First
  <2>4. CASE j = i
    BY <1>3, <2>2, <2>3, <2>4
  <2>5. CASE j # i
    BY <1>2, <1>3, <2>2, <2>3, <2>5
  <2> QED BY <2>4, <2>5
<1>6. Past(q, f)' = Past(q, e)
  <2>1. PICK j \in Slot : j = Elem(q)
    BY ElemType
  <2>2. Past(q, f)' = IF f[j] > q \/ (f[j] = q /\ d_states'[j].st # "EMPTY") THEN q + 1 ELSE q
    BY <2>1, Rigid DEF Past, Acquired
  <2>3. Past(q, e) = IF e[j] > q \/ (e[j] = q /\ d_states[j].st # "EMPTY") THEN q + 1 ELSE q
    BY <2>1 DEF Past, Acquired
  <2>4. CASE j = i
    <3>1. a < q => a + Capacity <= q
      BY <1>4, <2>1, <2>4, SamePlace
    <3>2. Capacity \in Nat /\ Capacity >= 1
      BY Constants
    <3>3. (f[j] > q <=> a = q) /\ (e[j] > q \/ e[j] = q <=> a = q)
      BY <1>2, <1>4, <2>4, <3>1, <3>2
    <3> QED BY <1>3, <1>4, <2>2, <2>3, <2>4, <3>3
  <2>5. CASE j # i
    BY <1>2, <1>3, <2>2, <2>3, <2>5
  <2> QED BY <2>4, <2>5
<1>7. ASSUME NEW p \in Nat, First(h, e) <= p, p < Past(q, e) PROVE Item(p)' = Item(p)
  <2>1. /\ Elem(p) \in Slot /\ e[Elem(p)] = p
        /\ d_states[Elem(p)].st \in {"WRITING", "FULL"}
    BY <1>0, <1>7, Contents
  <2>2. Elem(p) # i
    BY <1>3, <2>1
  <2>3. \A u \in Thread : own[u] # None /\ index(own[u]) = Elem(p) => own'[u] = own[u]
    BY <1>1, <1>3, <2>2 DEF SameOthers
  <2> QED BY <1>0, <1>3, <2>1, <2>2, <2>3, ItemSame
<1>8. itemsBar' = itemsBar
  BY <1>0, <1>2, <1>3, <1>5, <1>6, <1>7, BarSame
<1>9. \A u \in Thread \ {t} : Got(u)' = Got(u)
  BY <1>0, <1>1, <1>3, OthersGot
<1>10. Got(t)' = Got(t)
  <2>1. CASE TakeAndCommit(t) /\ c = own[t]
    <3>1. /\ op[t] \in Popping /\ op'[t] = op[t] /\ own[t] # None /\ own'[t] = None
          /\ value'[t] = d_elements[index(own[t])]
      BY <1>0, <2>1 DEF TakeAndCommit, Types
    <3> QED BY <3>1 DEF Got, None, NoValue
  <2>2. CASE RemoveElement(t) \/ ClearElement(t) \/ (AbortEmpty(t) /\ UNCHANGED callVars)
    <3>1. op'[t] = op[t] /\ op[t] \notin Popping
      BY <1>0, <2>2 DEF RemoveElement, ClearElement, AbortEmpty, callVars, Goto, CallRight,
         Clears, Aborts, Pushing, Popping
    <3> QED BY <3>1 DEF Got, NoValue
  <2> QED BY <2>1, <2>2 DEF Empties
<1> QED BY <1>8, <1>9, <1>10, Forgets

\* A push acquires the element of the next position: the FIFO reserves its place.
LEMMA PushAcquireFifo ==
    ASSUME TwoGenerations, FifoInv, SafeInv', Timely', NEW t \in Thread,
           NEW h \in Nat, NEW q \in Nat, NEW e \in [Slot -> Nat], Ring(h, q, e),
           ManagerCall(t), ReservePushAcquire(t)
    PROVE  FifoStep
<1>0. /\ RingInv /\ SafeInv /\ Types /\ CallRight(t)
      /\ own \in [Thread -> Combined \cup {None}]
      /\ d_states \in [Slot -> [gen : Gen, st : State]]
  BY RightOf DEF FifoInv, Types, ManagerTypeOK
<1>1. SameOthers(t) /\ UNCHANGED <<callVars, d_elements>>
  BY <1>0, ManagerOthers
<1>2. RingInv' /\ Ring(h, q, e)' /\ loaded[t] = Word(q)
  BY <1>0, <1>1, PushAcquireRing
<1>3. PICK i \in Slot : i = Elem(q) /\ e[i] = q /\ i = index(loaded[t])
  <2>1. Elem(q) \in Slot /\ e[Elem(q)] = q
    BY <1>0, <1>1, PushAcquireRing
  <2> QED BY <1>2, <2>1 DEF Elem
<1>4. /\ own[t] = None /\ own'[t] = Word(q)
      /\ d_states[i].st = "EMPTY" /\ d_states'[i].st = "WRITING"
      /\ \A j \in Slot \ {i} : d_states'[j] = d_states[j]
  <2>1. pc[t] = "push_swap" /\ own' = [own EXCEPT ![t] = loaded[t]]
        /\ Holds(loaded[t], "EMPTY")
        /\ SetState(loaded[t], generation(loaded[t]), "WRITING")
    BY DEF ReservePushAcquire, Goto
  <2>2. own[t] = None
    BY <1>0, <2>1 DEF CallRight, Clears, Aborts
  <2>3. own'[t] = Word(q) /\ d_states[i].st = "EMPTY"
    BY <1>0, <1>2, <1>3, <2>1 DEF Holds
  <2>4. d_states' = [d_states EXCEPT ![i] = [gen |-> generation(loaded[t]), st |-> "WRITING"]]
    BY <1>3, <2>1 DEF SetState
  <2>5. d_states'[i].st = "WRITING" /\ \A j \in Slot \ {i} : d_states'[j] = d_states[j]
    BY <1>0, <2>4
  <2> QED BY <2>2, <2>3, <2>5
<1>5. First(h, e)' = First(h, e)
  <2>1. PICK j \in Slot : j = Elem(h)
    BY ElemType
  <2>2. First(h, e)' = IF e[j] = h /\ d_states'[j].st = "READING" THEN h + 1 ELSE h
    BY <2>1, Rigid DEF First
  <2>3. First(h, e) = IF e[j] = h /\ d_states[j].st = "READING" THEN h + 1 ELSE h
    BY <2>1 DEF First
  <2> QED BY <1>4, <2>2, <2>3
<1>6. Past(q, e) = q /\ Past(q, e)' = q + 1
  BY <1>3, <1>4, Rigid DEF Past, Acquired
<1>7. PICK a \in Nat, n \in Nat : a = First(h, e) /\ q = a + n
  <2>1. First(h, e) \in Nat /\ First(h, e) <= q
    BY <1>0, <1>6, Contents
  <2> QED BY <2>1
<1>8. /\ itemsBar \in Seq(ItemValues) /\ Len(itemsBar) = n
      /\ \A k \in 1 .. n : itemsBar[k] = Item(a + k - 1)
  BY <1>0, <1>6, <1>7, BarNow
<1>9. /\ itemsBar' \in Seq(ItemValues) /\ Len(itemsBar') = n + 1
      /\ \A k \in 1 .. n + 1 : itemsBar'[k] = Item(a + k - 1)'
  <2>1. PICK m \in Nat : m = n + 1
    OBVIOUS
  <2>2. Past(q, e)' = a + m /\ a = First(h, e)'
    BY <1>5, <1>6, <1>7, <2>1
  <2>3. /\ itemsBar' \in Seq(ItemValues) /\ Len(itemsBar') = m
        /\ \A k \in 1 .. m : itemsBar'[k] = Item(a + k - 1)'
    BY <1>2, <2>2, BarNext
  <2> QED BY <2>1, <2>3
<1> DEFINE w == [by |-> t, val |-> NoValue]
<1>10. Item(q)' = w
  <2>1. WritingFact'
    BY ItemWriting, PTL
  <2>2. own'[t] = Word(q)' /\ d_states'[Elem(q)'].st = "WRITING"
    BY <1>3, <1>4, Rigid
  <2> QED BY <2>1, <2>2 DEF WritingFact, NoValue
<1>11. ASSUME NEW k \in 1 .. n
       PROVE  itemsBar'[k] = itemsBar[k] /\ itemsBar[k].by # t
  <2>1. PICK p \in Nat : p = a + k - 1 /\ a <= p /\ p < q
    BY <1>7
  <2>2. /\ Elem(p) \in Slot /\ e[Elem(p)] = p
        /\ d_states[Elem(p)].st \in {"WRITING", "FULL"}
    <3>1. First(h, e) <= p /\ p < Past(q, e)
      BY <1>6, <1>7, <2>1
    <3> QED BY <1>0, <3>1, Contents
  <2>3. Elem(p) # i
    BY <1>4, <2>2
  <2>4. \A u \in Thread : own[u] # None /\ index(own[u]) = Elem(p) => own'[u] = own[u]
    BY <1>1, <1>4 DEF SameOthers
  <2>5. Item(p)' = Item(p)
    BY <1>0, <1>1, <1>4, <2>2, <2>3, <2>4, ItemSame
  <2>6. k \in 1 .. n + 1
    OBVIOUS
  <2>7. itemsBar[k] = Item(p) /\ itemsBar'[k] = Item(p)'
    BY <1>8, <1>9, <2>1, <2>6
  <2>8. Item(p).by # t
    <3>1. CASE d_states[Elem(p)].st = "WRITING"
      <4>1. PICK u \in Thread : own[u] = Word(p)
        BY <1>0, <2>2, <3>1, WriterThere
      <4>2. Item(p) = [by |-> u, val |-> NoValue]
        BY <1>0, <3>1, <4>1, ItemWriting DEF WritingFact
      <4>3. u # t
        BY <1>4, <4>1, WordType, IndexTypes
      <4> QED BY <4>2, <4>3
    <3>2. CASE d_states[Elem(p)].st # "WRITING"
      BY <3>2, QueueAssumption DEF Item, QueueAssumption
    <3> QED BY <3>1, <3>2
  <2> QED BY <2>5, <2>7, <2>8
<1>12. itemsBar' = Append(itemsBar, w)
  <2>1. w \in ItemValues
    BY DEF ItemValues
  <2>2. itemsBar'[n + 1] = w
    <3>1. n + 1 \in 1 .. n + 1 /\ a + (n + 1) - 1 = q
      BY <1>7
    <3>2. itemsBar'[n + 1] = Item(a + (n + 1) - 1)'
      BY <1>9, <3>1
    <3> QED BY <1>10, <3>1, <3>2
  <2> HIDE DEF w
  <2> QED BY <1>8, <1>9, <1>11, <2>1, <2>2, Grown
<1>13. Len(itemsBar) < Capacity
  <2>1. n = Cardinality(Items)
    BY <1>0, <1>6, <1>7, ItemsCounted
  <2>2. Items \subseteq Slot \ {i}
    BY <1>4 DEF Items
  <2>3. IsFiniteSet(Slot) /\ Cardinality(Slot) = Capacity
    BY Constants, FS_Interval DEF Slot
  <2>4. IsFiniteSet(Slot \ {i}) /\ Cardinality(Slot \ {i}) = Capacity - 1
    BY <2>3, FS_RemoveElement
  <2>5. Cardinality(Items) <= Capacity - 1
    BY <2>2, <2>4, FS_Subset
  <2> QED BY <1>8, <2>1, <2>5, Constants
<1>14. outBar' = outBar
  <2>1. Got(t)' = NoValue /\ Got(t) = NoValue
    <3>1. op[t] \notin Popping /\ op'[t] = op[t]
      BY <1>0, <1>1 DEF ReservePushAcquire, Goto, CallRight, PushCalls, callVars,
         Pushing, Popping
    <3> QED BY <3>1 DEF Got, NoValue
  <2> QED BY <1>1, <2>1, StillGot, OutMoves
<1>15. Fifo!Reserve(t)
  BY <1>8, <1>11, <1>12, <1>13, <1>14 DEF Fifo!Reserve, Fifo!Writing
<1> QED BY <1>15, StepOfFifo

\* A push constructs its value: the FIFO publishes it.
LEMMA ConstructFifo ==
    ASSUME TwoGenerations, FifoInv, SafeInv', Timely', NEW t \in Thread,
           NEW h \in Nat, NEW q \in Nat, NEW e \in [Slot -> Nat], Ring(h, q, e),
           ConstructAndCommit(t)
    PROVE  FifoStep
<1>0. /\ RingInv /\ SafeInv /\ Types /\ CallRight(t)
      /\ own \in [Thread -> Combined \cup {None}]
      /\ d_elements \in [Slot -> Value \cup {NoValue}]
      /\ d_states \in [Slot -> [gen : Gen, st : State]]
  BY RightOf DEF FifoInv, Types, ManagerTypeOK
<1>1. SameOthers(t)
  BY <1>0, ConstructOthers
<1>2. RingInv' /\ Ring(h, q, e)'
  BY <1>0, <1>1, ConstructRing
<1>3. PICK i \in Slot, p \in Nat : /\ i = index(own[t]) /\ p = e[i] /\ own[t] = Word(p)
                                   /\ Elem(p) = i /\ d_states[i].st = "WRITING"
  <2>1. /\ index(own[t]) \in Slot /\ d_states[index(own[t])].st = "WRITING"
        /\ own[t] = Word(e[index(own[t])])
    BY <1>0, <1>1, ConstructRing
  <2>2. e[index(own[t])] \in Nat /\ Elem(e[index(own[t])]) = index(own[t])
    BY <2>1 DEF Elem
  <2> QED BY <2>1, <2>2
<1>4. PICK v \in Value : v = value[t]
  BY <1>0 DEF ConstructAndCommit, CallRight
<1>5. /\ op[t] \in Pushing /\ op'[t] = op[t] /\ own[t] # None /\ own'[t] = None
      /\ d_elements'[i] = v /\ d_states'[i].st = "FULL"
      /\ \A j \in Slot \ {i} : d_states'[j] = d_states[j] /\ d_elements'[j] = d_elements[j]
  <2>1. /\ op[t] \in Pushing /\ op' = op /\ own[t] # None
        /\ own' = [own EXCEPT ![t] = None]
        /\ d_elements' = [d_elements EXCEPT ![i] = v]
        /\ SetState(own[t], generation(own[t]), "FULL")
    BY <1>3, <1>4 DEF ConstructAndCommit, StoreFull, callVars
  <2>2. d_states' = [d_states EXCEPT ![i] = [gen |-> generation(own[t]), st |-> "FULL"]]
    BY <1>3, <2>1 DEF SetState
  <2> QED BY <1>0, <2>1, <2>2
<1>6. First(h, e)' = First(h, e)
  <2>1. PICK j \in Slot : j = Elem(h)
    BY ElemType
  <2>2. First(h, e)' = IF e[j] = h /\ d_states'[j].st = "READING" THEN h + 1 ELSE h
    BY <2>1, Rigid DEF First
  <2>3. First(h, e) = IF e[j] = h /\ d_states[j].st = "READING" THEN h + 1 ELSE h
    BY <2>1 DEF First
  <2> QED BY <1>3, <1>5, <2>2, <2>3
<1>7. Past(q, e)' = Past(q, e)
  <2>1. PICK j \in Slot : j = Elem(q)
    BY ElemType
  <2>2. Past(q, e)' = IF e[j] > q \/ (e[j] = q /\ d_states'[j].st # "EMPTY") THEN q + 1 ELSE q
    BY <2>1, Rigid DEF Past, Acquired
  <2>3. Past(q, e) = IF e[j] > q \/ (e[j] = q /\ d_states[j].st # "EMPTY") THEN q + 1 ELSE q
    BY <2>1 DEF Past, Acquired
  <2> QED BY <1>3, <1>5, <2>2, <2>3
<1>8. PICK a \in Nat, n \in Nat : a = First(h, e) /\ Past(q, e) = a + n
  <2>1. First(h, e) \in Nat /\ Past(q, e) \in Nat /\ First(h, e) <= Past(q, e)
    BY <1>0, Contents
  <2> QED BY <2>1
<1>9. /\ itemsBar \in Seq(ItemValues) /\ Len(itemsBar) = n
      /\ \A k \in 1 .. n : itemsBar[k] = Item(a + k - 1)
  BY <1>0, <1>8, BarNow
<1>10. /\ itemsBar' \in Seq(ItemValues) /\ Len(itemsBar') = n
       /\ \A k \in 1 .. n : itemsBar'[k] = Item(a + k - 1)'
  BY <1>2, <1>6, <1>7, <1>8, BarNext
<1>11. PICK j \in 1 .. n : p = a + j - 1
  <2>1. i \in Items
    BY <1>3 DEF Items
  <2>2. a <= p /\ p < a + n
    <3>1. First(h, e) <= e[i] /\ e[i] < Past(q, e)
      BY <1>0, <2>1, Contents
    <3> QED BY <1>3, <1>8, <3>1
  <2>3. (p - a) + 1 \in 1 .. n /\ p = a + ((p - a) + 1) - 1
    BY <2>2
  <2> QED BY <2>3
<1> DEFINE full == [by |-> None, val |-> v]
<1>12. itemsBar[j] = [by |-> t, val |-> NoValue] /\ itemsBar'[j] = full
  <2>1. Item(p) = [by |-> t, val |-> NoValue]
    BY <1>0, <1>3, ItemWriting DEF WritingFact
  <2>2. d_states'[Elem(p)'].st = "FULL" /\ d_elements'[Elem(p)'] = v
    BY <1>3, <1>5, Rigid
  <2>3. Item(p)' = full
    BY <2>2 DEF Item, None
  <2> QED BY <1>9, <1>10, <1>11, <2>1, <2>3
<1>13. ASSUME NEW k \in 1 .. n, k # j PROVE itemsBar'[k] = itemsBar[k]
  <2>1. PICK b \in Nat : b = a + k - 1 /\ a <= b /\ b < a + n /\ b # p
    BY <1>11, <1>13
  <2>2. Elem(b) \in Slot /\ e[Elem(b)] = b
    <3>1. First(h, e) <= b /\ b < Past(q, e)
      BY <1>8, <2>1
    <3> QED BY <1>0, <3>1, Contents
  <2>3. Elem(b) # i
    BY <1>3, <2>1, <2>2
  <2>4. \A u \in Thread : own[u] # None /\ index(own[u]) = Elem(b) => own'[u] = own[u]
    BY <1>1, <1>3, <2>3 DEF SameOthers
  <2>5. Item(b)' = Item(b)
    BY <1>0, <1>5, <2>2, <2>3, <2>4, ItemSame
  <2> QED BY <1>9, <1>10, <2>1, <2>5
<1>14. itemsBar' = [itemsBar EXCEPT ![j] = full]
  <2>1. full \in ItemValues
    BY DEF ItemValues
  <2>2. j \in 1 .. Len(itemsBar)
    BY <1>9
  <2> HIDE DEF full
  <2> QED BY <1>9, <1>10, <1>12, <1>13, <2>1, <2>2, Changed
<1>15. outBar' = outBar
  <2>1. Got(t)' = NoValue /\ Got(t) = NoValue
    BY <1>5 DEF Got, NoValue, Pushing, Popping
  <2>2. own[t] \in Held(t)
    BY <1>0, <1>5, HeldTypes
  <2>3. \A u \in Thread \ {t} : Got(u)' = Got(u)
    BY <1>0, <1>1, <1>3, <1>5, <2>2, OthersGot
  <2> QED BY <2>1, <2>3, OutMoves
<1>16. Fifo!Publish(t)
  <2>1. j \in 1 .. Len(itemsBar)
    BY <1>9
  <2> QED BY <1>12, <1>14, <1>15, <2>1 DEF Fifo!Publish, Fifo!Writing, Fifo!Full
<1> QED BY <1>16, StepOfFifo

\* The element of the oldest place starts being read: the place leaves the FIFO.
LEMMA HeadLeaves ==
    ASSUME TwoGenerations, RingInv, RingInv', SafeInv',
           NEW h \in Nat, NEW q \in Nat, NEW e \in [Slot -> Nat], Ring(h, q, e), Ring(h, q, e)',
           NEW i \in Slot, i = Elem(h), e[i] = h, d_states[i].st \in {"WRITING", "FULL"},
           d_states'[i].st = "READING", \A j \in Slot \ {i} : d_states'[j] = d_states[j],
           d_elements' = d_elements, \A u \in Thread : own[u] # None => own'[u] = own[u]
    PROVE  /\ 1 \in 1 .. Len(itemsBar) /\ itemsBar # <<>>
           /\ Head(itemsBar) = Item(h) /\ itemsBar[1] = Item(h)
           /\ itemsBar' = Tail(itemsBar)
           /\ itemsBar' = SubSeq(itemsBar, 1 + 1, Len(itemsBar))
<1>1. First(h, e) = h /\ First(h, e)' = h + 1
  BY Rigid DEF First
<1>2. Past(q, e)' = Past(q, e)
  <2>1. PICK j \in Slot : j = Elem(q)
    BY ElemType
  <2>2. Past(q, e)' = IF e[j] > q \/ (e[j] = q /\ d_states'[j].st # "EMPTY") THEN q + 1 ELSE q
    BY <2>1, Rigid DEF Past, Acquired
  <2>3. Past(q, e) = IF e[j] > q \/ (e[j] = q /\ d_states[j].st # "EMPTY") THEN q + 1 ELSE q
    BY <2>1 DEF Past, Acquired
  <2> QED BY <2>2, <2>3
<1>3. PICK n \in Nat : n >= 1 /\ Past(q, e) = h + n
  <2>1. i \in Items
    BY DEF Items
  <2>2. Past(q, e) \in Nat /\ e[i] < Past(q, e)
    BY <2>1, Contents
  <2> QED BY <2>2
<1>4. /\ itemsBar \in Seq(ItemValues) /\ Len(itemsBar) = n
      /\ \A k \in 1 .. n : itemsBar[k] = Item(h + k - 1)
  BY <1>1, <1>3, BarNow
<1>5. PICK b \in Nat, m \in Nat : b = h + 1 /\ m = n - 1
  BY <1>3
<1>6. b = First(h, e)' /\ Past(q, e)' = b + m
  BY <1>1, <1>2, <1>3, <1>5
<1>7. /\ itemsBar' \in Seq(ItemValues) /\ Len(itemsBar') = m
      /\ \A k \in 1 .. m : itemsBar'[k] = Item(b + k - 1)'
  <2>1. BarFact'
    BY BarIs, PTL
  <2>2. TwoGenerations'
    BY Rigid
  <2>3. Bar(b, m)'
    BY <1>6, <2>1, <2>2 DEF BarFact
  <2> QED BY <2>3 DEF Bar
<1>8. ASSUME NEW k \in 1 .. Len(itemsBar') PROVE itemsBar'[k] = itemsBar[k + 1]
  <2>1. k \in 1 .. m /\ k + 1 \in 1 .. n
    BY <1>5, <1>7
  <2>2. PICK p \in Nat : p = b + k - 1 /\ p = h + (k + 1) - 1 /\ h <= p /\ p < h + n /\ p # h
    <3>1. k \in Nat /\ k >= 1 /\ k < n
      BY <1>5, <2>1
    <3>2. h + k \in Nat /\ h + k = b + k - 1 /\ h + k = h + (k + 1) - 1
      BY <1>5, <3>1
    <3>3. h <= h + k /\ h + k < h + n /\ h + k # h
      BY <3>1
    <3> QED BY <3>2, <3>3
  <2>3. Elem(p) \in Slot /\ e[Elem(p)] = p
    <3>1. First(h, e) <= p /\ p < Past(q, e)
      BY <1>1, <1>3, <2>2
    <3> QED BY <3>1, Contents
  <2>4. Elem(p) # i
    BY <2>2, <2>3
  <2>5. Item(p)' = Item(p)
    BY <2>3, <2>4, ItemSame
  <2>6. itemsBar'[k] = Item(p)' /\ itemsBar[k + 1] = Item(p)
    BY <1>4, <1>7, <2>1, <2>2
  <2> QED BY <2>5, <2>6
<1>9. 1 \in 1 .. n /\ h + 1 - 1 = h /\ m = n - 1
  BY <1>3, <1>5
<1>10. 1 \in 1 .. Len(itemsBar) /\ Len(itemsBar') = Len(itemsBar) - 1
  BY <1>4, <1>7, <1>9
<1>11. itemsBar[1] = Item(h)
  BY <1>4, <1>9
<1>12. itemsBar # <<>>
  BY <1>4, <1>10, EmptySeq
<1>13. Head(itemsBar) = itemsBar[1]
  BY <1>4, <1>12, HeadTailProperties
<1>14. itemsBar' = SubSeq(itemsBar, 1 + 1, Len(itemsBar)) /\ itemsBar' = Tail(itemsBar)
  BY <1>4, <1>7, <1>8, <1>10, Slid
<1> QED BY <1>10, <1>11, <1>12, <1>13, <1>14

\* A pop, or removeAll, acquires the oldest element: the FIFO gives its value away, or
\* discards it.
LEMMA PopAcquireFifo ==
    ASSUME TwoGenerations, FifoInv, SafeInv', Timely', NEW t \in Thread,
           NEW h \in Nat, NEW q \in Nat, NEW e \in [Slot -> Nat], Ring(h, q, e),
           ManagerCall(t), ReservePopAcquire(t)
    PROVE  FifoStep
<1>0. /\ RingInv /\ SafeInv /\ Types /\ CallRight(t)
      /\ own \in [Thread -> Combined \cup {None}]
      /\ d_states \in [Slot -> [gen : Gen, st : State]]
  BY RightOf DEF FifoInv, Types, ManagerTypeOK
<1>1. SameOthers(t) /\ UNCHANGED <<callVars, d_elements>>
  BY <1>0, ManagerOthers
<1>2. RingInv' /\ Ring(h, q, e)'
  BY <1>0, <1>1, PopAcquireRing
<1>3. /\ pc[t] = "pop_swap" /\ own' = [own EXCEPT ![t] = loaded[t]] /\ Holds(loaded[t], "FULL")
      /\ SetState(loaded[t], generation(loaded[t]), "READING")
  BY DEF ReservePopAcquire, Goto
<1>4. PICK i \in Slot : /\ i = Elem(h) /\ i = index(loaded[t]) /\ e[i] = h
                        /\ loaded[t] = Word(h) /\ d_states[i].st = "FULL"
  BY <1>0, <1>3, FullIsOldest
<1>5. /\ own[t] = None /\ own'[t] = Word(h) /\ own'[t] # None /\ index(own'[t]) = i
      /\ op[t] \in Popping \cup {"removeAll"}
  <2>1. own[t] = None /\ op[t] \in Popping \cup {"removeAll"}
    BY <1>0, <1>3 DEF CallRight, Clears, Aborts, PopCalls
  <2>2. own'[t] = Word(h)
    BY <1>0, <1>3, <1>4
  <2> QED BY <1>4, <2>1, <2>2, WordType, IndexTypes DEF Elem
<1>6. d_states'[i].st = "READING" /\ \A j \in Slot \ {i} : d_states'[j] = d_states[j]
  <2>1. d_states' = [d_states EXCEPT ![i] = [gen |-> generation(loaded[t]), st |-> "READING"]]
    BY <1>3, <1>4 DEF SetState
  <2> QED BY <1>0, <2>1
<1>7. \A u \in Thread : own[u] # None => own'[u] = own[u]
  BY <1>1, <1>5 DEF SameOthers
<1>8. /\ 1 \in 1 .. Len(itemsBar) /\ itemsBar # <<>>
      /\ Head(itemsBar) = Item(h) /\ itemsBar[1] = Item(h)
      /\ itemsBar' = Tail(itemsBar)
      /\ itemsBar' = SubSeq(itemsBar, 1 + 1, Len(itemsBar))
  BY <1>0, <1>1, <1>2, <1>4, <1>6, <1>7, HeadLeaves
<1>9. Item(h) = [by |-> None, val |-> d_elements[i]] /\ d_elements[i] # NoValue
  BY <1>0, <1>4 DEF Item, SafeInv, ElementLifetime
<1>10. \A u \in Thread \ {t} : Got(u)' = Got(u)
  BY <1>1, StillGot
<1>11. CASE op[t] \in Popping
  <2>1. Got(t) = NoValue
    BY <1>3, <1>5, <1>11 DEF Got, FifoInv, Unpopped
  <2>2. Got(t)' = d_elements[i]
    BY <1>1, <1>5, <1>11 DEF Got, None, NoValue, index, callVars
  <2>3. outBar[t] = NoValue /\ outBar' = [outBar EXCEPT ![t] = Head(itemsBar).val]
    BY <1>8, <1>9, <1>10, <2>1, <2>2, OutMoves
  <2>4. Fifo!Take(t)
    BY <1>8, <1>9, <2>3 DEF Fifo!Take, Fifo!HeadIsFull
  <2> QED BY <2>4, StepOfFifo
<1>12. CASE op[t] = "removeAll"
  <2>1. Got(t)' = NoValue /\ Got(t) = NoValue
    BY <1>1, <1>12 DEF Got, NoValue, callVars, Popping
  <2>2. outBar' = outBar
    BY <1>10, <2>1, OutMoves
  <2>3. Fifo!Discard
    BY <1>8, <1>9, <2>2 DEF Fifo!Discard
  <2> QED BY <2>3, StepOfFifo
<1> QED BY <1>5, <1>11, <1>12

\* The push whose constructor threw does the same with what is ahead of it.
LEMMA ClearAcquireFifo ==
    ASSUME TwoGenerations, FifoInv, SafeInv', Timely', NEW t \in Thread,
           NEW h \in Nat, NEW q \in Nat, NEW e \in [Slot -> Nat], Ring(h, q, e),
           ManagerCall(t), ReserveClearSwap(t), Holds(loaded[t], "FULL")
    PROVE  FifoStep
<1>0. /\ RingInv /\ SafeInv /\ Types /\ CallRight(t)
      /\ own \in [Thread -> Combined \cup {None}]
      /\ d_states \in [Slot -> [gen : Gen, st : State]]
  BY RightOf DEF FifoInv, Types, ManagerTypeOK
<1>1. SameOthers(t) /\ UNCHANGED <<callVars, d_elements>>
  BY <1>0, ManagerOthers
<1>2. RingInv' /\ Ring(h, q, e)'
  BY <1>0, <1>1, ClearAcquireRing
<1>a. was(loaded[t]).st = "FULL"
  BY DEF Holds, was
<1>3. /\ pc[t] = "clear_swap" /\ own' = own
      /\ SetState(loaded[t], generation(loaded[t]), "READING")
  BY <1>a DEF ReserveClearSwap, Goto
<1>4. PICK i \in Slot : /\ i = Elem(h) /\ i = index(loaded[t]) /\ e[i] = h
                        /\ loaded[t] = Word(h) /\ d_states[i].st = "FULL"
  BY <1>0, <1>3, FullIsOldest
<1>6. d_states'[i].st = "READING" /\ \A j \in Slot \ {i} : d_states'[j] = d_states[j]
  <2>1. d_states' = [d_states EXCEPT ![i] = [gen |-> generation(loaded[t]), st |-> "READING"]]
    BY <1>3, <1>4 DEF SetState
  <2> QED BY <1>0, <2>1
<1>8. /\ 1 \in 1 .. Len(itemsBar) /\ itemsBar[1] = Item(h)
      /\ itemsBar' = SubSeq(itemsBar, 1 + 1, Len(itemsBar))
  BY <1>0, <1>1, <1>2, <1>3, <1>4, <1>6, HeadLeaves
<1>9. Item(h) = [by |-> None, val |-> d_elements[i]]
  BY <1>4 DEF Item
<1>10. outBar' = outBar
  <2>1. op[t] \notin Popping /\ op'[t] = op[t]
    BY <1>0, <1>1, <1>3 DEF CallRight, Clears, callVars, Pushing, Popping
  <2>2. Got(t)' = NoValue /\ Got(t) = NoValue
    BY <2>1 DEF Got, NoValue
  <2> QED BY <1>1, <2>2, StillGot, OutMoves
<1>11. Fifo!Discard
  <2>1. \A k \in 1 .. 1 : itemsBar[k].by = None
    BY <1>8, <1>9
  <2> QED BY <1>8, <1>10, <2>1 DEF Fifo!Discard
<1> QED BY <1>11, StepOfFifo

\* Then it gives its own place up.
LEMMA AbortFifo ==
    ASSUME TwoGenerations, FifoInv, SafeInv', Timely', NEW t \in Thread,
           NEW h \in Nat, NEW q \in Nat, NEW e \in [Slot -> Nat], Ring(h, q, e),
           ManagerCall(t), AbortReading(t)
    PROVE  FifoStep
<1>0. /\ RingInv /\ SafeInv /\ Types /\ CallRight(t)
      /\ d_states \in [Slot -> [gen : Gen, st : State]]
  BY RightOf DEF FifoInv, Types, ManagerTypeOK
<1>1. SameOthers(t) /\ UNCHANGED <<callVars, d_elements>>
  BY <1>0, ManagerOthers
<1>2. /\ RingInv' /\ Ring(h, q, e)' /\ own[t] = Word(h)
  BY <1>0, <1>1, AbortReadingRing
<1>3. PICK i \in Slot : /\ i = Elem(h) /\ i = index(own[t]) /\ e[i] = h
                        /\ d_states[i].st = "WRITING"
  BY <1>0, <1>1, AbortReadingRing
<1>4. /\ pc[t] = "abort_reading" /\ own' = own
      /\ SetState(own[t], generation(own[t]), "READING")
  BY DEF AbortReading, Goto
<1>5. d_states'[i].st = "READING" /\ \A j \in Slot \ {i} : d_states'[j] = d_states[j]
  <2>1. d_states' = [d_states EXCEPT ![i] = [gen |-> generation(own[t]), st |-> "READING"]]
    BY <1>3, <1>4 DEF SetState
  <2> QED BY <1>0, <2>1
<1>6. itemsBar # <<>> /\ Head(itemsBar) = Item(h) /\ itemsBar' = Tail(itemsBar)
  BY <1>0, <1>1, <1>2, <1>3, <1>4, <1>5, HeadLeaves
<1>7. Item(h) = [by |-> t, val |-> NoValue]
  BY <1>0, <1>2, <1>3, ItemWriting DEF WritingFact
<1>8. outBar' = outBar
  <2>1. op[t] \notin Popping /\ op'[t] = op[t]
    BY <1>0, <1>1, <1>4 DEF CallRight, Aborts, callVars, Pushing, Popping
  <2>2. Got(t)' = NoValue /\ Got(t) = NoValue
    BY <2>1 DEF Got, NoValue
  <2> QED BY <1>1, <2>2, StillGot, OutMoves
<1>9. Fifo!Abort(t)
  BY <1>6, <1>7, <1>8 DEF Fifo!Abort, Fifo!Writing
<1> QED BY <1>9, StepOfFifo

LEMMA InitFifo == ASSUME Init PROVE Fifo!Init /\ Unpopped
<1>1. /\ d_states = [i \in Slot |->
                       [gen |-> IF i < index(StartIndex)
                                THEN nextGeneration(generation(StartIndex))
                                ELSE generation(StartIndex),
                        st  |-> "EMPTY"]]
      /\ op = [t \in Thread |-> "none"]
  BY DEF Init, InitRing
<1>2. Items = {}
  BY <1>1 DEF Items
<1>3. Cardinality(Items) = 0
  BY <1>2, FS_EmptySet
<1>4. itemsBar = <<>>
  <2>1. 1 .. Cardinality(Items) = {}
    BY <1>3
  <2> QED BY <2>1 DEF itemsBar
<1>5. \A t \in Thread : op[t] \notin Popping
  BY <1>1 DEF Popping
<1>6. outBar = [t \in Thread |-> NoValue]
  BY <1>5 DEF outBar
<1> QED BY <1>4, <1>5, <1>6 DEF Fifo!Init, Unpopped

LEMMA NextFifo ==
    ASSUME TwoGenerations, FifoInv, Timely', [Next]_vars
    PROVE  FifoInv' /\ FifoStep
<1>1. CASE UNCHANGED vars
  <2>1. FifoInv'
    BY <1>1, StutterRing DEF FifoInv, Unpopped, NoValue, vars, managerVars, threadVars, callVars
  <2>2. /\ d_popIndex' = d_popIndex /\ d_states' = d_states /\ d_elements' = d_elements
        /\ own' = own /\ op' = op /\ value' = value
    BY <1>1 DEF vars, managerVars, sharedVars, threadVars, queueVars, callVars
  <2>3. itemsBar' = itemsBar
    <3>1. HeadIndex' = HeadIndex /\ Items' = Items
      BY <2>2 DEF HeadIndex, Holds, nextCombinedIndex, Items, index, generation,
         d_maxCombinedIndex
    <3> QED BY <2>2, <3>1 DEF itemsBar, index, NoValue, None, d_maxCombinedIndex
  <2>4. outBar' = outBar
    BY <2>2 DEF outBar, index, NoValue, None
  <2> QED BY <2>1, <2>3, <2>4 DEF FifoStep
<1>2. CASE Next
  <2>1. SafeInv' /\ RingInv'
    BY NextKeeps, NextRing DEF FifoInv, RingInv
  <2>2. PICK t \in Thread : ThreadStep(t) \/ ClientCall(t)
    BY <1>2 DEF Next
  <2>3. FifoInv'
    BY <2>1, <2>2, UnpoppedKept DEF FifoInv
  <2>4. PICK h \in Nat, q \in Nat : \E e \in [Slot -> Nat] : Ring(h, q, e)
    BY DEF FifoInv, RingInv
  <2>5. PICK e \in [Slot -> Nat] : Ring(h, q, e)
    BY <2>4
  <2>6. CASE OtherStep(t) \/ (ManagerCall(t) /\ ReadsOrMoves(t))
    BY <2>1, <2>3, <2>5, <2>6, OnwardFifo
  <2>7. CASE ConstructAndCommit(t)
    BY <2>1, <2>3, <2>5, <2>7, ConstructFifo
  <2>8. ASSUME NEW c, Empties(t, c) PROVE FifoStep
    BY <2>1, <2>5, <2>8, EmptiesFifo
  <2>9. CASE ManagerCall(t) /\ ~ReadsOrMoves(t)
    <3>1. CASE ReservePushAcquire(t)
      BY <2>1, <2>3, <2>5, <2>9, <3>1, PushAcquireFifo
    <3>2. CASE ReservePopAcquire(t)
      BY <2>1, <2>3, <2>5, <2>9, <3>2, PopAcquireFifo
    <3>3. CASE ReserveClearSwap(t) /\ Holds(loaded[t], "FULL")
      BY <2>1, <2>3, <2>5, <2>9, <3>3, ClearAcquireFifo
    <3>4. CASE AbortReading(t)
      BY <2>1, <2>3, <2>5, <2>9, <3>4, AbortFifo
    <3>5. CASE AbortEmpty(t) /\ UNCHANGED <<callVars, queueVars>>
      BY <2>3, <2>8, <3>5 DEF Empties
    <3> QED BY <2>9, <3>1, <3>2, <3>3, <3>4, <3>5, ManagerCases
  <2>10. CASE TakeAndCommit(t) \/ RemoveElement(t) \/ ClearElement(t)
    BY <2>3, <2>8, <2>10 DEF Empties
  <2> QED BY <2>2, <2>3, <2>6, <2>7, <2>9, <2>10, StepCases
<1> QED BY <1>1, <1>2

\* The queue is a bounded FIFO, in spite of all that its threads may do at once without
\* a lock: values leave in the order of their reservations, each once and only after it
\* was constructed, and the places of pushes that throw and of what removeAll pops are
\* given up in that order, too.
THEOREM RingIsFifo == Spec /\ []Timely => ImplementsFifo
<1>1. Init => FifoInv /\ Fifo!Init
  BY StartsRing, InitFifo DEF FifoInv
<1>2. FifoInv /\ Timely' /\ [Next]_vars => FifoInv' /\ [Fifo!Next]_<<itemsBar, outBar>>
  BY GenerationsAreTwo, NextFifo DEF FifoStep
<1> QED BY <1>1, <1>2, PTL DEF Spec, ImplementsFifo, Fifo!Spec

-----------------------------------------------------------------------------
(* At rest: who is owed what.  A thread that may sleep on a semaphore does so *)
(* only while what it waits for is not there, or while a token is in the      *)
(* semaphore or about to be posted.                                           *)

\* Nor does a thread sleep that long between its last look at an index and what
\* it concludes: that the queue is full, or empty, or has a certain length.
TimelyLooks ==
    \A t \in Thread :
        /\ pc[t] = "push_swap" => Behind(loaded[t], d_pushIndex.index) + 2 * Capacity < Turn
        /\ pc[t] = "pop_swap"  => Behind(loaded[t], d_popIndex) + 2 * Capacity < Turn
        /\ pc[t] = "length_pop" =>
              Behind(loaded[t], d_pushIndex.index) < d_maxCombinedIndex \div 2

Free == {i \in Slot : d_states[i].st = "EMPTY"}
Full == {i \in Slot : d_states[i].st = "FULL"}
After(p, e) == {i \in Full : e[i] >= p}

\* The threads that are sure to try, or to try again, before they sleep, and
\* those that sleep, or are to sleep if the queue is enabled.
Pushers == {t \in Thread : \/ pc[t] \in {"push_load", "push_swap", "push_help"}
                           \/ pc[t] = "leave_wait" /\ op[t] = "pushBack"}
Poppers == {t \in Thread : \/ pc[t] \in {"pop_load", "pop_swap", "pop_help"}
                           \/ pc[t] = "leave_wait" /\ op[t] = "popFront"}
Sleepers(o) == {t \in Thread : pc[t] = "wait" /\ op[t] = o}
Dozers == {t \in Thread : pc[t] \in {"check_enabled", "wait"} /\ op[t] = "pushBack"}
Lookers == {t \in Thread : pc[t] = "length_pop" /\ op[t] = "popFront"}

\* What thread t is about to post for pushers, unless it finds none.
Owes(t) ==
    IF pc[t] \in {"check_pushers", "post_pusher"} THEN 1
    ELSE IF \/ pc[t] \in {"count_pushers", "post_pushers"}
            \/ pc[t] \in PopCalls \cup {"ret"} /\ op[t] = "removeAll"
            \/ pc[t] = "ret" /\ result[t] = "end"
         THEN count[t]
    ELSE IF pc[t] \in Clears \cup Aborts THEN count[t] - 1
    ELSE 0

\* The sum of the values of a function of threads.
SumOf(f) == Cardinality(UNION {{t} \X (1 .. f[t]) : t \in Thread})

PushTokens == d_pushControlSema + SumOf([t \in Thread |-> Owes(t)])
PopTokens ==
    d_popControlSema + Cardinality({t \in Thread : pc[t] \in {"check_poppers", "post_popper"}})

CountRight == \A t \in Thread : pc[t] \in Clears \cup Aborts => count[t] >= 1

\* A disable that has not counted the sleepers wakes them all.  Else there is a
\* token for each pusher that sleeps or may sleep; or for each element that is free
\* and that nobody tries to take (and, in a disabled queue, for each sleeper).
PushAwake ==
    \/ \E t \in Thread : pc[t] = "disabled"
    \/ Cardinality(Dozers) <= PushTokens
    \/ IF d_pushIndex.disabled
       THEN Cardinality(Free) + Cardinality(Sleepers("pushBack")) <= PushTokens
       ELSE Cardinality(Free) <= PushTokens + Cardinality(Pushers)

\* Thread t has loaded the word of position p.
Near(t, p, q) ==
    loaded[t] = Word(p) /\ p <= q /\ q - p < d_maxCombinedIndex \div 2

\* There is a token for each value that nobody tries to pop; or for each popper that
\* sleeps, and for the values that one cannot see that takes its last look.
PopAwake(q, e) ==
    \/ Cardinality(Full) <= PopTokens + Cardinality(Poppers)
    \/ /\ Cardinality(Sleepers("popFront")) <= PopTokens
       /\ \A t \in Lookers : \E p \in Nat :
             /\ Near(t, p, q)
             /\ Cardinality(After(p, e)) + Cardinality(Sleepers("popFront")) <= PopTokens

\* A position is passed before its value is there, as long as the queue is enabled.
Advancing(q, e) ==
    /\ ~d_pushIndex.disabled
    /\ Acquired(q, e) => \E t \in Thread : pc[t] = "push_advance" /\ own[t] = Word(q)

LooksRight(q) ==
    \A t \in Thread :
        /\ pc[t] = "length_pop" => \E p \in Nat : Near(t, p, q)
        /\ pc[t] = "check_enabled" => op[t] = "pushBack"

RestRing(h, q, e) ==
    /\ Ring(h, q, e) /\ LooksRight(q)
    /\ NeverDisabled => Advancing(q, e) /\ PopAwake(q, e)

RestInv ==
    /\ RingInv /\ CountRight /\ PushAwake
    /\ \E h, q \in Nat : \E e \in [Slot -> Nat] : RestRing(h, q, e)

-----------------------------------------------------------------------------
(* Counting *)

\* What one thread adds to a sum.
LEMMA RowSize ==
    ASSUME NEW x, NEW n \in Nat
    PROVE  IsFiniteSet({x} \X (1 .. n)) /\ Cardinality({x} \X (1 .. n)) = n
<1>1. IsFiniteSet(1 .. n) /\ Cardinality(1 .. n) = n
  <2>1. 1 \in Int /\ n \in Int
    OBVIOUS
  <2>2. IsFiniteSet(1 .. n) /\ Cardinality(1 .. n) = IF 1 > n THEN 0 ELSE n - 1 + 1
    BY <2>1, FS_Interval
  <2> QED BY <2>2
<1>2. IsFiniteSet({x}) /\ Cardinality({x}) = 1
  BY FS_Singleton
<1>3. /\ IsFiniteSet({x} \X (1 .. n))
      /\ Cardinality({x} \X (1 .. n)) = Cardinality({x}) * Cardinality(1 .. n)
  BY <1>1, <1>2, FS_Product
<1>4. 1 * n = n
  OBVIOUS
<1> QED BY <1>1, <1>2, <1>3, <1>4

\* What thread t adds to a sum, and what the others do.
LEMMA SumSplit ==
    ASSUME NEW f \in [Thread -> Nat], NEW t \in Thread,
           NEW R, R = UNION {{u} \X (1 .. f[u]) : u \in Thread \ {t}}
    PROVE  /\ IsFiniteSet(R) /\ Cardinality(R) \in Nat
           /\ SumOf(f) = Cardinality(R) + f[t]
<1> DEFINE g == [u \in Thread \ {t} |-> {u} \X (1 .. f[u])]
           T == {{u} \X (1 .. f[u]) : u \in Thread \ {t}}
           row == {t} \X (1 .. f[t])
<1>1. IsFiniteSet(Thread \ {t})
  BY Constants, FS_Subset
<1>2. g \in Surjection(Thread \ {t}, T)
  BY DEF Surjection
<1>3. IsFiniteSet(T)
  BY <1>1, <1>2, FS_Surjection
<1>4. ASSUME NEW u \in Thread PROVE IsFiniteSet({u} \X (1 .. f[u]))
  BY RowSize
<1>5. IsFiniteSet(R) /\ Cardinality(R) \in Nat
  BY <1>3, <1>4, FS_UNION, FS_CardinalityType
<1>6. IsFiniteSet(row) /\ Cardinality(row) = f[t] /\ f[t] \in Nat
  BY RowSize
<1>7. R \cap row = {}
  OBVIOUS
<1>8. UNION {{u} \X (1 .. f[u]) : u \in Thread} = R \cup row
  OBVIOUS
<1>9. Cardinality(R \cup row) = Cardinality(R) + Cardinality(row) - Cardinality({})
  BY <1>5, <1>6, <1>7, FS_Union
<1>10. Cardinality({}) = 0
  BY FS_EmptySet
<1> HIDE DEF row
<1> QED BY <1>5, <1>6, <1>8, <1>9, <1>10 DEF SumOf

\* A sum, when the value of one thread changes.
LEMMA SumChange ==
    ASSUME NEW f \in [Thread -> Nat], NEW g \in [Thread -> Nat], NEW t \in Thread,
           \A u \in Thread \ {t} : g[u] = f[u]
    PROVE  /\ SumOf(f) \in Nat /\ SumOf(g) \in Nat /\ f[t] <= SumOf(f)
           /\ SumOf(g) = SumOf(f) - f[t] + g[t]
<1> DEFINE R == UNION {{u} \X (1 .. f[u]) : u \in Thread \ {t}}
<1>1. R = UNION {{u} \X (1 .. g[u]) : u \in Thread \ {t}}
  OBVIOUS
<1> HIDE DEF R
<1>2. Cardinality(R) \in Nat /\ SumOf(f) = Cardinality(R) + f[t]
  BY SumSplit DEF R
<1>3. SumOf(g) = Cardinality(R) + g[t]
  BY <1>1, SumSplit
<1>4. f[t] \in Nat /\ g[t] \in Nat
  OBVIOUS
<1> QED BY <1>2, <1>3, <1>4

LEMMA SumZero ==
    ASSUME NEW f \in [Thread -> Nat]
    PROVE  SumOf(f) = 0 <=> \A t \in Thread : f[t] = 0
<1>1. ASSUME SumOf(f) = 0, NEW t \in Thread PROVE f[t] = 0
  BY <1>1, SumChange
<1>2. ASSUME \A t \in Thread : f[t] = 0 PROVE SumOf(f) = 0
  <2>1. \A t \in Thread : {t} \X (1 .. f[t]) = {}
    BY <1>2
  <2>2. UNION {{t} \X (1 .. f[t]) : t \in Thread} = {}
    BY <2>1
  <2> QED BY <2>2, FS_EmptySet DEF SumOf
<1> QED BY <1>1, <1>2

\* How many more there are in a set that differs in x at most.
LEMMA SetChange ==
    ASSUME NEW S, IsFiniteSet(S), NEW A \in SUBSET S, NEW B \in SUBSET S, NEW x,
           A \ {x} = B \ {x}
    PROVE  /\ Cardinality(A) \in Nat /\ Cardinality(B) \in Nat
           /\ x \in A => Cardinality(A) >= 1
           /\ (x \in A <=> x \in B) => Cardinality(B) = Cardinality(A)
           /\ x \in B /\ x \notin A => Cardinality(B) = Cardinality(A) + 1
           /\ x \in A /\ x \notin B => Cardinality(B) = Cardinality(A) - 1
<1>1. /\ IsFiniteSet(A) /\ IsFiniteSet(B)
      /\ Cardinality(A) \in Nat /\ Cardinality(B) \in Nat
  BY FS_Subset, FS_CardinalityType
<1>2. /\ Cardinality(A \ {x}) = IF x \in A THEN Cardinality(A) - 1 ELSE Cardinality(A)
      /\ Cardinality(B \ {x}) = IF x \in B THEN Cardinality(B) - 1 ELSE Cardinality(B)
      /\ Cardinality(A \ {x}) \in Nat /\ Cardinality(A \ {x}) = Cardinality(B \ {x})
  BY <1>1, FS_RemoveElement, FS_CardinalityType
<1>3. CASE x \in A
  BY <1>1, <1>2, <1>3
<1>4. CASE x \notin A
  BY <1>1, <1>2, <1>4
<1> QED BY <1>1, <1>3, <1>4

LEMMA SetLess ==
    ASSUME NEW S, IsFiniteSet(S), NEW A \in SUBSET S, NEW B \in SUBSET S, A \subseteq B
    PROVE  /\ Cardinality(A) \in Nat /\ Cardinality(B) \in Nat
           /\ Cardinality(A) <= Cardinality(B)
<1>1. IsFiniteSet(A) /\ IsFiniteSet(B)
  BY FS_Subset
<1> QED BY <1>1, FS_Subset, FS_CardinalityType

LEMMA SetNone ==
    ASSUME NEW S, IsFiniteSet(S), NEW A \in SUBSET S
    PROVE  /\ Cardinality(A) \in Nat
           /\ Cardinality(A) = 0 <=> A = {}
<1>1. IsFiniteSet(A)
  BY FS_Subset
<1> QED BY <1>1, FS_EmptySet, FS_CardinalityType

LEMMA SlotsFinite == IsFiniteSet(Slot)
<1>1. 0 \in Int /\ Capacity - 1 \in Int
  BY Constants
<1> QED BY <1>1, FS_Interval DEF Slot

-----------------------------------------------------------------------------
(* What the indices tell *)

\* No more has been pushed than fits.
LEMMA Fits ==
    ASSUME RingInv, NEW h \in Nat, NEW q \in Nat, NEW e \in [Slot -> Nat], Ring(h, q, e)
    PROVE  q <= h + Capacity
<1>1. PICK i \in Slot, a \in Nat : i = Elem(h) /\ a = e[i] /\ Elem(a) = Elem(h)
  BY PlaceOf
<1>2. (a < h => a + Capacity <= h) /\ (h < a => h + Capacity <= a)
  BY <1>1, SamePlace
<1>3. SlotRight(i, h, q, a) /\ d_states[i].st \in State
  BY <1>1, RightOf DEF Ring, RingInv, SafeInv, Types, ManagerTypeOK
<1>4. \/ h <= a /\ a <= q /\ q <= a + Capacity /\ a < h + Capacity
      \/ a <= h /\ q <= a + Capacity
      \/ q <= a /\ h <= a /\ a < h + Capacity
  BY <1>3 DEF SlotRight, State
<1> QED BY <1>2, <1>4, Constants

\* A queue with as many places pushed as it has elements has none free.
LEMMA NoRoom ==
    ASSUME NEW h \in Nat, NEW q \in Nat, NEW e \in [Slot -> Nat], Ring(h, q, e),
           h + Capacity <= q
    PROVE  Free = {}
<1> SUFFICES ASSUME NEW i \in Slot, d_states[i].st = "EMPTY" PROVE FALSE
  BY DEF Free
<1>1. PICK a \in Nat : a = e[i]
  OBVIOUS
<1>2. q <= a /\ a < h + Capacity
  BY <1>1 DEF Ring, SlotRight
<1> QED BY <1>1, <1>2, Constants

\* Nobody has acquired the position after the next one.
LEMMA NotBeyond ==
    ASSUME RingInv, NEW h \in Nat, NEW q \in Nat, NEW e \in [Slot -> Nat], Ring(h, q, e)
    PROVE  ~Acquired(q + 1, e)
<1>0. PICK r \in Nat : r = q + 1
  OBVIOUS
<1>1. PICK i \in Slot, a \in Nat : i = Elem(r) /\ a = e[i] /\ Elem(a) = Elem(r)
  BY PlaceOf
<1>2. (r < a => r + Capacity <= a)
  BY <1>1, SamePlace
<1>3. SlotRight(i, h, q, a) /\ d_states[i].st \in State /\ h <= r
  BY <1>0,  <1>1, RightOf DEF Ring, RingInv, SafeInv, Types, ManagerTypeOK
<1>4. d_states[i].st # "EMPTY" => a <= q
  BY <1>3 DEF SlotRight, State
<1>5. d_states[i].st = "EMPTY" => a < h + Capacity
  BY <1>3 DEF SlotRight
<1>6. ~(r < a) /\ (a = r => d_states[i].st = "EMPTY")
  BY <1>0, <1>2, <1>3, <1>4, <1>5, Constants
<1> QED BY <1>0, <1>1, <1>6 DEF Acquired

\* What length() makes of the words of two positions.
LEMMA LengthIs ==
    ASSUME TwoGenerations, NEW p \in Nat, NEW h \in Nat
    PROVE  /\ h <= p /\ p <= h + Capacity => lengthOf(Word(p), Word(h)) = p - h
           /\ p <= h /\ h - p <= d_maxCombinedIndex \div 2 => lengthOf(Word(p), Word(h)) = 0
<1>1. PICK n \in Nat, m \in Nat, k \in Nat :
         /\ n = Turn /\ m = Capacity /\ m >= 1 /\ d_maxCombinedIndex = n - 1
         /\ k = d_maxCombinedIndex \div 2 /\ 2 * k <= n - 1 /\ 2 * m <= n
  <2>1. d_maxCombinedIndex \in Nat /\ Turn \in Nat /\ Turn = d_maxCombinedIndex + 1
    BY Words, Turns DEF Turn
  <2>2. /\ d_maxCombinedIndex \div 2 \in Nat
        /\ d_maxCombinedIndex = 2 * (d_maxCombinedIndex \div 2) + (d_maxCombinedIndex % 2)
        /\ d_maxCombinedIndex % 2 \in Nat
    BY <2>1, Division
  <2>3. Capacity * 2 <= Capacity * numRepresentableGenerations
    BY Generations, Constants, ProductGrows DEF TwoGenerations
  <2> QED BY <2>1, <2>2, <2>3, Turns, Constants
<1>2. PICK v \in Nat, w \in Nat : v = Word(p) /\ w = Word(h) /\ v < n /\ w < n
  BY <1>1, WordType
<1>3. ASSUME h <= p, p <= h + Capacity PROVE lengthOf(v, w) = p - h
  <2>1. p < h + Turn /\ p - h <= m
    BY <1>1, <1>3
  <2>2. IF w <= v THEN v - w = p - h ELSE (v - w) + n = p - h
    BY <1>1, <1>2, <1>3, <2>1, Circle DEF Behind
  <2>3. PICK d \in Int : d = v - w
    OBVIOUS
  <2>4. CASE d >= 0
    <3>1. d = p - h /\ d <= m
      BY <2>1, <2>2, <2>3, <2>4
    <3> QED BY <1>1, <2>3, <2>4, <3>1 DEF lengthOf
  <2>5. CASE d < 0
    <3>1. d + n = p - h /\ d + n <= m
      BY <2>1, <2>2, <2>3, <2>5
    <3>2. d < -k
      BY <1>1, <3>1
    <3>3. d + d_maxCombinedIndex + 1 = p - h
      BY <1>1, <3>1
    <3> QED BY <1>1, <2>1, <2>3, <2>5, <3>2, <3>3 DEF lengthOf
  <2> QED BY <2>4, <2>5
<1>4. ASSUME p <= h, h - p <= d_maxCombinedIndex \div 2 PROVE lengthOf(v, w) = 0
  <2>1. h < p + Turn /\ h - p <= k
    BY <1>1, <1>4
  <2>2. IF v <= w THEN w - v = h - p ELSE (w - v) + n = h - p
    BY <1>1, <1>2, <1>4, <2>1, Circle DEF Behind
  <2>3. PICK d \in Int : d = v - w
    OBVIOUS
  <2>4. CASE d <= 0
    <3>1. -d = h - p /\ -d <= k
      BY <2>1, <2>2, <2>3, <2>4
    <3>2. d = 0 \/ (d < 0 /\ ~(d < -k))
      BY <2>4, <3>1
    <3> QED BY <1>1, <2>3, <3>2 DEF lengthOf
  <2>5. CASE d > 0
    <3>1. d = n - (h - p) /\ d > m
      BY <1>1, <2>1, <2>2, <2>3, <2>5
    <3> QED BY <1>1, <2>3, <2>5, <3>1 DEF lengthOf
  <2> QED BY <2>4, <2>5
<1> QED BY <1>2, <1>3, <1>4

\* What the next generation of an element looks like to a thread that has an index.
LEMMA SeesPrevious ==
    ASSUME TwoGenerations, NEW p \in Nat, NEW a \in Nat, Elem(a) = Elem(p),
           isPreviousGeneration(generation(Word(p)), generation(Word(a))),
           p <= a + Capacity, a + Capacity < p + Turn
    PROVE  p = a + Capacity
<1>1. /\ generation(Word(p)) \in Gen /\ generation(Word(a)) \in Gen
      /\ Word(p) \in Combined /\ Word(a + Capacity) \in Combined /\ a + Capacity \in Nat
  BY WordType, IndexTypes, Constants
<1>2. generation(Word(p)) = nextGeneration(generation(Word(a)))
  BY <1>1, Words, Generations DEF isPreviousGeneration, nextGeneration, Gen, d_maxGeneration,
     TwoGenerations
<1>3. /\ index(Word(a + Capacity)) = index(Word(p))
      /\ generation(Word(a + Capacity)) = generation(Word(p))
  BY <1>2, NextRound DEF Elem
<1>4. Word(p) = Word(a + Capacity)
  BY <1>1, <1>3, Whole
<1> QED BY <1>1, <1>4, Circle

\* A queue that has nothing pushed beyond its head has at most the head.
LEMMA EmptyAt ==
    ASSUME NEW h \in Nat, NEW q \in Nat, NEW e \in [Slot -> Nat], Ring(h, q, e),
           q <= h, d_states[Elem(h)].st # "FULL"
    PROVE  Full = {}
<1> SUFFICES ASSUME NEW i \in Slot, d_states[i].st = "FULL" PROVE FALSE
  BY DEF Full
<1>1. PICK a \in Nat : a = e[i]
  OBVIOUS
<1>2. h <= a /\ a <= q /\ Elem(a) = i
  BY <1>1 DEF Ring, SlotRight
<1>3. a = h
  BY <1>2
<1> QED BY <1>2, <1>3

\* Nor is the place of a value there.
LEMMA NoItemsAt ==
    ASSUME NEW h \in Nat, NEW q \in Nat, NEW e \in [Slot -> Nat], Ring(h, q, e),
           q <= h, d_states[Elem(h)].st \notin {"WRITING", "FULL"}
    PROVE  Items = {}
<1> SUFFICES ASSUME NEW i \in Slot, d_states[i].st \in {"WRITING", "FULL"} PROVE FALSE
  BY DEF Items
<1>1. PICK a \in Nat : a = e[i]
  OBVIOUS
<1>2. h <= a /\ a <= q /\ Elem(a) = i
  BY <1>1 DEF Ring, SlotRight
<1>3. a = h
  BY <1>2
<1> QED BY <1>2, <1>3

\* A queue that has as many places pushed as it has elements, and whose head nobody
\* pops, has a value, or the place of one, in each.
LEMMA AllItemsAt ==
    ASSUME RingInv, NEW h \in Nat, NEW q \in Nat, NEW e \in [Slot -> Nat], Ring(h, q, e),
           h + Capacity <= q, d_states[Elem(h)].st # "READING"
    PROVE  Items = Slot
<1> SUFFICES ASSUME NEW i \in Slot PROVE d_states[i].st \in {"WRITING", "FULL"}
  BY DEF Items
<1>1. PICK a \in Nat : a = e[i]
  OBVIOUS
<1>2. SlotRight(i, h, q, a) /\ d_states[i].st \in State
  BY <1>1 DEF Ring, RingInv, SafeInv, Types, ManagerTypeOK
<1>3. d_states[i].st # "EMPTY"
  BY NoRoom DEF Free
<1>4. d_states[i].st # "READING"
  <2> SUFFICES ASSUME d_states[i].st = "READING" PROVE FALSE
    OBVIOUS
  <2>1. a <= h /\ q <= a + Capacity /\ Elem(a) = i
    BY <1>2 DEF SlotRight
  <2>2. a = h
    BY <2>1, Constants
  <2> QED BY <2>1, <2>2
<1> QED BY <1>2, <1>3, <1>4 DEF State

\* A push that is told that the queue is full: no element is free, or about to be.
LEMMA FullIsFull ==
    ASSUME TwoGenerations, RingInv, TimelyLooks, NEW t \in Thread,
           NEW h \in Nat, NEW q \in Nat, NEW e \in [Slot -> Nat], Ring(h, q, e),
           pc[t] = "push_swap", PushSeesPrevious(t), was(loaded[t]).st # "READING"
    PROVE  Free = {} /\ Items = Slot
<1>1. PICK p \in Nat : p <= q /\ (q - p) + Capacity < Turn /\ loaded[t] = Word(p)
  BY DEF Ring, PushRight, PushReads
<1>2. PICK n \in Nat, m \in Nat : n = Turn /\ m = Capacity /\ m >= 1
  BY Turns, Constants
<1>3. q - p + 2 * m < n
  <2>1. Behind(Word(p), Word(q)) = q - p
    <3>1. q < p + Turn
      BY <1>1, <1>2
    <3> QED BY <1>1, <3>1, Circle
  <2>2. Behind(loaded[t], d_pushIndex.index) + 2 * Capacity < Turn /\ d_pushIndex.index = Word(q)
    BY DEF TimelyLooks, Ring
  <2> QED BY <1>1, <1>2, <2>1, <2>2
<1>4. PICK i \in Slot, a \in Nat : i = Elem(p) /\ a = e[i] /\ Elem(a) = Elem(p)
  BY PlaceOf
<1>5. /\ SlotRight(i, h, q, a) /\ d_states[i].gen = generation(Word(a))
      /\ d_states[i].st \in {"EMPTY", "WRITING", "FULL"} /\ was(loaded[t]) = d_states[i]
  <2>1. SlotRight(i, h, q, a) /\ d_states[i].gen = generation(Word(a))
    BY <1>4 DEF Ring, SlotRight
  <2>2. was(loaded[t]) = d_states[i]
    BY <1>1, <1>4 DEF was, Elem
  <2>3. d_states[i].st \in State
    BY RightOf
  <2> QED BY <2>1, <2>2, <2>3 DEF State
<1>6. isPreviousGeneration(generation(Word(p)), generation(Word(a)))
  BY <1>1, <1>5 DEF PushSeesPrevious
<1>7. /\ q <= a + m /\ (a <= q \/ a < h + m)
      /\ d_states[i].st = "EMPTY" => q <= a
      /\ d_states[i].st # "EMPTY" => h <= a
      /\ h <= q + 1
  BY <1>2, <1>5 DEF SlotRight, Ring
<1>8. p = a + Capacity
  <2>1. p <= a + Capacity /\ a + Capacity < p + Turn
    BY <1>1, <1>2, <1>3, <1>7
  <2> QED BY <1>4, <1>6, <2>1, SeesPrevious
<1>9. h + Capacity <= q
  BY <1>1, <1>2, <1>7, <1>8
<1>10. d_states[Elem(h)].st # "READING"
  <2>1. a = h
    <3>1. m \in Nat /\ m >= 1 /\ q <= h + m
      BY <1>2, Fits
    <3>2. a + m <= q
      BY <1>1, <1>2, <1>8
    <3>3. ~(q <= a)
      BY <3>1, <3>2
    <3>4. h <= a
      BY <1>7, <3>3
    <3> QED BY <3>1, <3>2, <3>4
  <2> QED BY <1>4, <1>5, <2>1
<1>11. Free = {}
  BY <1>9, NoRoom
<1>12. Items = Slot
  BY <1>9, <1>10, AllItemsAt
<1> QED BY <1>11, <1>12

\* A pop that is told that the queue is empty: no element is full, or about to be.
LEMMA EmptyIsEmpty ==
    ASSUME TwoGenerations, RingInv, TimelyLooks, NEW t \in Thread,
           NEW h \in Nat, NEW q \in Nat, NEW e \in [Slot -> Nat], Ring(h, q, e),
           pc[t] = "pop_swap", PopSeesPrevious(t) \/ Holds(loaded[t], "EMPTY")
    PROVE  Full = {} /\ Items = {}
<1>1. PICK p \in Nat : p <= h /\ (h - p) + Capacity < Turn /\ loaded[t] = Word(p)
  BY DEF Ring, PopRight, PopReads
<1>2. PICK n \in Nat, m \in Nat : n = Turn /\ m = Capacity /\ m >= 1
  BY Turns, Constants
<1>3. h - p + 2 * m < n
  <2>1. Behind(Word(p), Word(h)) = h - p
    <3>1. h < p + Turn
      BY <1>1, <1>2
    <3> QED BY <1>1, <3>1, Circle
  <2>2. Behind(loaded[t], d_popIndex) + 2 * Capacity < Turn /\ d_popIndex = Word(h)
    BY DEF TimelyLooks, Ring
  <2> QED BY <1>1, <1>2, <2>1, <2>2
<1>4. PICK i \in Slot, a \in Nat : i = Elem(p) /\ a = e[i] /\ Elem(a) = Elem(p)
  BY PlaceOf
<1>5. /\ SlotRight(i, h, q, a) /\ d_states[i].gen = generation(Word(a))
      /\ d_states[i].st \in State /\ was(loaded[t]) = d_states[i]
  <2>1. SlotRight(i, h, q, a) /\ d_states[i].gen = generation(Word(a))
    BY <1>4 DEF Ring, SlotRight
  <2>2. was(loaded[t]) = d_states[i]
    BY <1>1, <1>4 DEF was, Elem
  <2>3. d_states[i].st \in State
    BY RightOf
  <2> QED BY <2>1, <2>2, <2>3
<1>6. \/ d_states[i].st \in {"WRITING", "FULL"} /\ h <= a /\ a < h + m
      \/ d_states[i].st = "READING" /\ a <= h /\ h <= a + m /\ q <= a + m
      \/ d_states[i].st = "EMPTY" /\ q <= a /\ h <= a /\ a < h + m
  BY <1>2, <1>5 DEF SlotRight, State
<1>7. CASE Holds(loaded[t], "EMPTY")
  <2>1. d_states[i].st = "EMPTY" /\ generation(Word(a)) = generation(Word(p))
    BY <1>1, <1>5, <1>7 DEF Holds, was
  <2>2. Word(p) = Word(a)
    BY <1>4, <2>1, WordType, FoundAt DEF Elem
  <2>3. p <= a /\ a < p + Turn
    BY <1>1, <1>2, <1>3, <1>6, <2>1
  <2>4. p = a
    BY <2>2, <2>3, Circle
  <2>5. q <= h /\ Elem(h) = i /\ d_states[i].st \notin {"WRITING", "FULL"}
    BY <1>1, <1>4, <1>6, <2>1, <2>4
  <2> QED BY <2>5, EmptyAt, NoItemsAt
<1>8. CASE PopSeesPrevious(t)
  <2>1. isPreviousGeneration(generation(Word(p)), generation(Word(a)))
    BY <1>1, <1>5, <1>8 DEF PopSeesPrevious
  <2>2. p <= a + Capacity /\ a + Capacity < p + Turn
    BY <1>1, <1>2, <1>3, <1>6
  <2>3. p = a + Capacity
    BY <1>4, <2>1, <2>2, SeesPrevious
  <2>4. q <= h /\ p = h /\ d_states[i].st = "READING"
    BY <1>1, <1>2, <1>6, <2>3
  <2>5. Elem(h) = i /\ d_states[i].st \notin {"WRITING", "FULL"}
    BY <1>4, <2>4
  <2> QED BY <2>4, <2>5, EmptyAt, NoItemsAt
<1> QED BY <1>7, <1>8

\* What a thread concludes from its last look.
LEMMA LookSays ==
    ASSUME TwoGenerations, RingInv, NEW t \in Thread,
           NEW h \in Nat, NEW q \in Nat, NEW e \in [Slot -> Nat], Ring(h, q, e),
           NEW p \in Nat, Near(t, p, q)
    PROVE  /\ Capacity <= lengthOf(loaded[t], d_popIndex) => Free = {}
           /\ 0 >= lengthOf(loaded[t], d_popIndex) => p <= h
<1>1. loaded[t] = Word(p) /\ d_popIndex = Word(h) /\ h <= q + 1
      /\ p <= q /\ q - p < d_maxCombinedIndex \div 2
  BY DEF Near, Ring
<1>2. PICK k \in Nat : k = d_maxCombinedIndex \div 2
  BY Words, Division
<1>3. q <= h + Capacity /\ Capacity \in Nat /\ Capacity >= 1
  BY Fits, Constants
<1>4. CASE p <= h
  <2>1. h - p <= k
    BY <1>1, <1>2, <1>4
  <2>2. lengthOf(Word(p), Word(h)) = 0
    BY <1>2, <1>4, <2>1, LengthIs
  <2> QED BY <1>1, <1>3, <1>4, <2>2
<1>5. CASE h < p
  <2>1. h <= p /\ p <= h + Capacity
    BY <1>1, <1>3, <1>5
  <2>2. lengthOf(Word(p), Word(h)) = p - h
    BY <2>1, LengthIs
  <2>3. Capacity <= p - h => h + Capacity <= q
    BY <1>1, <1>3
  <2>4. ~(0 >= p - h)
    BY <1>5
  <2> QED BY <1>1, <2>2, <2>3, <2>4, NoRoom
<1> QED BY <1>4, <1>5

-----------------------------------------------------------------------------
(* What a step of one thread leaves alone *)

CountStays(t) ==
    /\ \A u \in Thread \ {t} : count'[u] = count[u]
    /\ role' = role

OthersStay(t) == SameOthers(t) /\ CountStays(t)

\* No step of thread t changes another's count, nor (but in the steps that set it) its own.
LEMMA CountsStay ==
    ASSUME SafeInv, NEW t \in Thread, ThreadStep(t) \/ ClientCall(t)
    PROVE  CountStays(t)
<1>0. count \in [Thread -> Nat]
  BY DEF SafeInv, Types
<1>1. CASE ManagerCall(t)
  BY <1>1 DEF ManagerCall, callVars, CountStays
<1>2. CASE ReportFailure(t) \/ CheckPoppers(t) \/ PostPopper(t)
           \/ CheckPushers(t) \/ PostPusher(t) \/ PostPushers(t)
  BY <1>0, <1>2 DEF ReportFailure, CheckPoppers, PostPopper, CheckPushers, PostPusher,
     PostPushers, Finish, CountStays
<1>3. CASE ConstructAndCommit(t) \/ TakeAndCommit(t) \/ Throw(t) \/ ClearElement(t)
           \/ ClearEnd(t) \/ Aborted(t)
  BY <1>0, <1>3 DEF ConstructAndCommit, TakeAndCommit, Throw, ClearElement, ClearEnd, Aborted,
     callVars, CountStays
<1>4. CASE block(t)
  BY <1>4 DEF block, EnterWait, LengthLoadPush, LengthLoadPop, CheckEnabled, Wait, LeaveWait,
     callVars, CountStays
<1>5. CASE removeAll(t)
  BY <1>0, <1>5 DEF removeAll, RemoveLoadPush, RemoveLoadPop, RemoveElement, RemoveFoundEmpty,
     RemoveCountPushers, RemoveNext, callVars, CountStays
<1>6. CASE DisableCountPushers(t) \/ disable(t) \/ enable(t)
  BY <1>0, <1>6 DEF DisableCountPushers, disable, enable, CountStays
<1>7. ASSUME NEW o \in AllCalls, Call(t, o) PROVE CountStays(t)
  BY <1>0, <1>7 DEF Call, CountStays
<1> QED BY <1>1, <1>2, <1>3, <1>4, <1>5, <1>6, <1>7 DEF ThreadStep, pushBack, popFront, ClientCall

\* Nor anything else of another thread.
LEMMA OthersStayPut ==
    ASSUME SafeInv, NEW t \in Thread, ThreadStep(t) \/ ClientCall(t)
    PROVE  OthersStay(t)
<1>0. SafeInv /\ Types
  BY DEF SafeInv
<1>1. CASE OtherStep(t)
  BY <1>0, <1>1, OtherOutside, CountsStay DEF OutsideOf, OthersStay
<1>2. CASE ManagerCall(t)
  BY <1>0, <1>2, ManagerOthers, CountsStay DEF OthersStay
<1>3. CASE ConstructAndCommit(t)
  BY <1>0, <1>3, ConstructOthers, CountsStay DEF OthersStay
<1>4. CASE TakeAndCommit(t)
  <2>1. SameOthers(t)
    BY <1>0, <1>4 DEF TakeAndCommit, Goto, SameOthers, Types, ManagerTypeOK
  <2> QED BY <1>0, <2>1, CountsStay DEF OthersStay
<1>5. CASE RemoveElement(t)
  <2>1. SameOthers(t)
    BY <1>0, <1>5 DEF RemoveElement, RemoveNext, Goto, SameOthers, Types, ManagerTypeOK
  <2> QED BY <1>0, <2>1, CountsStay DEF OthersStay
<1>6. CASE ClearElement(t)
  <2>1. SameOthers(t)
    BY <1>0, <1>6 DEF ClearElement, OnlyMoves, Goto, SameOthers, Types, ManagerTypeOK
  <2> QED BY <1>0, <2>1, CountsStay DEF OthersStay
<1> QED BY <1>1, <1>2, <1>3, <1>4, <1>5, <1>6, StepCases

-----------------------------------------------------------------------------
(* The sums, and what a step of one thread changes of them *)

\* Nobody owes a negative number of tokens, before a step or after it.
LEMMA OwesType ==
    ASSUME Types, CountRight, NEW t \in Thread
    PROVE  Owes(t) \in Nat /\ count[t] \in Nat
<1>1. count[t] \in Nat
  BY DEF Types
<1>2. pc[t] \in Clears \cup Aborts => count[t] - 1 \in Nat
  BY <1>1 DEF CountRight
<1> QED BY <1>1, <1>2 DEF Owes

LEMMA OwesTypeNext ==
    ASSUME Types', CountRight', NEW t \in Thread
    PROVE  Owes(t)' \in Nat
<1>1. count'[t] \in Nat
  BY DEF Types
<1>2. pc'[t] \in Clears \cup Aborts => count'[t] - 1 \in Nat
  BY <1>1 DEF CountRight
<1> QED BY <1>1, <1>2 DEF Owes

\* The tokens for pushers change by what is posted or taken and by what t owes.
LEMMA TokensChange ==
    ASSUME Types, Types', CountRight, CountRight', NEW t \in Thread, OthersStay(t)
    PROVE  /\ PushTokens \in Nat /\ PushTokens' \in Nat
           /\ Owes(t) \in Nat /\ Owes(t)' \in Nat
           /\ d_pushControlSema \in Nat /\ d_pushControlSema' \in Nat
           /\ PushTokens' - d_pushControlSema' - Owes(t)'
                = PushTokens - d_pushControlSema - Owes(t)
           /\ PushTokens' >= Owes(t)'
<1> DEFINE f == [u \in Thread |-> Owes(u)]
           g == [u \in Thread |-> Owes(u)']
<1>1. \A u \in Thread : Owes(u) \in Nat /\ Owes(u)' \in Nat
  BY OwesType, OwesTypeNext
<1>2. \A u \in Thread \ {t} : Owes(u)' = Owes(u)
  BY DEF OthersStay, SameOthers, CountStays, Owes
<1>3. /\ f \in [Thread -> Nat] /\ g \in [Thread -> Nat]
      /\ \A u \in Thread \ {t} : g[u] = f[u]
      /\ \A u \in Thread \ {t} : f[u] = g[u]
      /\ f[t] = Owes(t) /\ g[t] = Owes(t)'
  BY <1>1, <1>2
<1>4. PushTokens = d_pushControlSema + SumOf(f) /\ PushTokens' = d_pushControlSema' + SumOf(g)
  BY DEF PushTokens, SumOf
<1>5. d_pushControlSema \in Nat /\ d_pushControlSema' \in Nat
  BY DEF Types
<1> HIDE DEF f, g
<1>6. /\ SumOf(f) \in Nat /\ SumOf(g) \in Nat
      /\ SumOf(g) = SumOf(f) - f[t] + g[t]
  BY <1>3, SumChange
<1>7. g[t] <= SumOf(g)
  BY <1>3, SumChange
<1> QED BY <1>1, <1>3, <1>4, <1>5, <1>6, <1>7

\* What thread t counts for in the sets of pushers.
One(b)     == IF b THEN 1 ELSE 0
Pushes(t)  == One(\/ pc[t] \in {"push_load", "push_swap", "push_help"}
                  \/ pc[t] = "leave_wait" /\ op[t] = "pushBack")
Dozes(t)   == One(pc[t] \in {"check_enabled", "wait"} /\ op[t] = "pushBack")
Sleeps(t)  == One(pc[t] = "wait" /\ op[t] = "pushBack")

\* A step of thread t, which frees n elements, leaves a token for whoever needs it.
PushStep(t, n) ==
    LET k == (d_pushControlSema' + Owes(t)') - (d_pushControlSema + Owes(t))
    IN  /\ pc[t] # "disabled" /\ d_pushIndex'.disabled = d_pushIndex.disabled
        /\ Dozes(t)' - Dozes(t) <= k
        /\ d_pushIndex.disabled => n + Sleeps(t)' - Sleeps(t) <= k
        /\ ~d_pushIndex.disabled => n <= k + Pushes(t)' - Pushes(t)

\* The counts of pushers change with thread t alone.
LEMMA PushersChange ==
    ASSUME NEW t \in Thread, OthersStay(t)
    PROVE  /\ Cardinality(Pushers) \in Nat /\ Cardinality(Dozers) \in Nat
           /\ Cardinality(Sleepers("pushBack")) \in Nat
           /\ Cardinality(Pushers)' = Cardinality(Pushers) + Pushes(t)' - Pushes(t)
           /\ Cardinality(Dozers)' = Cardinality(Dozers) + Dozes(t)' - Dozes(t)
           /\ Cardinality(Sleepers("pushBack"))'
                = Cardinality(Sleepers("pushBack")) + Sleeps(t)' - Sleeps(t)
           /\ Cardinality(Sleepers("pushBack")) <= Cardinality(Dozers)
           /\ Cardinality(Pushers)' \in Nat
<1>0. IsFiniteSet(Thread)
  BY Constants
<1>1. \A u \in Thread \ {t} : pc'[u] = pc[u] /\ op'[u] = op[u]
  BY DEF OthersStay, SameOthers
<1>2. /\ Cardinality(Pushers) \in Nat /\ Cardinality(Pushers)' \in Nat
      /\ Cardinality(Pushers)' = Cardinality(Pushers) + Pushes(t)' - Pushes(t)
  <2>1. PICK A \in SUBSET Thread, B \in SUBSET Thread : A = Pushers /\ B = Pushers'
    BY DEF Pushers
  <2>2. /\ A \ {t} = B \ {t}
        /\ Pushes(t) = One(t \in A) /\ Pushes(t)' = One(t \in B)
    BY <1>1, <2>1 DEF Pushers, Pushes, One
  <2>3. /\ Cardinality(A) \in Nat /\ Cardinality(B) \in Nat
        /\ Cardinality(B) = Cardinality(A) + One(t \in B) - One(t \in A)
    BY <1>0, <2>2, SetChange DEF One
  <2> QED BY <2>1, <2>2, <2>3
<1>3. /\ Cardinality(Dozers) \in Nat /\ Cardinality(Dozers)' \in Nat
      /\ Cardinality(Dozers)' = Cardinality(Dozers) + Dozes(t)' - Dozes(t)
  <2>1. PICK A \in SUBSET Thread, B \in SUBSET Thread : A = Dozers /\ B = Dozers'
    BY DEF Dozers
  <2>2. /\ A \ {t} = B \ {t}
        /\ Dozes(t) = One(t \in A) /\ Dozes(t)' = One(t \in B)
    BY <1>1, <2>1 DEF Dozers, Dozes, One
  <2>3. /\ Cardinality(A) \in Nat /\ Cardinality(B) \in Nat
        /\ Cardinality(B) = Cardinality(A) + One(t \in B) - One(t \in A)
    BY <1>0, <2>2, SetChange DEF One
  <2> QED BY <2>1, <2>2, <2>3
<1>4. /\ Cardinality(Sleepers("pushBack")) \in Nat /\ Cardinality(Sleepers("pushBack"))' \in Nat
      /\ Cardinality(Sleepers("pushBack"))'
           = Cardinality(Sleepers("pushBack")) + Sleeps(t)' - Sleeps(t)
  <2>1. PICK A \in SUBSET Thread, B \in SUBSET Thread :
           A = Sleepers("pushBack") /\ B = Sleepers("pushBack")'
    BY DEF Sleepers
  <2>2. /\ A \ {t} = B \ {t}
        /\ Sleeps(t) = One(t \in A) /\ Sleeps(t)' = One(t \in B)
    BY <1>1, <2>1 DEF Sleepers, Sleeps, One
  <2>3. /\ Cardinality(A) \in Nat /\ Cardinality(B) \in Nat
        /\ Cardinality(B) = Cardinality(A) + One(t \in B) - One(t \in A)
    BY <1>0, <2>2, SetChange DEF One
  <2> QED BY <2>1, <2>2, <2>3
<1>5. Cardinality(Sleepers("pushBack")) <= Cardinality(Dozers)
  <2>1. /\ Sleepers("pushBack") \in SUBSET Thread /\ Dozers \in SUBSET Thread
        /\ Sleepers("pushBack") \subseteq Dozers
    BY DEF Sleepers, Dozers
  <2> QED BY <1>0, <2>1, SetLess
<1> QED BY <1>2, <1>3, <1>4, <1>5

\* How many elements are free.
LEMMA FreeChange ==
    ASSUME NEW n \in Int,
           \/ n = 0 /\ \A j \in Slot : d_states'[j].st = "EMPTY" <=> d_states[j].st = "EMPTY"
           \/ \E i \in Slot :
                 /\ \A j \in Slot \ {i} : d_states'[j] = d_states[j]
                 /\ n = One(d_states'[i].st = "EMPTY") - One(d_states[i].st = "EMPTY")
    PROVE  /\ Cardinality(Free) \in Nat /\ Cardinality(Free)' \in Nat
           /\ Cardinality(Free)' = Cardinality(Free) + n
<1>1. PICK A \in SUBSET Slot, B \in SUBSET Slot : A = Free /\ B = Free'
  BY DEF Free
<1>2. IsFiniteSet(Slot)
  BY SlotsFinite
<1>3. CASE n = 0 /\ \A j \in Slot : d_states'[j].st = "EMPTY" <=> d_states[j].st = "EMPTY"
  <2>1. A = B
    BY <1>1, <1>3 DEF Free
  <2>2. Cardinality(A) \in Nat
    BY <1>2, SetNone
  <2> QED BY <1>1, <1>3, <2>1, <2>2
<1>4. CASE \E i \in Slot :
              /\ \A j \in Slot \ {i} : d_states'[j] = d_states[j]
              /\ n = One(d_states'[i].st = "EMPTY") - One(d_states[i].st = "EMPTY")
  <2>1. PICK i \in Slot :
           /\ \A j \in Slot \ {i} : d_states'[j] = d_states[j]
           /\ n = One(d_states'[i].st = "EMPTY") - One(d_states[i].st = "EMPTY")
    BY <1>4
  <2>2. A \ {i} = B \ {i} /\ n = One(i \in B) - One(i \in A)
    BY <1>1, <2>1 DEF Free, One
  <2>3. /\ Cardinality(A) \in Nat /\ Cardinality(B) \in Nat
        /\ Cardinality(B) = Cardinality(A) + One(i \in B) - One(i \in A)
    BY <1>2, <2>2, SetChange DEF One
  <2> QED BY <1>1, <2>2, <2>3 DEF One
<1> QED BY <1>3, <1>4

\* A step that frees n elements, and leaves a token for each pusher that needs one.
LEMMA PushKept ==
    ASSUME Types, Types', CountRight, CountRight', PushAwake, NEW t \in Thread, OthersStay(t),
           NEW n \in Int, Cardinality(Free)' = Cardinality(Free) + n, PushStep(t, n)
    PROVE  PushAwake'
<1>1. CASE \E u \in Thread : pc[u] = "disabled"
  <2>1. PICK u \in Thread : pc[u] = "disabled" /\ u # t
    BY <1>1 DEF PushStep
  <2>2. pc'[u] = "disabled"
    BY <2>1 DEF OthersStay, SameOthers
  <2> QED BY <2>2 DEF PushAwake
<1>2. CASE ~\E u \in Thread : pc[u] = "disabled"
  <2>1. PICK k \in Int :
           /\ k = (d_pushControlSema' + Owes(t)') - (d_pushControlSema + Owes(t))
           /\ PushTokens \in Nat /\ PushTokens' \in Nat /\ PushTokens' = PushTokens + k
    BY TokensChange
  <2>2. PICK w, s, r \in Int :
           /\ w = Dozes(t)' - Dozes(t) /\ s = Sleeps(t)' - Sleeps(t)
           /\ r = Pushes(t)' - Pushes(t)
    <3>1. /\ Dozes(t) \in Int /\ Dozes(t)' \in Int
          /\ Sleeps(t) \in Int /\ Sleeps(t)' \in Int
          /\ Pushes(t) \in Int /\ Pushes(t)' \in Int
      BY DEF Dozes, Sleeps, Pushes, One
    <3> QED BY <3>1
  <2>3. /\ d_pushIndex'.disabled = d_pushIndex.disabled
        /\ w <= k /\ (d_pushIndex.disabled => n + s <= k) /\ (~d_pushIndex.disabled => n <= k + r)
    <3>1. (d_pushIndex.disabled => n + Sleeps(t)' - Sleeps(t) <= k)
          /\ (~d_pushIndex.disabled => n <= k + Pushes(t)' - Pushes(t))
          /\ Dozes(t)' - Dozes(t) <= k /\ d_pushIndex'.disabled = d_pushIndex.disabled
      BY <2>1 DEF PushStep
    <3>2. /\ Sleeps(t) \in Int /\ Sleeps(t)' \in Int /\ Pushes(t) \in Int /\ Pushes(t)' \in Int
      BY DEF Sleeps, Pushes, One
    <3> QED BY <2>2, <3>1, <3>2
  <2>4. /\ Cardinality(Pushers) \in Nat /\ Cardinality(Dozers) \in Nat
        /\ Cardinality(Sleepers("pushBack")) \in Nat
        /\ Cardinality(Pushers)' = Cardinality(Pushers) + r
        /\ Cardinality(Dozers)' = Cardinality(Dozers) + w
        /\ Cardinality(Sleepers("pushBack"))' = Cardinality(Sleepers("pushBack")) + s
    <3>1. /\ Sleeps(t) \in Int /\ Sleeps(t)' \in Int /\ Pushes(t) \in Int /\ Pushes(t)' \in Int
          /\ Dozes(t) \in Int /\ Dozes(t)' \in Int
      BY DEF Sleeps, Pushes, Dozes, One
    <3> QED BY <2>2, <3>1, PushersChange
  <2>5. Cardinality(Free) \in Nat
    <3>1. Free \in SUBSET Slot
      BY DEF Free
    <3> QED BY <3>1, SlotsFinite, SetNone
  <2> DEFINE P == Cardinality(Pushers)
             D == Cardinality(Dozers)
             S == Cardinality(Sleepers("pushBack"))
             F == Cardinality(Free)
  <2>6. D <= PushTokens \/ IF d_pushIndex.disabled THEN F + S <= PushTokens ELSE F <= PushTokens + P
    BY <1>2 DEF PushAwake
  <2>7. \/ D' <= PushTokens'
        \/ IF d_pushIndex'.disabled THEN F' + S' <= PushTokens' ELSE F' <= PushTokens' + P'
    <3>1. P \in Nat /\ D \in Nat /\ S \in Nat /\ F \in Nat
      BY <2>4, <2>5
    <3>2. P' = P + r /\ D' = D + w /\ S' = S + s /\ F' = F + n
      BY <2>4
    <3> HIDE DEF P, D, S, F
    <3>3. CASE D <= PushTokens
      BY <2>1, <2>3, <3>1, <3>2, <3>3
    <3>4. CASE d_pushIndex.disabled /\ F + S <= PushTokens
      BY <2>1, <2>3, <3>1, <3>2, <3>4
    <3>5. CASE ~d_pushIndex.disabled /\ F <= PushTokens + P
      BY <2>1, <2>3, <3>1, <3>2, <3>5
    <3> QED BY <2>6, <3>3, <3>4, <3>5
  <2> QED BY <2>7 DEF PushAwake
<1> QED BY <1>1, <1>2

\* A step after which no element is free, or that finds nobody who could sleep.
LEMMA PushNoneFree ==
    ASSUME Types, Types', CountRight, CountRight', PushAwake, NEW t \in Thread, OthersStay(t),
           Free = {}, UNCHANGED <<d_states, d_pushControlSema>>,
           Owes(t)' = Owes(t), Sleeps(t)' = Sleeps(t), pc[t] # "disabled",
           d_pushIndex' = d_pushIndex
    PROVE  PushAwake'
<1>1. CASE \E u \in Thread : pc[u] = "disabled"
  <2>1. PICK u \in Thread : pc[u] = "disabled" /\ u # t
    BY <1>1
  <2>2. pc'[u] = "disabled"
    BY <2>1 DEF OthersStay, SameOthers
  <2> QED BY <2>2 DEF PushAwake
<1>2. CASE ~\E u \in Thread : pc[u] = "disabled"
  <2>1. PushTokens \in Nat /\ PushTokens' = PushTokens
    BY TokensChange
  <2>2. /\ Cardinality(Pushers) \in Nat /\ Cardinality(Pushers)' \in Nat
        /\ Cardinality(Sleepers("pushBack")) \in Nat /\ Cardinality(Dozers) \in Nat
        /\ Cardinality(Sleepers("pushBack")) <= Cardinality(Dozers)
        /\ Cardinality(Sleepers("pushBack"))' = Cardinality(Sleepers("pushBack"))
    <3>1. Sleeps(t) \in Int
      BY DEF Sleeps, One
    <3> QED BY <3>1, PushersChange
  <2>3. Cardinality(Free) = 0 /\ Cardinality(Free)' = 0
    <3>1. Free' = Free
      BY DEF Free
    <3> QED BY <3>1, FS_EmptySet
  <2>4. IF d_pushIndex'.disabled
        THEN Cardinality(Free)' + Cardinality(Sleepers("pushBack"))' <= PushTokens'
        ELSE Cardinality(Free)' <= PushTokens' + Cardinality(Pushers)'
    BY <1>2, <2>1, <2>2, <2>3 DEF PushAwake
  <2> QED BY <2>4 DEF PushAwake
<1> QED BY <1>1, <1>2

\* A step after which thread t owes a token to every pusher that is counted.
LEMMA PushAllOwed ==
    ASSUME Types, Types', CountRight, CountRight', WaitersCounted', NEW t \in Thread,
           OthersStay(t), d_numWaitingPushers' <= Owes(t)'
    PROVE  PushAwake'
<1>1. PushTokens' \in Nat /\ Owes(t)' \in Nat /\ Owes(t)' <= PushTokens'
  BY TokensChange
<1>2. Cardinality(Dozers)' \in Nat /\ Cardinality(Dozers)' <= d_numWaitingPushers'
  <2>1. PICK A \in SUBSET Thread, B \in SUBSET Thread :
           A = Dozers' /\ B = Waiting("pushBack")'
    BY DEF Dozers, Waiting
  <2>2. A \subseteq B
    BY <2>1 DEF Dozers, Waiting, Waits
  <2>3. Cardinality(A) \in Nat /\ Cardinality(A) <= Cardinality(B)
    BY <2>2, Constants, SetLess
  <2> QED BY <2>1, <2>3 DEF WaitersCounted
<1>3. d_numWaitingPushers' \in Nat
  <2>1. PICK B \in SUBSET Thread : B = Waiting("pushBack")'
    BY DEF Waiting
  <2>2. Cardinality(B) \in Nat
    BY <2>1, Constants, SetNone
  <2> QED BY <2>1, <2>2 DEF WaitersCounted
<1>4. Cardinality(Dozers)' <= PushTokens'
  BY <1>1, <1>2, <1>3
<1> QED BY <1>4 DEF PushAwake

-----------------------------------------------------------------------------
(* What each step does for the pushers *)

\* A step within a call that changes neither the pusher's standing nor its debt.
LEMMA SamePush ==
    ASSUME Types, NEW t \in Thread, UNCHANGED <<d_pushControlSema, op, count>>,
           d_pushIndex'.disabled = d_pushIndex.disabled, pc[t] # "disabled",
           Owes(t)' = Owes(t), Dozes(t)' = Dozes(t), Sleeps(t)' = Sleeps(t),
           d_pushIndex.disabled \/ Pushes(t)' = Pushes(t), Owes(t) \in Nat
    PROVE  PushStep(t, 0)
<1>1. d_pushControlSema \in Nat
  BY DEF Types
<1>2. Dozes(t) \in Int /\ Sleeps(t) \in Int /\ Pushes(t) \in Int /\ Pushes(t)' \in Int
  BY DEF Dozes, Sleeps, Pushes, One
<1> QED BY <1>1, <1>2 DEF PushStep

LEMMA AdvanceSame ==
    ASSUME Types, NEW c, AdvancePushIndex(c)
    PROVE  d_pushIndex'.disabled = d_pushIndex.disabled
<1>1. d_pushIndex \in [disabled : BOOLEAN, index : Combined]
  BY DEF Types, ManagerTypeOK
<1> QED BY <1>1 DEF AdvancePushIndex

\* For the pushers, a step of the manager that changes no state.
LEMMA MovesPush ==
    ASSUME SafeInv, CountRight, NEW t \in Thread, ManagerCall(t), ReadsOrMoves(t)
    PROVE  \/ PushStep(t, 0)
           \/ ReservePushBehind(t) /\ pc'[t] = "ret"
<1>0. /\ Types /\ CallRight(t) /\ pc \in [Thread -> QueuePC] /\ result \in [Thread -> Result]
      /\ UNCHANGED <<d_pushControlSema, op, count>> /\ Owes(t) \in Nat
  BY OwesType DEF SafeInv, ThreadsRight, Types, ManagerTypeOK, ManagerCall, callVars,
     queueVars, waitVars
<1>1. CASE ReservePushLoad(t)
  <2>1. /\ pc[t] = "push_load" /\ op[t] \in Pushing /\ UNCHANGED d_pushIndex
        /\ \/ pc'[t] = "push_swap"
           \/ pc'[t] = "ret" /\ result'[t] = "disabled" /\ d_pushIndex.disabled
    BY <1>0, <1>1 DEF ReservePushLoad, Goto, Return, sharedVars, CallRight, PushCalls
  <2>2. /\ Owes(t)' = Owes(t) /\ Dozes(t)' = Dozes(t) /\ Sleeps(t)' = Sleeps(t)
        /\ d_pushIndex.disabled \/ Pushes(t)' = Pushes(t)
    BY <1>0, <2>1 DEF Owes, Dozes, Sleeps, Pushes, Pushing, PopCalls, Clears, Aborts
  <2> QED BY <1>0, <2>1, <2>2, SamePush
<1>2. CASE ReservePushBehind(t) /\ pc'[t] # "ret"
  <2>1. /\ pc[t] = "push_swap" /\ pc'[t] = "push_load" /\ UNCHANGED d_pushIndex
    BY <1>0, <1>2 DEF ReservePushBehind, Goto, Return, sharedVars
  <2>2. /\ Owes(t)' = Owes(t) /\ Dozes(t)' = Dozes(t) /\ Sleeps(t)' = Sleeps(t)
        /\ Pushes(t)' = Pushes(t)
    BY <1>0, <2>1 DEF Owes, Dozes, Sleeps, Pushes, PopCalls, Clears, Aborts
  <2> QED BY <1>0, <2>1, <2>2, SamePush
<1>3. CASE ReservePushTaken(t)
  <2>1. /\ pc[t] = "push_swap" /\ pc'[t] = "push_help" /\ UNCHANGED d_pushIndex
    BY <1>0, <1>3 DEF ReservePushTaken, Goto, sharedVars
  <2>2. /\ Owes(t)' = Owes(t) /\ Dozes(t)' = Dozes(t) /\ Sleeps(t)' = Sleeps(t)
        /\ Pushes(t)' = Pushes(t)
    BY <1>0, <2>1 DEF Owes, Dozes, Sleeps, Pushes, PopCalls, Clears, Aborts
  <2> QED BY <1>0, <2>1, <2>2, SamePush
<1>4. CASE ReservePushHelp(t)
  <2>1. /\ pc[t] = "push_help" /\ op[t] \in Pushing
        /\ \/ pc'[t] = "push_swap"
           \/ pc'[t] = "ret" /\ result'[t] = "disabled" /\ d_pushIndex.disabled
    BY <1>0, <1>4 DEF ReservePushHelp, Goto, Return, CallRight, PushCalls
  <2>2. /\ Owes(t)' = Owes(t) /\ Dozes(t)' = Dozes(t) /\ Sleeps(t)' = Sleeps(t)
        /\ d_pushIndex.disabled \/ Pushes(t)' = Pushes(t)
    BY <1>0, <2>1 DEF Owes, Dozes, Sleeps, Pushes, Pushing, PopCalls, Clears, Aborts
  <2>3. d_pushIndex'.disabled = d_pushIndex.disabled
    BY <1>0, <1>4, AdvanceSame DEF ReservePushHelp
  <2> QED BY <1>0, <2>1, <2>2, <2>3, SamePush
<1>5. CASE ReservePushAdvance(t)
  <2>1. /\ pc[t] = "push_advance" /\ op[t] \in Pushing
        /\ pc'[t] = "ret" /\ result'[t] = "success"
    BY <1>0, <1>5 DEF ReservePushAdvance, Goto, Return, CallRight, PushCalls
  <2>2. /\ Owes(t)' = Owes(t) /\ Dozes(t)' = Dozes(t) /\ Sleeps(t)' = Sleeps(t)
        /\ Pushes(t)' = Pushes(t)
    BY <1>0, <2>1 DEF Owes, Dozes, Sleeps, Pushes, Pushing, PopCalls, Clears, Aborts
  <2>3. d_pushIndex'.disabled = d_pushIndex.disabled
    BY <1>0, <1>5, AdvanceSame DEF ReservePushAdvance
  <2> QED BY <1>0, <2>1, <2>2, <2>3, SamePush
<1>6. CASE \/ ReservePopLoad(t) \/ ReservePopEmpty(t) \/ ReservePopRetry(t)
           \/ ReservePopTaken(t) \/ ReservePopHelp(t) \/ ReservePopAdvance(t)
  <2>1. /\ pc[t] \in PopCalls /\ UNCHANGED d_pushIndex
        /\ pc'[t] \in PopCalls \/ (pc'[t] = "ret" /\ result'[t] \in {"empty", "success"})
    BY <1>0, <1>6 DEF ReservePopLoad, ReservePopEmpty, ReservePopRetry, ReservePopTaken,
       ReservePopHelp, ReservePopAdvance, Goto, Return, sharedVars, PopCalls
  <2>2. /\ Owes(t)' = Owes(t) /\ Dozes(t)' = Dozes(t) /\ Sleeps(t)' = Sleeps(t)
        /\ Pushes(t)' = Pushes(t)
    BY <1>0, <2>1 DEF Owes, Dozes, Sleeps, Pushes, PopCalls, Clears, Aborts
  <2>3. pc[t] # "disabled"
    BY <2>1 DEF PopCalls
  <2> QED BY <1>0, <2>1, <2>2, <2>3, SamePush
<1>7. CASE \/ ReserveClearLoad(t) \/ (ReserveClearSwap(t) /\ UNCHANGED d_states)
           \/ ReserveClearHelp(t) \/ ReserveClearAdvance(t) \/ AbortAdvance(t)
  <2>1. /\ pc[t] \in Clears \cup Aborts /\ UNCHANGED d_pushIndex
        /\ pc'[t] \in Clears \cup Aborts
    BY <1>0, <1>7 DEF ReserveClearLoad, ReserveClearSwap, ReserveClearHelp,
       ReserveClearAdvance, AbortAdvance, Goto, Return, sharedVars, Clears, Aborts
  <2>2. /\ Owes(t)' = Owes(t) /\ Dozes(t)' = Dozes(t) /\ Sleeps(t)' = Sleeps(t)
        /\ Pushes(t)' = Pushes(t)
    BY <1>0, <2>1 DEF Owes, Dozes, Sleeps, Pushes, PopCalls, Clears, Aborts
  <2>3. pc[t] # "disabled"
    BY <2>1 DEF Clears, Aborts
  <2> QED BY <1>0, <2>1, <2>2, <2>3, SamePush
<1> QED BY <1>1, <1>2, <1>3, <1>4, <1>5, <1>6, <1>7 DEF ReadsOrMoves

LEMMA SwapsPush ==
    ASSUME SafeInv, CountRight, NEW t \in Thread
    PROVE  /\ ManagerCall(t) /\ ReservePushAcquire(t) => PushStep(t, -1)
           /\ ManagerCall(t) /\ ReservePopAcquire(t) => PushStep(t, 0)
           /\ ManagerCall(t) /\ ReserveClearSwap(t) => PushStep(t, 0)
           /\ ManagerCall(t) /\ AbortReading(t) => PushStep(t, 0)
           /\ ConstructAndCommit(t) => PushStep(t, 0)
           /\ \A c : Empties(t, c) => PushStep(t, 1)
<1>0. /\ Types /\ CallRight(t) /\ pc \in [Thread -> QueuePC] /\ result \in [Thread -> Result]
      /\ count \in [Thread -> Nat] /\ d_pushControlSema \in Nat
      /\ Owes(t) \in Nat /\ count[t] \in Nat
  BY OwesType DEF SafeInv, ThreadsRight, Types, ManagerTypeOK
<1>a. ManagerCall(t) => UNCHANGED <<d_pushControlSema, op, count>>
  BY DEF ManagerCall, callVars, queueVars, waitVars
<1>1. ASSUME ManagerCall(t), ReservePushAcquire(t) PROVE PushStep(t, -1)
  <2>1. pc[t] = "push_swap" /\ pc'[t] = "push_advance" /\ UNCHANGED d_pushIndex
    BY <1>0, <1>1 DEF ReservePushAcquire, Goto
  <2>2. /\ Owes(t)' = 0 /\ Owes(t) = 0 /\ Dozes(t)' = 0 /\ Dozes(t) = 0
        /\ Sleeps(t)' = 0 /\ Sleeps(t) = 0 /\ Pushes(t)' = 0 /\ Pushes(t) = 1
    BY <2>1 DEF Owes, Dozes, Sleeps, Pushes, One, PopCalls, Clears, Aborts
  <2> QED BY <1>0, <1>a, <1>1, <2>1, <2>2 DEF PushStep
<1>2. ASSUME ManagerCall(t), ReservePopAcquire(t) PROVE PushStep(t, 0)
  <2>1. pc[t] = "pop_swap" /\ pc'[t] = "pop_advance" /\ UNCHANGED d_pushIndex
    BY <1>0, <1>2 DEF ReservePopAcquire, Goto
  <2>2. /\ Owes(t)' = Owes(t) /\ Dozes(t)' = Dozes(t) /\ Sleeps(t)' = Sleeps(t)
        /\ Pushes(t)' = Pushes(t)
    BY <1>0, <1>a, <1>2, <2>1 DEF Owes, Dozes, Sleeps, Pushes, PopCalls, Clears, Aborts
  <2> QED BY <1>0, <1>a, <1>2, <2>1, <2>2, SamePush
<1>3. ASSUME ManagerCall(t), ReserveClearSwap(t) PROVE PushStep(t, 0)
  <2>1. /\ pc[t] = "clear_swap" /\ pc'[t] \in {"clear_load", "clear_help", "clear_advance"}
        /\ UNCHANGED d_pushIndex
    BY <1>0, <1>3 DEF ReserveClearSwap, Goto
  <2>2. /\ Owes(t)' = Owes(t) /\ Dozes(t)' = Dozes(t) /\ Sleeps(t)' = Sleeps(t)
        /\ Pushes(t)' = Pushes(t)
    BY <1>0, <1>a, <1>3, <2>1 DEF Owes, Dozes, Sleeps, Pushes, PopCalls, Clears, Aborts
  <2> QED BY <1>0, <1>a, <1>3, <2>1, <2>2, SamePush
<1>4. ASSUME ManagerCall(t), AbortReading(t) PROVE PushStep(t, 0)
  <2>1. /\ pc[t] = "abort_reading" /\ pc'[t] = "abort_advance" /\ UNCHANGED d_pushIndex
    BY <1>0, <1>4 DEF AbortReading, Goto
  <2>2. /\ Owes(t)' = Owes(t) /\ Dozes(t)' = Dozes(t) /\ Sleeps(t)' = Sleeps(t)
        /\ Pushes(t)' = Pushes(t)
    BY <1>0, <1>a, <1>4, <2>1 DEF Owes, Dozes, Sleeps, Pushes, PopCalls, Clears, Aborts
  <2> QED BY <1>0, <1>a, <1>4, <2>1, <2>2, SamePush
<1>5. ASSUME ConstructAndCommit(t) PROVE PushStep(t, 0)
  <2>1. /\ pc[t] = "ret" /\ pc'[t] = "check_poppers" /\ op[t] \in Pushing
        /\ result[t] = "success"
        /\ UNCHANGED <<d_pushIndex, d_pushControlSema, op, count>>
    BY <1>0, <1>5 DEF ConstructAndCommit, Goto, callVars, waitVars, CallRight, Clears, Aborts
  <2>2. /\ Owes(t)' = Owes(t) /\ Dozes(t)' = Dozes(t) /\ Sleeps(t)' = Sleeps(t)
        /\ Pushes(t)' = Pushes(t)
    BY <2>1 DEF Owes, Dozes, Sleeps, Pushes, Pushing, PopCalls, Clears, Aborts
  <2> QED BY <1>0, <2>1, <2>2, SamePush
<1>6. ASSUME NEW c, Empties(t, c) PROVE PushStep(t, 1)
  <2>1. /\ pc[t] # "disabled" /\ UNCHANGED <<d_pushIndex, d_pushControlSema>>
        /\ Owes(t)' = Owes(t) + 1
        /\ pc[t] \in {"ret", "clear_ret", "abort_empty"}
        /\ pc'[t] \in {"check_pushers", "pop_load", "count_pushers", "clear_load", "ret"}
    <3>1. CASE TakeAndCommit(t)
      <4>1. /\ pc[t] = "ret" /\ pc'[t] = "check_pushers" /\ op[t] \in Popping
            /\ result[t] = "success" /\ UNCHANGED <<d_pushIndex, d_pushControlSema>>
        BY <1>0, <3>1 DEF TakeAndCommit, StoreEmpty, Goto, waitVars, CallRight, Clears, Aborts
      <4> QED BY <4>1 DEF Owes, Popping, PopCalls, Clears, Aborts
    <3>2. CASE RemoveElement(t)
      <4>1. /\ pc[t] = "ret" /\ pc'[t] \in {"pop_load", "count_pushers"}
            /\ op[t] = "removeAll" /\ op'[t] = "removeAll" /\ count'[t] = count[t] + 1
            /\ UNCHANGED <<d_pushIndex, d_pushControlSema>>
        BY <1>0, <3>2 DEF RemoveElement, RemoveNext, StoreEmpty, Goto, waitVars
      <4> QED BY <1>0, <4>1 DEF Owes, PopCalls
    <3>3. CASE ClearElement(t)
      <4>1. /\ pc[t] = "clear_ret" /\ pc'[t] = "clear_load" /\ count'[t] = count[t] + 1
            /\ UNCHANGED <<d_pushIndex, d_pushControlSema>>
        BY <1>0, <3>3 DEF ClearElement, StoreEmpty, Goto, waitVars
      <4> QED BY <1>0, <4>1 DEF Owes, PopCalls, Clears, Aborts
    <3>4. CASE AbortEmpty(t) /\ UNCHANGED <<callVars, queueVars>>
      <4>1. /\ pc[t] = "abort_empty" /\ pc'[t] = "ret" /\ result[t] = "end"
            /\ UNCHANGED <<d_pushIndex, d_pushControlSema, count, result>>
        BY <1>0, <3>4 DEF AbortEmpty, Goto, callVars, queueVars, waitVars, CallRight, Aborts
      <4> QED BY <1>0, <4>1 DEF Owes, PopCalls, Clears, Aborts
    <3> QED BY <1>6, <3>1, <3>2, <3>3, <3>4 DEF Empties
  <2>2. /\ Dozes(t)' = 0 /\ Dozes(t) = 0 /\ Sleeps(t)' = 0 /\ Sleeps(t) = 0
        /\ Pushes(t)' = 0 /\ Pushes(t) = 0
    BY <2>1 DEF Dozes, Sleeps, Pushes, One
  <2> QED BY <1>0, <2>1, <2>2 DEF PushStep
<1> QED BY <1>1, <1>2, <1>3, <1>4, <1>5, <1>6

\* A step that owes no less, after which fewer doze and more push.
LEMMA EasyPush ==
    ASSUME Types, NEW t \in Thread, UNCHANGED d_pushControlSema,
           d_pushIndex'.disabled = d_pushIndex.disabled, pc[t] # "disabled",
           Owes(t) \in Nat, Owes(t)' \in Nat, Owes(t) <= Owes(t)',
           Dozes(t)' <= Dozes(t),
           d_pushIndex.disabled => Sleeps(t)' <= Sleeps(t),
           ~d_pushIndex.disabled => Pushes(t) <= Pushes(t)'
    PROVE  PushStep(t, 0)
<1>1. d_pushControlSema \in Nat
  BY DEF Types
<1>2. /\ Dozes(t) \in Int /\ Sleeps(t) \in Int /\ Pushes(t) \in Int /\ Pushes(t)' \in Int
      /\ Sleeps(t)' \in Int /\ Dozes(t)' \in Int
  BY DEF Dozes, Sleeps, Pushes, One
<1>3. PICK k \in Nat : k = Owes(t)' - Owes(t)
  OBVIOUS
<1> QED BY <1>1, <1>2, <1>3 DEF PushStep

\* The number of elements freed counts the one that is aborted, too.
LEMMA CountKept ==
    ASSUME SafeInv, CountRight, NEW t \in Thread, ThreadStep(t) \/ ClientCall(t)
    PROVE  CountRight'
<1>0. /\ Types /\ pc \in [Thread -> QueuePC] /\ count \in [Thread -> Nat]
      /\ CallRight(t)
  BY DEF SafeInv, Types, ThreadsRight
<1>1. SameOthers(t) /\ CountStays(t)
  BY OthersStayPut DEF OthersStay
<1>2. ASSUME pc'[t] \in Clears \cup Aborts PROVE count'[t] >= 1
  <2>1. CASE ManagerCall(t)
    <3>1. UNCHANGED callVars
      BY <2>1 DEF ManagerCall
    <3>2. pc[t] \in Clears \cup Aborts
      <4>1. CASE reservePushIndex(t)
        BY <1>0, <1>2, <4>1 DEF reservePushIndex, ReservePushLoad, ReservePushSwap,
           ReservePushAcquire, ReservePushBehind, ReservePushTaken, ReservePushHelp,
           ReservePushAdvance, Goto, Return, Clears, Aborts
      <4>2. CASE reservePopIndex(t)
        BY <1>0, <1>2, <4>2 DEF reservePopIndex, ReservePopLoad, ReservePopSwap,
           ReservePopAcquire, ReservePopEmpty, ReservePopRetry, ReservePopTaken, ReservePopHelp,
           ReservePopAdvance, Goto, Return, Clears, Aborts
      <4>3. CASE reservePopIndexForClear(t)
        BY <1>0, <4>3 DEF reservePopIndexForClear, ReserveClearLoad, ReserveClearSwap,
           ReserveClearHelp, ReserveClearAdvance, Goto, Return, Clears
      <4>4. CASE abortPushIndexReservation(t)
        BY <1>0, <4>4 DEF abortPushIndexReservation, AbortReading, AbortAdvance, AbortEmpty,
           Goto, Aborts
      <4> QED BY <2>1, <4>1, <4>2, <4>3, <4>4 DEF ManagerCall, ManagerStep
    <3> QED BY <3>1, <3>2 DEF CountRight, callVars
  <2>2. CASE Throw(t)
    BY <1>0, <2>2 DEF Throw
  <2>3. CASE ClearEnd(t)
    BY <1>0, <2>3 DEF ClearEnd, Goto, callVars, CountRight, Clears
  <2>4. CASE ClearElement(t)
    <3>1. pc[t] \in Clears \cup Aborts /\ count'[t] = count[t] + 1
      BY <1>0, <2>4 DEF ClearElement, Goto, Clears
    <3> QED BY <1>0, <3>1 DEF CountRight
  <2>5. CASE ReportFailure(t) \/ ConstructAndCommit(t) \/ CheckPoppers(t) \/ PostPopper(t)
             \/ TakeAndCommit(t) \/ CheckPushers(t) \/ PostPusher(t) \/ Aborted(t)
             \/ PostPushers(t) \/ DisableCountPushers(t)
    BY <1>0, <1>2, <2>5 DEF ReportFailure, ConstructAndCommit, CheckPoppers, PostPopper,
       TakeAndCommit, CheckPushers, PostPusher, Aborted, PostPushers, DisableCountPushers,
       Finish, Goto, Clears, Aborts
  <2>6. CASE block(t)
    BY <1>0, <1>2, <2>6 DEF block, EnterWait, LengthLoadPush, LengthLoadPop, CheckEnabled,
       Wait, LeaveWait, Goto, Clears, Aborts, Entry, CallRight, Blocking, Pushing, Popping, Waits
  <2>7. CASE removeAll(t)
    BY <1>0, <1>2, <2>7 DEF removeAll, RemoveLoadPush, RemoveLoadPop, RemoveElement,
       RemoveFoundEmpty, RemoveCountPushers, RemoveNext, Goto, Clears, Aborts
  <2>8. ASSUME NEW o \in AllCalls, Call(t, o) PROVE FALSE
    BY <1>0, <1>2, <2>8 DEF Call, Goto, Entry, AllCalls, Pushing, Popping, Clears, Aborts
  <2>9. CASE disable(t) \/ enable(t)
    BY <1>0, <1>2, <2>9 DEF disable, enable, Goto, threadVars, Clears, Aborts
  <2> QED BY <2>1, <2>2, <2>3, <2>4, <2>5, <2>6, <2>7, <2>8, <2>9
             DEF ThreadStep, pushBack, popFront, ClientCall
<1> QED BY <1>1, <1>2 DEF CountRight, SameOthers, CountStays

\* A step that moves no element counts for the pushers, but for the one that finds the
\* queue full, and for those of a disable, of an enable, and of a count of all sleepers.
LEMMA OthersPush ==
    ASSUME SafeInv, CountRight, NEW t \in Thread, OtherStep(t)
    PROVE  \/ PushStep(t, 0)
           \/ d_numWaitingPushers' <= Owes(t)'
           \/ LengthLoadPop(t) /\ op[t] = "pushBack" /\ Capacity <= lengthOf(loaded[t], d_popIndex)
           \/ disable(t) \/ enable(t)
<1>0. /\ Types /\ CallRight(t) /\ pc \in [Thread -> QueuePC]
      /\ op \in [Thread -> AllCalls \cup {"none"}]
      /\ result \in [Thread -> Result] /\ count \in [Thread -> Nat] /\ count[t] \in Nat
      /\ Owes(t) \in Nat /\ d_pushControlSema \in Nat
      /\ d_numWaitingPushers \in Nat
  <2>1. Waiting("pushBack") \in SUBSET Thread
    BY DEF Waiting
  <2>2. d_numWaitingPushers \in Nat
    BY <2>1, Constants, SetNone DEF SafeInv, WaitersCounted
  <2> QED BY <2>2, OwesType DEF SafeInv, Types, ManagerTypeOK, ThreadsRight
<1> DEFINE none(n) == /\ Owes(t)' = n /\ Owes(t) = n /\ Dozes(t)' = 0 /\ Dozes(t) = 0
                      /\ Sleeps(t)' = 0 /\ Sleeps(t) = 0 /\ Pushes(t)' = 0 /\ Pushes(t) = 0
                      /\ pc[t] # "disabled"
<1>1. ASSUME NEW n \in Nat, none(n), UNCHANGED <<d_pushControlSema, d_pushIndex>>
      PROVE  PushStep(t, 0)
  BY <1>0, <1>1 DEF PushStep
<1>2. CASE CheckPoppers(t) \/ PostPopper(t) \/ ReportFailure(t)
  <2>1. /\ \/ pc[t] \in {"check_poppers", "post_popper"}
           \/ pc[t] = "ret" /\ op[t] # "removeAll" /\ result[t] # "end"
        /\ pc'[t] \in {"post_popper", "idle"}
        /\ UNCHANGED <<d_pushControlSema, d_pushIndex>>
    BY <1>0, <1>2 DEF CheckPoppers, PostPopper, ReportFailure, Finish, Goto, sharedVars, queueVars,
       waitVars
  <2>2. none(0)
    BY <2>1 DEF Owes, Dozes, Sleeps, Pushes, One, PopCalls, Clears, Aborts
  <2> QED BY <1>1, <2>1, <2>2
<1>3. CASE Throw(t)
  <2>1. /\ pc[t] = "ret" /\ op[t] # "removeAll" /\ result[t] # "end"
        /\ pc'[t] = "clear_load" /\ count'[t] = 1
        /\ UNCHANGED <<d_pushControlSema, d_pushIndex>>
    BY <1>0, <1>3 DEF Throw, Goto, sharedVars, queueVars, waitVars, CallRight, Pushing,
       Clears, Aborts
  <2>2. none(0)
    BY <2>1 DEF Owes, Dozes, Sleeps, Pushes, One, PopCalls, Clears, Aborts
  <2> QED BY <1>1, <2>1, <2>2
<1>4. CASE ClearEnd(t) \/ Aborted(t) \/ RemoveFoundEmpty(t)
  <2>1. /\ \/ pc[t] = "clear_ret" /\ pc'[t] = "abort_reading"
           \/ pc[t] = "ret" /\ result[t] = "end" /\ pc'[t] = "post_pushers"
           \/ pc[t] = "ret" /\ op[t] = "removeAll" /\ pc'[t] = "count_pushers"
        /\ UNCHANGED <<d_pushControlSema, d_pushIndex, count>>
    BY <1>0, <1>4 DEF ClearEnd, Aborted, RemoveFoundEmpty, Goto, sharedVars, queueVars, waitVars,
       callVars
  <2>2. none(Owes(t))
    BY <2>1 DEF Owes, Dozes, Sleeps, Pushes, One, PopCalls, Clears, Aborts
  <2> QED BY <1>0, <1>1, <2>1, <2>2
<1>5. CASE CheckPushers(t) /\ d_numWaitingPushers # 0
  <2>1. /\ pc[t] = "check_pushers" /\ pc'[t] = "post_pusher"
        /\ UNCHANGED <<d_pushControlSema, d_pushIndex>>
    BY <1>0, <1>5 DEF CheckPushers, Goto, sharedVars, queueVars, waitVars
  <2>2. none(1)
    BY <2>1 DEF Owes, Dozes, Sleeps, Pushes, One
  <2> QED BY <1>1, <2>1, <2>2
<1>6. CASE CheckPushers(t) /\ d_numWaitingPushers = 0
  <2>1. pc'[t] = "idle" /\ d_numWaitingPushers' = 0
    BY <1>0, <1>6 DEF CheckPushers, Finish, Goto, queueVars, waitVars
  <2>2. Owes(t)' = 0
    BY <2>1 DEF Owes, PopCalls, Clears, Aborts
  <2> QED BY <2>1, <2>2
<1>7. CASE PostPusher(t)
  <2>1. /\ pc[t] = "post_pusher" /\ pc'[t] = "idle" /\ UNCHANGED d_pushIndex
        /\ d_pushControlSema' = d_pushControlSema + 1
    BY <1>0, <1>7 DEF PostPusher, Finish, Goto, sharedVars
  <2>2. /\ Owes(t)' = 0 /\ Owes(t) = 1 /\ Dozes(t)' = 0 /\ Dozes(t) = 0
        /\ Sleeps(t)' = 0 /\ Sleeps(t) = 0 /\ Pushes(t)' = 0 /\ Pushes(t) = 0
    BY <2>1 DEF Owes, Dozes, Sleeps, Pushes, One, PopCalls, Clears, Aborts
  <2> QED BY <1>0, <2>1, <2>2 DEF PushStep
<1>8. CASE EnterWait(t) \/ LengthLoadPush(t) \/ RemoveLoadPush(t)
  <2>1. /\ \/ pc[t] = "ret" /\ op[t] # "removeAll" /\ result[t] # "end" /\ pc'[t] = "length_push"
           \/ pc[t] = "length_push" /\ pc'[t] = "length_pop"
           \/ pc[t] = "remove_push" /\ pc'[t] = "remove_pop"
        /\ UNCHANGED <<d_pushControlSema, d_pushIndex>>
    BY <1>0, <1>8 DEF EnterWait, LengthLoadPush, RemoveLoadPush, Goto, sharedVars, queueVars,
       waitVars, Blocking
  <2>2. none(0)
    BY <2>1 DEF Owes, Dozes, Sleeps, Pushes, One, PopCalls, Clears, Aborts
  <2> QED BY <1>1, <2>1, <2>2
<1>9. CASE LengthLoadPop(t) /\ ~(op[t] = "pushBack" /\ Capacity <= lengthOf(loaded[t], d_popIndex))
  <2>1. /\ pc[t] = "length_pop" /\ UNCHANGED <<d_pushControlSema, d_pushIndex, op>>
        /\ \/ pc'[t] = "wait" /\ op[t] = "popFront"
           \/ pc'[t] = "leave_wait"
    BY <1>0, <1>9 DEF LengthLoadPop, Goto, sharedVars, queueVars, waitVars, callVars
  <2>2. /\ Owes(t)' = 0 /\ Owes(t) = 0 /\ Dozes(t)' = 0 /\ Dozes(t) = 0
        /\ Sleeps(t)' = 0 /\ Sleeps(t) = 0 /\ Pushes(t)' \in {0, 1} /\ Pushes(t) = 0
    BY <2>1 DEF Owes, Dozes, Sleeps, Pushes, One, PopCalls, Clears, Aborts
  <2> QED BY <1>0, <2>1, <2>2, EasyPush
<1>10. CASE CheckEnabled(t)
  <2>1. /\ pc[t] = "check_enabled" /\ UNCHANGED <<d_pushControlSema, d_pushIndex, op>>
        /\ \/ pc'[t] = "wait" /\ ~d_pushIndex.disabled
           \/ pc'[t] = "leave_wait" /\ d_pushIndex.disabled
    BY <1>0, <1>10 DEF CheckEnabled, Goto, sharedVars, queueVars, waitVars, callVars
  <2>2. /\ Owes(t)' = 0 /\ Owes(t) = 0 /\ Dozes(t)' <= Dozes(t)
        /\ d_pushIndex.disabled => Sleeps(t)' <= Sleeps(t)
        /\ ~d_pushIndex.disabled => Pushes(t) <= Pushes(t)'
    BY <2>1 DEF Owes, Dozes, Sleeps, Pushes, One, PopCalls, Clears, Aborts
  <2> QED BY <1>0, <2>1, <2>2, EasyPush
<1>11. CASE Wait(t)
  <2>1. /\ pc[t] = "wait" /\ pc'[t] = "leave_wait" /\ UNCHANGED <<d_pushIndex, op>>
        /\ op[t] \in Blocking
        /\ \/ op[t] = "pushBack" /\ d_pushControlSema' = d_pushControlSema - 1
           \/ op[t] = "popFront" /\ UNCHANGED d_pushControlSema
    BY <1>0, <1>11 DEF Wait, Goto, sharedVars, callVars, CallRight, Waits, Blocking, Pushing
  <2>2. /\ Owes(t)' = 0 /\ Owes(t) = 0 /\ Dozes(t)' = 0 /\ Dozes(t) = One(op[t] = "pushBack")
        /\ Sleeps(t)' = 0 /\ Sleeps(t) = One(op[t] = "pushBack")
        /\ Pushes(t)' = One(op[t] = "pushBack") /\ Pushes(t) = 0
    BY <2>1 DEF Owes, Dozes, Sleeps, Pushes, One, PopCalls, Clears, Aborts
  <2> QED BY <1>0, <2>1, <2>2 DEF PushStep, One
<1>12. CASE LeaveWait(t)
  <2>1. /\ pc[t] = "leave_wait" /\ UNCHANGED <<d_pushIndex, d_pushControlSema, op>>
        /\ \/ op[t] = "pushBack" /\ pc'[t] = "push_load"
           \/ op[t] = "popFront" /\ pc'[t] = "pop_load"
    BY <1>0, <1>12 DEF LeaveWait, Goto, sharedVars, callVars, CallRight, Waits, Blocking, Pushing,
       Popping, Entry
  <2>2. /\ Owes(t)' = 0 /\ Owes(t) = 0 /\ Dozes(t)' = 0 /\ Dozes(t) = 0
        /\ Sleeps(t)' = 0 /\ Sleeps(t) = 0 /\ Pushes(t)' = Pushes(t) /\ Pushes(t) \in {0, 1}
    BY <2>1 DEF Owes, Dozes, Sleeps, Pushes, One, PopCalls, Clears, Aborts
  <2> QED BY <1>0, <2>1, <2>2, EasyPush
<1>13. CASE RemoveLoadPop(t)
  <2>1. /\ pc[t] = "remove_pop" /\ UNCHANGED <<d_pushIndex, d_pushControlSema>>
        /\ pc'[t] \in {"pop_load", "count_pushers"} /\ count'[t] = 1
    BY <1>0, <1>13 DEF RemoveLoadPop, RemoveNext, Goto, sharedVars, queueVars, waitVars
  <2>2. /\ Owes(t)' \in {0, 1} /\ Owes(t) = 0 /\ Dozes(t)' = 0 /\ Dozes(t) = 0
        /\ Sleeps(t)' = 0 /\ Sleeps(t) = 0 /\ Pushes(t)' = 0 /\ Pushes(t) = 0
    BY <2>1 DEF Owes, Dozes, Sleeps, Pushes, One, PopCalls, Clears, Aborts
  <2> QED BY <1>0, <2>1, <2>2, EasyPush
<1>14. CASE RemoveCountPushers(t)
  <2>1. /\ pc[t] = "count_pushers" /\ pc'[t] = "post_pushers"
        /\ UNCHANGED <<d_pushIndex, d_pushControlSema, d_numWaitingPushers>>
        /\ count'[t] = IF count[t] < d_numWaitingPushers THEN count[t] ELSE d_numWaitingPushers
    BY <1>0, <1>14 DEF RemoveCountPushers, Goto, sharedVars, queueVars, waitVars
  <2>2. /\ Owes(t)' = count'[t] /\ Owes(t) = count[t] /\ Dozes(t)' = 0 /\ Dozes(t) = 0
        /\ Sleeps(t)' = 0 /\ Sleeps(t) = 0 /\ Pushes(t)' = 0 /\ Pushes(t) = 0
    BY <2>1 DEF Owes, Dozes, Sleeps, Pushes, One
  <2>3. CASE count[t] < d_numWaitingPushers
    <3>1. none(count[t])
      BY <2>1, <2>2, <2>3
    <3> QED BY <1>0, <1>1, <2>1, <3>1
  <2> QED BY <1>0, <2>1, <2>2, <2>3
<1>15. CASE PostPushers(t)
  <2>1. CASE count[t] = 0
    <3>1. /\ pc[t] = "post_pushers" /\ pc'[t] = "idle"
          /\ UNCHANGED <<d_pushIndex, d_pushControlSema>>
      BY <1>0, <1>15, <2>1 DEF PostPushers, Finish, Goto, sharedVars
    <3>2. none(0)
      BY <2>1, <3>1 DEF Owes, Dozes, Sleeps, Pushes, One, PopCalls, Clears, Aborts
    <3> QED BY <1>1, <3>1, <3>2
  <2>2. CASE count[t] > 0
    <3>1. /\ pc[t] = "post_pushers" /\ pc'[t] = "post_pushers" /\ UNCHANGED d_pushIndex
          /\ d_pushControlSema' = d_pushControlSema + 1 /\ count'[t] = count[t] - 1
      BY <1>0, <1>15, <2>2 DEF PostPushers, Finish, Goto, sharedVars
    <3>2. /\ Owes(t)' = count'[t] /\ Owes(t) = count[t] /\ Dozes(t)' = 0 /\ Dozes(t) = 0
          /\ Sleeps(t)' = 0 /\ Sleeps(t) = 0 /\ Pushes(t)' = 0 /\ Pushes(t) = 0
      BY <3>1 DEF Owes, Dozes, Sleeps, Pushes, One
    <3> QED BY <1>0, <3>1, <3>2 DEF PushStep
  <2> QED BY <1>0, <2>1, <2>2
<1>16. CASE DisableCountPushers(t)
  <2>1. pc'[t] = "post_pushers" /\ count'[t] = d_numWaitingPushers /\ UNCHANGED d_numWaitingPushers
    BY <1>0, <1>16 DEF DisableCountPushers, Goto, queueVars, waitVars
  <2>2. Owes(t)' = count'[t]
    BY <2>1 DEF Owes
  <2> QED BY <1>0, <2>1, <2>2
<1>17. ASSUME NEW o \in AllCalls, Call(t, o) PROVE PushStep(t, 0)
  <2>1. /\ pc[t] = "idle" /\ UNCHANGED <<d_pushIndex, d_pushControlSema>>
        /\ \/ pc'[t] = "push_load"
           \/ pc'[t] = "pop_load" /\ op'[t] # "removeAll"
           \/ pc'[t] = "remove_push"
    BY <1>0, <1>17 DEF Call, Goto, Entry, sharedVars, queueVars, waitVars, AllCalls, Pushing, Popping
  <2>2. /\ Owes(t)' = 0 /\ Owes(t) = 0 /\ Dozes(t)' = 0 /\ Dozes(t) = 0
        /\ Sleeps(t)' = 0 /\ Sleeps(t) = 0 /\ Pushes(t)' \in {0, 1} /\ Pushes(t) = 0
    BY <2>1 DEF Owes, Dozes, Sleeps, Pushes, One, PopCalls, Clears, Aborts
  <2> QED BY <1>0, <2>1, <2>2, EasyPush
<1> QED BY <1>2, <1>3, <1>4, <1>5, <1>6, <1>7, <1>8, <1>9, <1>10, <1>11, <1>12, <1>13, <1>14, <1>15,
           <1>16, <1>17 DEF OtherStep, block, ClientCall

\* To enable the queue: what the sleepers have in tokens they keep.
LEMMA EnablePush ==
    ASSUME Types, PushAwake, NEW t \in Thread, enable(t), CountRight
    PROVE  PushAwake'
<1>1. /\ UNCHANGED <<pc, op, count, result, d_states, d_pushControlSema>>
      /\ d_pushIndex'.disabled = FALSE
  BY DEF enable, threadVars, queueVars, waitVars, Types, ManagerTypeOK, SetDisabled
<1>2. /\ Pushers' = Pushers /\ Dozers' = Dozers /\ Free' = Free
  BY <1>1 DEF Pushers, Dozers, Free
<1>3. PushTokens' = PushTokens
  <2>1. \A u \in Thread : Owes(u)' = Owes(u)
    BY <1>1 DEF Owes
  <2>2. [u \in Thread |-> Owes(u)]' = [u \in Thread |-> Owes(u)]
    BY <2>1
  <2> QED BY <1>1, <2>2 DEF PushTokens, SumOf
<1>4. /\ Cardinality(Sleepers("pushBack")) \in Nat /\ Cardinality(Free) \in Nat
      /\ Cardinality(Pushers) \in Nat
  <2>1. Sleepers("pushBack") \in SUBSET Thread /\ Free \in SUBSET Slot /\ Pushers \in SUBSET Thread
    BY DEF Sleepers, Free, Pushers
  <2> QED BY <2>1, SlotsFinite, Constants, SetNone
<1>5. PushTokens \in Nat
  <2> DEFINE f == [u \in Thread |-> Owes(u)]
  <2>1. f \in [Thread -> Nat] /\ d_pushControlSema \in Nat
    BY OwesType DEF Types
  <2> HIDE DEF f
  <2>2. SumOf(f) \in Nat
    BY <2>1, SumChange
  <2> QED BY <2>1, <2>2 DEF f, PushTokens
<1>6. CASE \E u \in Thread : pc[u] = "disabled"
  BY <1>1, <1>6 DEF PushAwake
<1>7. CASE Cardinality(Dozers) <= PushTokens
  BY <1>2, <1>3, <1>7 DEF PushAwake
<1>8. CASE Cardinality(Free) + Cardinality(Sleepers("pushBack")) <= PushTokens
  <2>1. Cardinality(Free) <= PushTokens + Cardinality(Pushers)
    BY <1>4, <1>5, <1>8
  <2> QED BY <1>1, <1>2, <1>3, <2>1 DEF PushAwake
<1>9. CASE Cardinality(Free) <= PushTokens + Cardinality(Pushers)
  BY <1>1, <1>2, <1>3, <1>9 DEF PushAwake
<1> QED BY <1>6, <1>7, <1>8, <1>9 DEF PushAwake

\* A step that changes no state.
LEMMA FreeSame ==
    ASSUME d_states' = d_states
    PROVE  /\ Cardinality(Free) \in Nat /\ Cardinality(Free)' = Cardinality(Free) + 0
<1>1. \A j \in Slot : d_states'[j].st = "EMPTY" <=> d_states[j].st = "EMPTY"
  OBVIOUS
<1> QED BY <1>1, FreeChange

\* A step that changes the state of one element.
LEMMA FreeSwaps ==
    ASSUME NEW i \in Slot, NEW x, NEW y, d_states[i].st = x, d_states'[i].st = y,
           \A j \in Slot \ {i} : d_states'[j] = d_states[j]
    PROVE  Cardinality(Free)' = Cardinality(Free) + (One(y = "EMPTY") - One(x = "EMPTY"))
<1>1. One(y = "EMPTY") - One(x = "EMPTY") \in Int
  BY DEF One
<1> QED BY <1>1, FreeChange

\* Each change of the state of an element.
SwapOf(t, x, y) ==
    \E i \in Slot :
        /\ d_states[i].st = x /\ d_states'[i].st = y
        /\ \A j \in Slot \ {i} : d_states'[j] = d_states[j]

LEMMA SwapsStates ==
    ASSUME TwoGenerations, RingInv, SafeInv', Timely', NEW t \in Thread,
           NEW h \in Nat, NEW q \in Nat, NEW e \in [Slot -> Nat], Ring(h, q, e)
    PROVE  /\ ReservePushAcquire(t) => SwapOf(t, "EMPTY", "WRITING")
           /\ ReservePopAcquire(t) => SwapOf(t, "FULL", "READING")
           /\ ReserveClearSwap(t) /\ Holds(loaded[t], "FULL") => SwapOf(t, "FULL", "READING")
           /\ ManagerCall(t) /\ AbortReading(t) => SwapOf(t, "WRITING", "READING")
           /\ ConstructAndCommit(t) => SwapOf(t, "WRITING", "FULL")
           /\ \A c : Empties(t, c) => SwapOf(t, "READING", "EMPTY")
<1>0. /\ SafeInv /\ loaded[t] \in Combined /\ index(loaded[t]) \in Slot
      /\ d_states \in [Slot -> [gen : Gen, st : State]]
  <2>1. SafeInv /\ loaded[t] \in Combined /\ d_states \in [Slot -> [gen : Gen, st : State]]
    BY RightOf DEF Types, ManagerTypeOK
  <2> QED BY <2>1, IndexTypes
<1>a. ASSUME NEW c, index(c) \in Slot, NEW g, NEW x, NEW y,
             d_states[index(c)].st = x, SetState(c, g, y)
      PROVE  SwapOf(t, x, y)
  <2>1. /\ d_states'[index(c)].st = y
        /\ \A j \in Slot \ {index(c)} : d_states'[j] = d_states[j]
    BY <1>0, <1>a DEF SetState
  <2> QED BY <1>a, <2>1 DEF SwapOf
<1>1. ReservePushAcquire(t) => SwapOf(t, "EMPTY", "WRITING")
  BY <1>0, <1>a DEF ReservePushAcquire, Holds
<1>2. ReservePopAcquire(t) => SwapOf(t, "FULL", "READING")
  BY <1>0, <1>a DEF ReservePopAcquire, Holds
<1>3. ReserveClearSwap(t) /\ Holds(loaded[t], "FULL") => SwapOf(t, "FULL", "READING")
  BY <1>0, <1>a DEF ReserveClearSwap, Holds, was
<1>4. ManagerCall(t) /\ AbortReading(t) => SwapOf(t, "WRITING", "READING")
  <2> SUFFICES ASSUME ManagerCall(t), AbortReading(t) PROVE SwapOf(t, "WRITING", "READING")
    OBVIOUS
  <2>1. SameOthers(t) /\ UNCHANGED callVars
    BY <1>0, ManagerOthers
  <2>2. index(own[t]) \in Slot /\ d_states[index(own[t])].st = "WRITING"
    BY <2>1, AbortReadingRing
  <2> QED BY <1>a, <2>2 DEF AbortReading
<1>5. ConstructAndCommit(t) => SwapOf(t, "WRITING", "FULL")
  <2> SUFFICES ASSUME ConstructAndCommit(t) PROVE SwapOf(t, "WRITING", "FULL")
    OBVIOUS
  <2>1. index(own[t]) \in Slot /\ d_states[index(own[t])].st = "WRITING"
    BY <1>0, ConstructOthers, ConstructRing
  <2> QED BY <1>a, <2>1 DEF ConstructAndCommit, StoreFull
<1>6. ASSUME NEW c, Empties(t, c) PROVE SwapOf(t, "READING", "EMPTY")
  <2>1. /\ index(c) \in Slot /\ d_states[index(c)].st = "READING" /\ d_states'[index(c)].st = "EMPTY"
        /\ \A j \in Slot \ {index(c)} : d_states'[j] = d_states[j]
    BY <1>6, EmptiesRing
  <2> QED BY <2>1 DEF SwapOf
<1> QED BY <1>1, <1>2, <1>3, <1>4, <1>5, <1>6

\* A step that changes the state of one element, for the pushers.
LEMMA PushAwakeSwap ==
    ASSUME Types, Types', CountRight, CountRight', PushAwake, NEW t \in Thread, OthersStay(t),
           NEW x, NEW y, SwapOf(t, x, y), NEW n \in Int,
           n = One(y = "EMPTY") - One(x = "EMPTY"), PushStep(t, n)
    PROVE  PushAwake'
<1>1. Cardinality(Free)' = Cardinality(Free) + n
  BY FreeSwaps DEF SwapOf
<1> QED BY <1>1, PushKept

\* Every step, for the pushers.
LEMMA PushNext ==
    ASSUME TwoGenerations, RingInv, SafeInv', Timely', TimelyLooks, CountRight, PushAwake,
           NEW t \in Thread, ThreadStep(t) \/ ClientCall(t),
           NEW h \in Nat, NEW q \in Nat, NEW e \in [Slot -> Nat], Ring(h, q, e), LooksRight(q)
    PROVE  CountRight' /\ PushAwake'
<1>1. /\ SafeInv /\ Types /\ Types' /\ CountRight' /\ OthersStay(t) /\ WaitersCounted'
      /\ CallRight(t) /\ pc \in [Thread -> QueuePC] /\ result \in [Thread -> Result]
  BY CountKept, OthersStayPut DEF RingInv, SafeInv, Types, ManagerTypeOK, ThreadsRight
<1>2. CASE PushStep(t, 0) /\ d_states' = d_states
  BY <1>1, <1>2, FreeSame, PushKept
<1>3. CASE ManagerCall(t) /\ ReservePushBehind(t) /\ pc'[t] = "ret"
  <2>1. /\ pc[t] = "push_swap" /\ PushSeesPrevious(t) /\ was(loaded[t]).st # "READING"
        /\ result'[t] = "full" /\ op[t] \in Pushing
        /\ UNCHANGED <<d_states, d_pushIndex, d_pushControlSema, op>>
    BY <1>1, <1>3 DEF ReservePushBehind, Goto, Return, sharedVars, ManagerCall, queueVars,
       waitVars, callVars, CallRight, PushCalls
  <2>2. Free = {}
    BY <2>1, FullIsFull
  <2>3. Owes(t)' = Owes(t) /\ Sleeps(t)' = Sleeps(t) /\ pc[t] # "disabled"
    BY <1>3, <2>1 DEF Owes, Sleeps, PopCalls, Clears, Aborts, Pushing
  <2> QED BY <1>1, <2>1, <2>2, <2>3, PushNoneFree
<1>4. CASE LengthLoadPop(t) /\ op[t] = "pushBack" /\ Capacity <= lengthOf(loaded[t], d_popIndex)
  <2>1. /\ pc[t] = "length_pop" /\ pc'[t] \in {"check_enabled", "wait", "leave_wait"}
        /\ UNCHANGED <<d_states, d_pushIndex, d_pushControlSema, op>>
        /\ pc'[t] = "wait" => op[t] = "popFront"
    BY <1>1, <1>4 DEF LengthLoadPop, Goto, sharedVars, queueVars, waitVars, callVars
  <2>2. PICK p \in Nat : Near(t, p, q)
    BY <2>1 DEF LooksRight
  <2>3. Free = {}
    BY <1>4, <2>2, LookSays
  <2>4. Owes(t)' = Owes(t) /\ Sleeps(t)' = Sleeps(t) /\ pc[t] # "disabled"
    BY <2>1 DEF Owes, Sleeps, PopCalls, Clears, Aborts
  <2> QED BY <1>1, <2>1, <2>3, <2>4, PushNoneFree
<1>5. CASE disable(t)
  <2>1. pc'[t] = "disabled"
    BY <1>1, <1>5 DEF disable, Goto
  <2> QED BY <1>1, <2>1 DEF PushAwake
<1>6. CASE d_numWaitingPushers' <= Owes(t)'
  BY <1>1, <1>6, PushAllOwed
<1>7. CASE OtherStep(t)
  <2>1. d_states' = d_states
    BY <1>7, OnwardSteps
  <2> QED BY <1>1, <1>2, <1>4, <1>5, <1>6, <1>7, <2>1, OthersPush, EnablePush
<1>8. CASE ManagerCall(t) /\ ReadsOrMoves(t)
  <2>1. d_states' = d_states
    BY <1>8, OnwardSteps
  <2> QED BY <1>1, <1>2, <1>3, <1>8, <2>1, MovesPush
<1>9. ASSUME NEW x, NEW y, SwapOf(t, x, y), NEW n \in Int,
             n = One(y = "EMPTY") - One(x = "EMPTY"), PushStep(t, n)
      PROVE  CountRight' /\ PushAwake'
  BY <1>1, <1>9, PushAwakeSwap
<1>10. ASSUME NEW c, Empties(t, c) PROVE CountRight' /\ PushAwake'
  <2>1. SwapOf(t, "READING", "EMPTY") /\ PushStep(t, 1)
    BY <1>1, <1>10, SwapsStates, SwapsPush
  <2>2. 1 = One("EMPTY" = "EMPTY") - One("READING" = "EMPTY") /\ 1 \in Int
    BY DEF One
  <2> QED BY <1>9, <2>1, <2>2
<1>11. CASE ConstructAndCommit(t)
  <2>1. SwapOf(t, "WRITING", "FULL") /\ PushStep(t, 0)
    BY <1>1, <1>11, SwapsStates, SwapsPush
  <2>2. 0 = One("FULL" = "EMPTY") - One("WRITING" = "EMPTY") /\ 0 \in Int
    BY DEF One
  <2> QED BY <1>9, <2>1, <2>2
<1>12. CASE ManagerCall(t) /\ ReservePushAcquire(t)
  <2>1. SwapOf(t, "EMPTY", "WRITING") /\ PushStep(t, -1)
    BY <1>1, <1>12, SwapsStates, SwapsPush
  <2>2. -1 = One("WRITING" = "EMPTY") - One("EMPTY" = "EMPTY") /\ -1 \in Int
    BY DEF One
  <2> QED BY <1>9, <2>1, <2>2
<1>13. CASE ManagerCall(t) /\ (ReservePopAcquire(t) \/ (ReserveClearSwap(t) /\ Holds(loaded[t], "FULL")))
  <2>1. SwapOf(t, "FULL", "READING") /\ PushStep(t, 0)
    BY <1>1, <1>13, SwapsStates, SwapsPush
  <2>2. 0 = One("READING" = "EMPTY") - One("FULL" = "EMPTY") /\ 0 \in Int
    BY DEF One
  <2> QED BY <1>9, <2>1, <2>2
<1>14. CASE ManagerCall(t) /\ AbortReading(t)
  <2>1. SwapOf(t, "WRITING", "READING") /\ PushStep(t, 0)
    BY <1>1, <1>14, SwapsStates, SwapsPush
  <2>2. 0 = One("READING" = "EMPTY") - One("WRITING" = "EMPTY") /\ 0 \in Int
    BY DEF One
  <2> QED BY <1>9, <2>1, <2>2
<1>15. CASE ManagerCall(t)
  BY <1>8, <1>10, <1>12, <1>13, <1>14, <1>15, ManagerCases DEF Empties
<1>16. CASE TakeAndCommit(t) \/ RemoveElement(t) \/ ClearElement(t)
  BY <1>10, <1>16 DEF Empties
<1> QED BY <1>7, <1>11, <1>15, <1>16, StepCases

-----------------------------------------------------------------------------
(* The poppers *)

\* What thread t counts for in the sets of poppers.
Tells(t) == One(pc[t] \in {"check_poppers", "post_popper"})
Pops(t)  == One(\/ pc[t] \in {"pop_load", "pop_swap", "pop_help"}
                \/ pc[t] = "leave_wait" /\ op[t] = "popFront")
Naps(t)  == One(pc[t] = "wait" /\ op[t] = "popFront")

\* A step of thread t, which makes n more elements full, leaves a token for whoever
\* needs it.
PopStep(t, n) ==
    LET k == (d_popControlSema' + Tells(t)') - (d_popControlSema + Tells(t))
    IN  /\ n <= k + Pops(t)' - Pops(t)
        /\ Naps(t)' - Naps(t) <= k
        /\ n + Naps(t)' - Naps(t) <= k
        /\ t \notin Lookers'

\* The counts of poppers change with thread t alone.
LEMMA PoppersChange ==
    ASSUME NEW t \in Thread, OthersStay(t), d_popControlSema \in Nat, d_popControlSema' \in Nat
    PROVE  /\ Cardinality(Poppers) \in Nat /\ Cardinality(Sleepers("popFront")) \in Nat
           /\ PopTokens \in Nat
           /\ Cardinality(Poppers)' \in Nat /\ Cardinality(Sleepers("popFront"))' \in Nat
           /\ PopTokens' \in Nat
           /\ Cardinality(Poppers)' = Cardinality(Poppers) + Pops(t)' - Pops(t)
           /\ Cardinality(Sleepers("popFront"))'
                = Cardinality(Sleepers("popFront")) + Naps(t)' - Naps(t)
           /\ PopTokens' = PopTokens
                + ((d_popControlSema' + Tells(t)') - (d_popControlSema + Tells(t)))
<1>0. IsFiniteSet(Thread)
  BY Constants
<1>1. \A u \in Thread \ {t} : pc'[u] = pc[u] /\ op'[u] = op[u]
  BY DEF OthersStay, SameOthers
<1>2. /\ Cardinality(Poppers) \in Nat /\ Cardinality(Poppers)' \in Nat
      /\ Cardinality(Poppers)' = Cardinality(Poppers) + Pops(t)' - Pops(t)
  <2>1. PICK A \in SUBSET Thread, B \in SUBSET Thread : A = Poppers /\ B = Poppers'
    BY DEF Poppers
  <2>2. /\ A \ {t} = B \ {t}
        /\ Pops(t) = One(t \in A) /\ Pops(t)' = One(t \in B)
    BY <1>1, <2>1 DEF Poppers, Pops, One
  <2>3. /\ Cardinality(A) \in Nat /\ Cardinality(B) \in Nat
        /\ Cardinality(B) = Cardinality(A) + One(t \in B) - One(t \in A)
    BY <1>0, <2>2, SetChange DEF One
  <2> QED BY <2>1, <2>2, <2>3
<1>3. /\ Cardinality(Sleepers("popFront")) \in Nat /\ Cardinality(Sleepers("popFront"))' \in Nat
      /\ Cardinality(Sleepers("popFront"))'
           = Cardinality(Sleepers("popFront")) + Naps(t)' - Naps(t)
  <2>1. PICK A \in SUBSET Thread, B \in SUBSET Thread :
           A = Sleepers("popFront") /\ B = Sleepers("popFront")'
    BY DEF Sleepers
  <2>2. /\ A \ {t} = B \ {t}
        /\ Naps(t) = One(t \in A) /\ Naps(t)' = One(t \in B)
    BY <1>1, <2>1 DEF Sleepers, Naps, One
  <2>3. /\ Cardinality(A) \in Nat /\ Cardinality(B) \in Nat
        /\ Cardinality(B) = Cardinality(A) + One(t \in B) - One(t \in A)
    BY <1>0, <2>2, SetChange DEF One
  <2> QED BY <2>1, <2>2, <2>3
<1>4. /\ PopTokens \in Nat /\ PopTokens' \in Nat
      /\ PopTokens' = PopTokens
           + ((d_popControlSema' + Tells(t)') - (d_popControlSema + Tells(t)))
  <2>1. PICK A \in SUBSET Thread, B \in SUBSET Thread :
           /\ A = {u \in Thread : pc[u] \in {"check_poppers", "post_popper"}}
           /\ B = {u \in Thread : pc'[u] \in {"check_poppers", "post_popper"}}
    OBVIOUS
  <2>2. /\ A \ {t} = B \ {t}
        /\ Tells(t) = One(t \in A) /\ Tells(t)' = One(t \in B)
    BY <1>1, <2>1 DEF Tells, One
  <2>3. /\ Cardinality(A) \in Nat /\ Cardinality(B) \in Nat
        /\ Cardinality(B) = Cardinality(A) + One(t \in B) - One(t \in A)
    BY <1>0, <2>2, SetChange DEF One
  <2>4. PopTokens = d_popControlSema + Cardinality(A) /\ PopTokens' = d_popControlSema' + Cardinality(B)
    BY <2>1 DEF PopTokens
  <2>5. One(t \in A) \in Int /\ One(t \in B) \in Int
    BY DEF One
  <2> QED BY <2>2, <2>3, <2>4, <2>5
<1> QED BY <1>2, <1>3, <1>4

\* How many more elements are full, and how many of them from position p on.
FullGrows(e, f, n) ==
    /\ Cardinality(Full) \in Nat
    /\ Cardinality(Full)' = Cardinality(Full) + n
    /\ \A p \in Nat : /\ Cardinality(After(p, e)) \in Nat /\ Cardinality(After(p, f))' \in Nat
                      /\ \/ Cardinality(After(p, f))' <= Cardinality(After(p, e))
                         \/ Cardinality(After(p, f))' <= Cardinality(After(p, e)) + n

\* A step that makes no element full, and none not full.
LEMMA FullSame ==
    ASSUME d_states' = d_states, NEW e
    PROVE  FullGrows(e, e, 0)
<1>1. PICK A \in SUBSET Slot : A = Full
  BY DEF Full
<1>2. Full' = A
  BY <1>1 DEF Full
<1>3. Cardinality(A) \in Nat
  BY SlotsFinite, SetNone
<1>4. ASSUME NEW p \in Nat
      PROVE  /\ Cardinality(After(p, e)) \in Nat
             /\ Cardinality(After(p, e))' = Cardinality(After(p, e))
  <2>1. PICK B \in SUBSET Slot : B = After(p, e)
    BY DEF After, Full
  <2>2. After(p, e)' = B
    BY <2>1 DEF After, Full
  <2>3. Cardinality(B) \in Nat
    BY SlotsFinite, SetNone
  <2> QED BY <2>1, <2>2, <2>3
<1> QED BY <1>1, <1>2, <1>3, <1>4 DEF FullGrows

\* A step that changes the state of element i, and its position if it is not full.
LEMMA FullSwaps ==
    ASSUME NEW i \in Slot, NEW x, NEW y, d_states[i].st = x, d_states'[i].st = y,
           \A j \in Slot \ {i} : d_states'[j] = d_states[j],
           x # "FULL" \/ y # "FULL", NEW e, NEW f,
           \A j \in Slot \ {i} : f[j] = e[j],
           NEW n \in Int, n = One(y = "FULL") - One(x = "FULL")
    PROVE  FullGrows(e, f, n)
<1>0. IsFiniteSet(Slot)
  BY SlotsFinite
<1>1. /\ Cardinality(Full) \in Nat /\ Cardinality(Full)' = Cardinality(Full) + n
  <2>1. PICK A \in SUBSET Slot, B \in SUBSET Slot : A = Full /\ B = Full'
    BY DEF Full
  <2>2. A \ {i} = B \ {i} /\ n = One(i \in B) - One(i \in A)
    BY <2>1 DEF Full, One
  <2>3. /\ Cardinality(A) \in Nat /\ Cardinality(B) \in Nat
        /\ Cardinality(B) = Cardinality(A) + One(i \in B) - One(i \in A)
    BY <1>0, <2>2, SetChange DEF One
  <2> QED BY <2>1, <2>2, <2>3 DEF One
<1>2. ASSUME NEW p \in Nat
      PROVE  /\ Cardinality(After(p, e)) \in Nat /\ Cardinality(After(p, f))' \in Nat
             /\ \/ Cardinality(After(p, f))' <= Cardinality(After(p, e))
                \/ Cardinality(After(p, f))' <= Cardinality(After(p, e)) + n
  <2>1. PICK A \in SUBSET Slot, B \in SUBSET Slot : A = After(p, e) /\ B = After(p, f)'
    BY DEF After, Full
  <2>2. A \ {i} = B \ {i} /\ (i \in B => n = 1 /\ i \notin A)
    BY <2>1 DEF After, Full, One
  <2>3. /\ Cardinality(A) \in Nat /\ Cardinality(B) \in Nat
        /\ Cardinality(B) = Cardinality(A) + One(i \in B) - One(i \in A)
    BY <1>0, <2>2, SetChange DEF One
  <2>4. Cardinality(B) <= Cardinality(A) \/ Cardinality(B) <= Cardinality(A) + n
    BY <2>2, <2>3 DEF One
  <2> QED BY <2>1, <2>3, <2>4
<1> QED BY <1>1, <1>2 DEF FullGrows

\* The thread's word is still near when d_pushIndex moves.
LooksKept(t, q, r) ==
    \A u \in Thread \ {t} : \A p \in Nat :
        pc[u] = "length_pop" /\ Near(u, p, q) => Near(u, p, r)'

\* A step that makes n more elements full, and leaves a token for whoever needs it.
LEMMA PopKept ==
    ASSUME Types, Types', NEW t \in Thread, OthersStay(t), NEW q, NEW r, NEW e, NEW f, NEW n \in Int,
           PopAwake(q, e), PopStep(t, n), FullGrows(e, f, n), LooksKept(t, q, r)
    PROVE  PopAwake(r, f)'
<1>0. d_popControlSema \in Nat /\ d_popControlSema' \in Nat
  BY DEF Types
<1>1. PICK k, d, s \in Int :
         /\ k = (d_popControlSema' + Tells(t)') - (d_popControlSema + Tells(t))
         /\ d = Pops(t)' - Pops(t) /\ s = Naps(t)' - Naps(t)
  <2>1. /\ Pops(t) \in Int /\ Pops(t)' \in Int /\ Naps(t) \in Int /\ Naps(t)' \in Int
        /\ Tells(t) \in Int /\ Tells(t)' \in Int
    BY DEF Pops, Naps, Tells, One
  <2> QED BY <1>0, <2>1
<1> DEFINE P == Cardinality(Poppers)
           S == Cardinality(Sleepers("popFront"))
           F == Cardinality(Full)
<1>2. /\ P \in Nat /\ S \in Nat /\ PopTokens \in Nat /\ F \in Nat
      /\ P' \in Nat /\ S' \in Nat /\ PopTokens' \in Nat
      /\ P' = P + d /\ S' = S + s /\ PopTokens' = PopTokens + k /\ F' = F + n
  <2>1. Pops(t) \in Int /\ Pops(t)' \in Int /\ Naps(t) \in Int /\ Naps(t)' \in Int
    BY DEF Pops, Naps, One
  <2> QED BY <1>0, <1>1, <2>1, PoppersChange DEF FullGrows
<1>3. n <= k + d /\ s <= k /\ n + s <= k /\ t \notin Lookers'
  <2>1. Pops(t) \in Int /\ Pops(t)' \in Int /\ Naps(t) \in Int /\ Naps(t)' \in Int
    BY DEF Pops, Naps, One
  <2> QED BY <1>1, <2>1 DEF PopStep
<1>4. \/ F <= PopTokens + P
      \/ /\ S <= PopTokens
         /\ \A u \in Lookers : \E p \in Nat :
               Near(u, p, q) /\ Cardinality(After(p, e)) + S <= PopTokens
  BY DEF PopAwake
<1> HIDE DEF P, S, F
<1>5. CASE F <= PopTokens + P
  <2>1. F' <= PopTokens' + P'
    BY <1>2, <1>3, <1>5
  <2> QED BY <2>1 DEF PopAwake, P, F
<1>6. CASE /\ S <= PopTokens
           /\ \A u \in Lookers : \E p \in Nat :
                 Near(u, p, q) /\ Cardinality(After(p, e)) + S <= PopTokens
  <2>1. S' <= PopTokens'
    BY <1>2, <1>3, <1>6
  <2>2. ASSUME NEW u \in Lookers'
        PROVE  \E p \in Nat : Near(u, p, r)' /\ Cardinality(After(p, f))' + S' <= PopTokens'
    <3>1. u \in Thread \ {t} /\ pc[u] = "length_pop" /\ u \in Lookers
      BY <1>3, <2>2 DEF Lookers, OthersStay, SameOthers
    <3>2. PICK p \in Nat : Near(u, p, q) /\ Cardinality(After(p, e)) + S <= PopTokens
      BY <1>6, <3>1
    <3>3. Near(u, p, r)'
      BY <3>1, <3>2 DEF LooksKept
    <3>4. PICK a \in Nat, b \in Nat :
             /\ a = Cardinality(After(p, e)) /\ b = Cardinality(After(p, f))'
             /\ b <= a \/ b <= a + n
      BY DEF FullGrows
    <3>5. b + S' <= PopTokens'
      BY <1>2, <1>3, <3>2, <3>4
    <3> QED BY <3>3, <3>4, <3>5
  <2> QED BY <2>1, <2>2 DEF PopAwake, S
<1> QED BY <1>4, <1>5, <1>6

-----------------------------------------------------------------------------
(* What each step does for the poppers *)

\* The places where a thread counts for the poppers, whatever call it makes.
PopPlaces == {"check_poppers", "post_popper", "pop_load", "pop_swap", "pop_help"}

\* A step between two places where its thread does not.
LEMMA QuietPop ==
    ASSUME Types, NEW t \in Thread, UNCHANGED d_popControlSema,
           \/ pc[t] \notin PopPlaces \cup {"wait", "leave_wait"}
           \/ pc[t] \in {"wait", "leave_wait"} /\ op[t] = "pushBack",
           \/ pc'[t] \notin PopPlaces \cup {"wait", "leave_wait", "length_pop"}
           \/ pc'[t] \in {"wait", "leave_wait", "length_pop"} /\ op'[t] = "pushBack"
    PROVE  PopStep(t, 0)
<1>1. /\ Tells(t) = 0 /\ Tells(t)' = 0 /\ Pops(t) = 0 /\ Pops(t)' = 0
      /\ Naps(t) = 0 /\ Naps(t)' = 0
  BY DEF Tells, Pops, Naps, One, PopPlaces
<1>2. t \notin Lookers'
  BY DEF Lookers, PopPlaces
<1>3. d_popControlSema \in Nat
  BY DEF Types
<1> QED BY <1>1, <1>2, <1>3 DEF PopStep

\* For the poppers, a step of the manager that changes no state.
LEMMA MovesPop ==
    ASSUME SafeInv, NEW t \in Thread, ManagerCall(t), ReadsOrMoves(t)
    PROVE  \/ PopStep(t, 0)
           \/ ReservePopEmpty(t) /\ pc'[t] = "ret"
<1>0. /\ Types /\ CallRight(t) /\ pc \in [Thread -> QueuePC] /\ UNCHANGED <<d_popControlSema, op>>
      /\ d_popControlSema \in Nat
  BY DEF SafeInv, ThreadsRight, Types, ManagerTypeOK, ManagerCall, callVars, queueVars, waitVars
<1>1. CASE \/ ReservePushLoad(t) \/ ReservePushBehind(t) \/ ReservePushTaken(t)
           \/ ReservePushHelp(t) \/ ReservePushAdvance(t)
  <2>1. pc[t] \in PushCalls /\ pc'[t] \in PushCalls \cup {"ret"}
    BY <1>0, <1>1 DEF ReservePushLoad, ReservePushBehind, ReservePushTaken, ReservePushHelp,
       ReservePushAdvance, Goto, Return, PushCalls
  <2> QED BY <1>0, <2>1, QuietPop DEF PushCalls, PopPlaces
<1>2. CASE \/ ReservePopLoad(t) \/ (ReservePopEmpty(t) /\ pc'[t] # "ret") \/ ReservePopRetry(t)
           \/ ReservePopTaken(t) \/ ReservePopHelp(t)
  <2>1. /\ pc[t] \in {"pop_load", "pop_swap", "pop_help"}
        /\ pc'[t] \in {"pop_load", "pop_swap", "pop_help"}
    BY <1>0, <1>2 DEF ReservePopLoad, ReservePopEmpty, ReservePopRetry, ReservePopTaken,
       ReservePopHelp, Goto, Return
  <2>2. /\ Tells(t) = 0 /\ Tells(t)' = 0 /\ Pops(t) = 1 /\ Pops(t)' = 1
        /\ Naps(t) = 0 /\ Naps(t)' = 0 /\ t \notin Lookers'
    BY <2>1 DEF Tells, Pops, Naps, One, Lookers
  <2> QED BY <1>0, <2>2 DEF PopStep
<1>3. CASE ReservePopAdvance(t)
  <2>1. pc[t] = "pop_advance" /\ pc'[t] = "ret"
    BY <1>0, <1>3 DEF ReservePopAdvance, Goto, Return
  <2> QED BY <1>0, <2>1, QuietPop DEF PopPlaces
<1>4. CASE \/ ReserveClearLoad(t) \/ (ReserveClearSwap(t) /\ UNCHANGED d_states)
           \/ ReserveClearHelp(t) \/ ReserveClearAdvance(t) \/ AbortAdvance(t)
  <2>1. pc[t] \in Clears \cup Aborts /\ pc'[t] \in Clears \cup Aborts
    BY <1>0, <1>4 DEF ReserveClearLoad, ReserveClearSwap, ReserveClearHelp,
       ReserveClearAdvance, AbortAdvance, Goto, Return, Clears, Aborts
  <2> QED BY <1>0, <2>1, QuietPop DEF Clears, Aborts, PopPlaces
<1> QED BY <1>1, <1>2, <1>3, <1>4 DEF ReadsOrMoves

LEMMA SwapsPop ==
    ASSUME SafeInv, NEW t \in Thread
    PROVE  /\ ManagerCall(t) /\ ReservePushAcquire(t) => PopStep(t, 0)
           /\ ManagerCall(t) /\ ReservePopAcquire(t) => PopStep(t, -1)
           /\ ManagerCall(t) /\ ReserveClearSwap(t) => PopStep(t, -1)
           /\ ManagerCall(t) /\ AbortReading(t) => PopStep(t, 0)
           /\ ConstructAndCommit(t) => PopStep(t, 1)
           /\ \A c : Empties(t, c) => PopStep(t, 0)
<1>0. /\ Types /\ pc \in [Thread -> QueuePC] /\ d_popControlSema \in Nat
  BY DEF SafeInv, Types
<1>a. ManagerCall(t) => UNCHANGED <<d_popControlSema, op>>
  BY DEF ManagerCall, callVars, queueVars, waitVars
<1>1. ASSUME ManagerCall(t), ReservePushAcquire(t) PROVE PopStep(t, 0)
  <2>1. pc[t] = "push_swap" /\ pc'[t] = "push_advance"
    BY <1>0, <1>1 DEF ReservePushAcquire, Goto
  <2> QED BY <1>0, <1>a, <1>1, <2>1, QuietPop DEF PopPlaces
<1>2. ASSUME ManagerCall(t), ReservePopAcquire(t) PROVE PopStep(t, -1)
  <2>1. pc[t] = "pop_swap" /\ pc'[t] = "pop_advance"
    BY <1>0, <1>2 DEF ReservePopAcquire, Goto
  <2>2. /\ Tells(t) = 0 /\ Tells(t)' = 0 /\ Pops(t) = 1 /\ Pops(t)' = 0
        /\ Naps(t) = 0 /\ Naps(t)' = 0 /\ t \notin Lookers'
    BY <2>1 DEF Tells, Pops, Naps, One, Lookers
  <2> QED BY <1>0, <1>a, <1>2, <2>2 DEF PopStep
<1>3. ASSUME ManagerCall(t), ReserveClearSwap(t) PROVE PopStep(t, -1)
  <2>1. pc[t] = "clear_swap" /\ pc'[t] \in {"clear_load", "clear_help", "clear_advance"}
    BY <1>0, <1>3 DEF ReserveClearSwap, Goto
  <2>2. /\ Tells(t) = 0 /\ Tells(t)' = 0 /\ Pops(t) = 0 /\ Pops(t)' = 0
        /\ Naps(t) = 0 /\ Naps(t)' = 0 /\ t \notin Lookers'
    BY <2>1 DEF Tells, Pops, Naps, One, Lookers
  <2> QED BY <1>0, <1>a, <1>3, <2>2 DEF PopStep
<1>4. ASSUME ManagerCall(t), AbortReading(t) PROVE PopStep(t, 0)
  <2>1. pc[t] = "abort_reading" /\ pc'[t] = "abort_advance"
    BY <1>0, <1>4 DEF AbortReading, Goto
  <2> QED BY <1>0, <1>a, <1>4, <2>1, QuietPop DEF PopPlaces
<1>5. ASSUME ConstructAndCommit(t) PROVE PopStep(t, 1)
  <2>1. pc[t] = "ret" /\ pc'[t] = "check_poppers" /\ UNCHANGED d_popControlSema
    BY <1>0, <1>5 DEF ConstructAndCommit, Goto, waitVars
  <2>2. /\ Tells(t) = 0 /\ Tells(t)' = 1 /\ Pops(t) = 0 /\ Pops(t)' = 0
        /\ Naps(t) = 0 /\ Naps(t)' = 0 /\ t \notin Lookers'
    BY <2>1 DEF Tells, Pops, Naps, One, Lookers
  <2> QED BY <1>0, <2>1, <2>2 DEF PopStep
<1>6. ASSUME NEW c, Empties(t, c) PROVE PopStep(t, 0)
  <2>1. /\ UNCHANGED d_popControlSema
        /\ pc[t] \in {"ret", "clear_ret", "abort_empty"}
        /\ pc'[t] \in {"check_pushers", "pop_load", "count_pushers", "clear_load", "ret"}
    <3>1. CASE TakeAndCommit(t)
      BY <1>0, <3>1 DEF TakeAndCommit, Goto, waitVars
    <3>2. CASE RemoveElement(t)
      BY <1>0, <3>2 DEF RemoveElement, RemoveNext, Goto, waitVars
    <3>3. CASE ClearElement(t)
      BY <1>0, <3>3 DEF ClearElement, Goto, waitVars
    <3>4. CASE AbortEmpty(t) /\ UNCHANGED <<callVars, queueVars>>
      BY <1>0, <3>4 DEF AbortEmpty, Goto, queueVars, waitVars
    <3> QED BY <1>6, <3>1, <3>2, <3>3, <3>4 DEF Empties
  <2>2. /\ Tells(t) = 0 /\ Tells(t)' = 0 /\ Pops(t) = 0 /\ Pops(t)' \in {0, 1}
        /\ Naps(t) = 0 /\ Naps(t)' = 0 /\ t \notin Lookers'
    BY <2>1 DEF Tells, Pops, Naps, One, Lookers
  <2> QED BY <1>0, <2>1, <2>2 DEF PopStep
<1> QED BY <1>1, <1>2, <1>3, <1>4, <1>5, <1>6

\* The steps that move no element: but for a popper's last look, and for a pusher
\* that finds no popper waiting.
LEMMA OthersPop ==
    ASSUME SafeInv, NEW t \in Thread, OtherStep(t), ~disable(t),
           pc[t] = "check_enabled" => op[t] = "pushBack"
    PROVE  \/ PopStep(t, 0)
           \/ LengthLoadPush(t) /\ op[t] = "popFront"
           \/ LengthLoadPop(t) /\ op[t] = "popFront" /\ 0 >= lengthOf(loaded[t], d_popIndex)
           \/ d_numWaitingPoppers' = 0
<1>0. /\ Types /\ CallRight(t) /\ pc \in [Thread -> QueuePC]
      /\ op \in [Thread -> AllCalls \cup {"none"}]
      /\ d_popControlSema \in Nat
  BY DEF SafeInv, Types, ThreadsRight
<1>1. CASE CheckPoppers(t) /\ d_numWaitingPoppers = 0
  BY <1>1 DEF CheckPoppers, queueVars, waitVars
<1>2. CASE CheckPoppers(t) /\ d_numWaitingPoppers # 0
  <2>1. pc[t] = "check_poppers" /\ pc'[t] = "post_popper" /\ UNCHANGED d_popControlSema
    BY <1>0, <1>2 DEF CheckPoppers, Goto, queueVars, waitVars
  <2>2. /\ Tells(t) = 1 /\ Tells(t)' = 1 /\ Pops(t) = 0 /\ Pops(t)' = 0
        /\ Naps(t) = 0 /\ Naps(t)' = 0 /\ t \notin Lookers'
    BY <2>1 DEF Tells, Pops, Naps, One, Lookers
  <2> QED BY <1>0, <2>1, <2>2 DEF PopStep
<1>3. CASE PostPopper(t)
  <2>1. pc[t] = "post_popper" /\ pc'[t] = "idle" /\ d_popControlSema' = d_popControlSema + 1
    BY <1>0, <1>3 DEF PostPopper, Finish, Goto
  <2>2. /\ Tells(t) = 1 /\ Tells(t)' = 0 /\ Pops(t) = 0 /\ Pops(t)' = 0
        /\ Naps(t) = 0 /\ Naps(t)' = 0 /\ t \notin Lookers'
    BY <2>1 DEF Tells, Pops, Naps, One, Lookers
  <2> QED BY <1>0, <2>1, <2>2 DEF PopStep
<1>4. CASE ReportFailure(t) \/ Throw(t) \/ ClearEnd(t) \/ Aborted(t) \/ CheckPushers(t) \/ PostPusher(t)
           \/ RemoveFoundEmpty(t) \/ RemoveCountPushers(t) \/ PostPushers(t) \/ DisableCountPushers(t)
           \/ RemoveLoadPush(t) \/ EnterWait(t)
  <2>1. /\ pc[t] \in {"ret", "clear_ret", "check_pushers", "post_pusher", "count_pushers", "post_pushers",
                      "disabled", "remove_push"}
        /\ pc'[t] \in {"idle", "clear_load", "abort_reading", "post_pushers", "post_pusher",
                       "count_pushers", "remove_pop", "length_push"}
        /\ UNCHANGED d_popControlSema
    BY <1>0, <1>4 DEF ReportFailure, Throw, ClearEnd, Aborted, CheckPushers, PostPusher, RemoveFoundEmpty,
       RemoveCountPushers, PostPushers, DisableCountPushers, RemoveLoadPush, EnterWait, Finish, Goto,
       queueVars, waitVars
  <2> QED BY <1>0, <2>1, QuietPop DEF PopPlaces
<1>5. CASE LengthLoadPush(t) /\ op[t] # "popFront"
  <2>1. pc[t] = "length_push" /\ pc'[t] = "length_pop" /\ UNCHANGED <<d_popControlSema, op>>
        /\ op[t] = "pushBack"
    BY <1>0, <1>5 DEF LengthLoadPush, Goto, queueVars, waitVars, callVars, CallRight, Waits, Blocking
  <2> QED BY <1>0, <2>1, QuietPop DEF PopPlaces
<1>6. CASE LengthLoadPop(t) /\ ~(op[t] = "popFront" /\ 0 >= lengthOf(loaded[t], d_popIndex))
  <2>1. /\ pc[t] = "length_pop" /\ UNCHANGED <<d_popControlSema, op>>
        /\ pc'[t] \in {"check_enabled", "leave_wait"}
    BY <1>0, <1>6 DEF LengthLoadPop, Goto, queueVars, waitVars, callVars
  <2>2. /\ Tells(t) = 0 /\ Tells(t)' = 0 /\ Pops(t) = 0 /\ Pops(t)' \in {0, 1}
        /\ Naps(t) = 0 /\ Naps(t)' = 0 /\ t \notin Lookers'
    BY <2>1 DEF Tells, Pops, Naps, One, Lookers
  <2> QED BY <1>0, <2>1, <2>2 DEF PopStep
<1>7. CASE CheckEnabled(t)
  <2>1. /\ pc[t] = "check_enabled" /\ UNCHANGED <<d_popControlSema, op>> /\ op[t] = "pushBack"
        /\ pc'[t] \in {"wait", "leave_wait"}
    BY <1>0, <1>7 DEF CheckEnabled, Goto, queueVars, waitVars, callVars
  <2> QED BY <1>0, <2>1, QuietPop DEF PopPlaces
<1>8. CASE Wait(t)
  <2>1. /\ pc[t] = "wait" /\ pc'[t] = "leave_wait" /\ UNCHANGED op
        /\ \/ op[t] = "pushBack" /\ UNCHANGED d_popControlSema
           \/ op[t] = "popFront" /\ d_popControlSema' = d_popControlSema - 1
    BY <1>0, <1>8 DEF Wait, Goto, callVars, CallRight, Waits, Blocking, Pushing
  <2>2. CASE op[t] = "pushBack"
    BY <1>0, <2>1, <2>2, QuietPop DEF PopPlaces
  <2>3. CASE op[t] = "popFront"
    <3>1. /\ Tells(t) = 0 /\ Tells(t)' = 0 /\ Pops(t) = 0 /\ Pops(t)' = 1
          /\ Naps(t) = 1 /\ Naps(t)' = 0 /\ t \notin Lookers'
      BY <2>1, <2>3 DEF Tells, Pops, Naps, One, Lookers
    <3> QED BY <1>0, <2>1, <2>3, <3>1 DEF PopStep
  <2> QED BY <2>1, <2>2, <2>3
<1>9. CASE LeaveWait(t)
  <2>1. /\ pc[t] = "leave_wait" /\ UNCHANGED <<op, d_popControlSema>>
        /\ \/ op[t] = "pushBack" /\ pc'[t] = "push_load"
           \/ op[t] = "popFront" /\ pc'[t] = "pop_load"
    BY <1>0, <1>9 DEF LeaveWait, Goto, callVars, CallRight, Waits, Blocking, Pushing, Popping, Entry
  <2>2. /\ Tells(t) = 0 /\ Tells(t)' = 0 /\ Pops(t)' = Pops(t) /\ Pops(t) \in {0, 1}
        /\ Naps(t) = 0 /\ Naps(t)' = 0 /\ t \notin Lookers'
    BY <2>1 DEF Tells, Pops, Naps, One, Lookers
  <2> QED BY <1>0, <2>1, <2>2 DEF PopStep
<1>10. CASE RemoveLoadPop(t)
  <2>1. /\ pc[t] = "remove_pop" /\ UNCHANGED d_popControlSema
        /\ pc'[t] \in {"pop_load", "count_pushers"}
    BY <1>0, <1>10 DEF RemoveLoadPop, RemoveNext, Goto, queueVars, waitVars
  <2>2. /\ Tells(t) = 0 /\ Tells(t)' = 0 /\ Pops(t) = 0 /\ Pops(t)' \in {0, 1}
        /\ Naps(t) = 0 /\ Naps(t)' = 0 /\ t \notin Lookers'
    BY <2>1 DEF Tells, Pops, Naps, One, Lookers
  <2> QED BY <1>0, <2>1, <2>2 DEF PopStep
<1>11. ASSUME NEW o \in AllCalls, Call(t, o) PROVE PopStep(t, 0)
  <2>1. /\ pc[t] = "idle" /\ UNCHANGED d_popControlSema
        /\ pc'[t] \in {"push_load", "pop_load", "remove_push"}
    BY <1>0, <1>11 DEF Call, Goto, Entry, queueVars, waitVars, AllCalls, Pushing, Popping
  <2>2. /\ Tells(t) = 0 /\ Tells(t)' = 0 /\ Pops(t) = 0 /\ Pops(t)' \in {0, 1}
        /\ Naps(t) = 0 /\ Naps(t)' = 0 /\ t \notin Lookers'
    BY <2>1 DEF Tells, Pops, Naps, One, Lookers
  <2> QED BY <1>0, <2>1, <2>2 DEF PopStep
<1>12. CASE enable(t)
  <2>1. pc[t] = "idle" /\ pc'[t] = "idle" /\ UNCHANGED d_popControlSema
    BY <1>12 DEF enable, threadVars, queueVars, waitVars
  <2> QED BY <1>0, <2>1, QuietPop DEF PopPlaces
<1> QED BY <1>1, <1>2, <1>3, <1>4, <1>5, <1>6, <1>7, <1>8, <1>9, <1>10, <1>11, <1>12
           DEF OtherStep, block, ClientCall

-----------------------------------------------------------------------------
(* An acquired position is about to be passed. *)

\* The next position has another word.
LEMMA SameWord ==
    ASSUME TwoGenerations, NEW q \in Nat, NEW r \in Nat, r = q \/ r = q + 1, Word(r) = Word(q)
    PROVE  r = q
<1>1. Turn \in Nat /\ Turn > 1
  BY Turns, Constants
<1>2. q <= r /\ r < q + Turn
  BY <1>1
<1> QED BY <1>2, Circle

LEMMA AcquiredNext ==
    ASSUME NEW f \in [Slot -> Nat], NEW p \in Nat
    PROVE  Acquired(p, f)' <=> \/ f[Elem(p)] > p
                               \/ f[Elem(p)] = p /\ d_states'[Elem(p)].st # "EMPTY"
BY DEF Acquired, Elem, Word, index, Turn, d_maxCombinedIndex

\* No step disables a queue that no thread may disable.
LEMMA StaysEnabled ==
    ASSUME SafeInv, NeverDisabled, ~d_pushIndex.disabled, NEW t \in Thread,
           ThreadStep(t) \/ ClientCall(t)
    PROVE  ~d_pushIndex'.disabled /\ NeverDisabled'
<1>0. Types /\ role' = role
  BY OthersStayPut DEF SafeInv, OthersStay, CountStays
<1>1. ~disable(t)
  BY DEF NeverDisabled, disable
<1>2. CASE ManagerCall(t)
  <2>1. CASE \E c : AdvancePushIndex(c)
    BY <1>0, <2>1, AdvanceSame DEF NeverDisabled
  <2>2. CASE d_pushIndex' = d_pushIndex
    BY <1>0, <2>2 DEF NeverDisabled
  <2>3. (\E c : AdvancePushIndex(c)) \/ d_pushIndex' = d_pushIndex
    BY <1>2, ManagerCases DEF ReadsOrMoves, ReservePushLoad, ReservePushBehind, ReservePushTaken,
       ReservePushHelp, ReservePushAdvance, ReservePopLoad, ReservePopEmpty, ReservePopRetry,
       ReservePopTaken, ReservePopHelp, ReservePopAdvance, ReserveClearLoad, ReserveClearSwap,
       ReserveClearHelp, ReserveClearAdvance, AbortAdvance, ReservePushAcquire, ReservePopAcquire,
       AbortReading, AbortEmpty, sharedVars
  <2> QED BY <2>1, <2>2, <2>3
<1>3. CASE OtherStep(t)
  <2>1. CASE enable(t)
    BY <1>0, <2>1 DEF enable, SetDisabled, Types, ManagerTypeOK, NeverDisabled
  <2>2. CASE ~enable(t)
    <3>1. d_pushIndex' = d_pushIndex
      BY <1>1, <1>3, <2>2 DEF OtherStep, ReportFailure, CheckPoppers, PostPopper, Throw, ClearEnd, Aborted,
         CheckPushers, PostPusher, block, EnterWait, LengthLoadPush, LengthLoadPop, CheckEnabled, Wait,
         LeaveWait, RemoveLoadPush, RemoveLoadPop, RemoveFoundEmpty, RemoveCountPushers, PostPushers,
         DisableCountPushers, ClientCall, Call, sharedVars
    <3> QED BY <1>0, <3>1 DEF NeverDisabled
  <2> QED BY <2>1, <2>2
<1>4. CASE ConstructAndCommit(t) \/ TakeAndCommit(t) \/ RemoveElement(t) \/ ClearElement(t)
  BY <1>0, <1>4 DEF ConstructAndCommit, TakeAndCommit, RemoveElement, ClearElement, NeverDisabled
<1> QED BY <1>2, <1>3, <1>4, StepCases

\* A step that moves the indices at most.
LEMMA OnwardAdvancing ==
    ASSUME TwoGenerations, RingInv, NEW t \in Thread, OthersStay(t),
           NEW h \in Nat, NEW q \in Nat, NEW e \in [Slot -> Nat], Ring(h, q, e),
           Advancing(q, e), ~d_pushIndex'.disabled,
           OtherStep(t) \/ (ManagerCall(t) /\ ReadsOrMoves(t)),
           UNCHANGED <<d_states, own>>,
           NEW g \in Nat, NEW r \in Nat, Ring(g, r, e)', r = q \/ r = q + 1
    PROVE  Advancing(r, e)'
<1>1. d_pushIndex.index = Word(q) /\ d_pushIndex'.index = Word(r) /\ Elem(q) \in Slot
  <2>1. d_pushIndex'.index = Word(r)'
    BY DEF Ring
  <2> QED BY <2>1, Rigid, ElemType DEF Ring
<1> SUFFICES ASSUME Acquired(r, e)'
             PROVE  \E u \in Thread : pc'[u] = "push_advance" /\ own'[u] = Word(r)
  <2>1. Word(r)' = Word(r)
    BY Rigid
  <2> QED BY <2>1 DEF Advancing
<1>2. Acquired(r, e)
  BY AcquiredNext DEF Acquired
<1>3. r = q
  BY <1>2, NotBeyond
<1>4. PICK u \in Thread : pc[u] = "push_advance" /\ own[u] = Word(q)
  BY <1>2, <1>3 DEF Advancing
<1>5. CASE u # t
  BY <1>3, <1>4, <1>5 DEF OthersStay, SameOthers
<1>6. CASE u = t
  <2>1. ReservePushAdvance(t)
    <3>1. ~OtherStep(t)
      BY <1>4, <1>6 DEF OtherStep, ReportFailure, CheckPoppers, PostPopper, Throw, ClearEnd, Aborted,
         CheckPushers, PostPusher, block, EnterWait, LengthLoadPush, LengthLoadPop, CheckEnabled, Wait,
         LeaveWait, RemoveLoadPush, RemoveLoadPop, RemoveFoundEmpty, RemoveCountPushers, PostPushers,
         DisableCountPushers, ClientCall, Call, disable, enable, Finish, Goto, RemoveNext
    <3>2. ReadsOrMoves(t)
      BY <3>1
    <3> QED BY <1>4, <1>6, <3>2 DEF ReadsOrMoves, ReservePushLoad, ReservePushBehind, ReservePushTaken,
       ReservePushHelp, ReservePopLoad, ReservePopEmpty, ReservePopRetry,
       ReservePopTaken, ReservePopHelp, ReservePopAdvance, ReserveClearLoad, ReserveClearSwap,
       ReserveClearHelp, ReserveClearAdvance, AbortAdvance, Goto, Return
  <2>2. loaded[t] = Word(q)
    BY <1>4, <1>6 DEF Ring, OwnRight
  <2>3. d_pushIndex = [disabled |-> FALSE, index |-> Word(q)]
    <3>1. d_pushIndex \in [disabled : BOOLEAN, index : Combined]
      BY RightOf
    <3> QED BY <1>1, <3>1 DEF Advancing
  <2>4. d_pushIndex'.index = Word(q + 1)
    BY <2>1, <2>2, <2>3, WordNext DEF ReservePushAdvance, AdvancePushIndex
  <2>5. PICK s \in Nat : s = q + 1 /\ Word(s) = Word(q)
    BY <1>1, <1>3, <2>4
  <2>6. s = q
    BY <2>5, SameWord
  <2> QED BY <2>5, <2>6
<1> QED BY <1>5, <1>6

\* The thread that reserves position q is about to advance past it.
LEMMA AcquireAdvancing ==
    ASSUME SafeInv, NEW t \in Thread, NEW q \in Nat, NEW e, ReservePushAcquire(t), loaded[t] = Word(q),
           ~d_pushIndex'.disabled
    PROVE  Advancing(q, e)'
<1>1. pc'[t] = "push_advance" /\ own'[t] = Word(q)
  BY DEF ReservePushAcquire, Goto, SafeInv, Types, ManagerTypeOK
<1>2. own'[t] = Word(q)'
  BY <1>1, Rigid
<1> QED BY <1>1, <1>2 DEF Advancing

\* Steps of other threads that fill or empty an element.
LEMMA SwapAdvancing ==
    ASSUME NEW t \in Thread, OthersStay(t), pc[t] # "push_advance",
           NEW q \in Nat, NEW e \in [Slot -> Nat], NEW f \in [Slot -> Nat], Advancing(q, e),
           ~d_pushIndex'.disabled, Acquired(q, f)' => Acquired(q, e)
    PROVE  Advancing(q, f)'
<1> SUFFICES ASSUME Acquired(q, f)'
             PROVE  \E u \in Thread : pc'[u] = "push_advance" /\ own'[u] = Word(q)
  <2>1. Word(q)' = Word(q)
    BY Rigid
  <2> QED BY <2>1 DEF Advancing
<1>1. PICK u \in Thread : pc[u] = "push_advance" /\ own[u] = Word(q)
  BY DEF Advancing
<1> QED BY <1>1 DEF OthersStay, SameOthers

\* Nothing full lies at or beyond d_pushIndex.
LEMMA NoneAfter ==
    ASSUME RingInv, NEW h \in Nat, NEW q \in Nat, NEW e \in [Slot -> Nat], Ring(h, q, e),
           Advancing(q, e)
    PROVE  After(q, e) = {}
<1> SUFFICES ASSUME NEW i \in Slot, d_states[i].st = "FULL", e[i] >= q PROVE FALSE
  BY DEF After, Full
<1>1. e[i] = q /\ Elem(q) = i
  <2>1. PICK a \in Nat : a = e[i]
    OBVIOUS
  <2>2. a <= q /\ Elem(a) = i
    BY <2>1 DEF Ring, SlotRight
  <2> QED BY <2>1, <2>2
<1>2. PICK u \in Thread : pc[u] = "push_advance" /\ own[u] = Word(q)
  BY <1>1 DEF Advancing, Acquired
<1>3. own[u] # None /\ CallRight(u) /\ HeldRight(u)
  BY <1>2, RightOf DEF CallRight
<1>4. d_states[index(own[u])].st = "WRITING"
  BY <1>2, <1>3 DEF HeldRight, Holds, Mode, CallRight, PushCalls
<1> QED BY <1>1, <1>2, <1>4 DEF Elem

-----------------------------------------------------------------------------
(* The last looks *)

\* A thread that looks at the length goes on from a position that is near.
LEMMA LookKept ==
    ASSUME TwoGenerations, TimelyLooks', NEW u \in Thread, NEW q \in Nat, NEW r \in Nat, NEW p \in Nat,
           r = q \/ r = q + 1, d_pushIndex'.index = Word(r),
           pc'[u] = "length_pop", loaded'[u] = loaded[u], Near(u, p, q)
    PROVE  Near(u, p, r)'
<1>1. PICK n \in Nat, k \in Nat : /\ n = Turn /\ k = d_maxCombinedIndex \div 2 /\ k < n
                                   /\ d_maxCombinedIndex \in Nat
  <2>1. d_maxCombinedIndex \in Nat /\ Turn \in Nat /\ Turn = d_maxCombinedIndex + 1
    BY Words, Turns DEF Turn
  <2>2. /\ d_maxCombinedIndex \div 2 \in Nat
        /\ d_maxCombinedIndex = 2 * (d_maxCombinedIndex \div 2) + (d_maxCombinedIndex % 2)
        /\ d_maxCombinedIndex % 2 \in Nat
    BY <2>1, Division
  <2> QED BY <2>1, <2>2
<1>2. loaded[u] = Word(p) /\ p <= q /\ q - p < k
  BY <1>1 DEF Near
<1>3. Behind(loaded'[u], d_pushIndex'.index) < k
  <2>1. (Behind(loaded[u], d_pushIndex.index) < d_maxCombinedIndex \div 2)'
    BY DEF TimelyLooks
  <2> QED BY <1>1, <2>1 DEF Behind, Turn, d_maxCombinedIndex
<1>4. p <= r /\ r < p + Turn
  BY <1>1, <1>2
<1>5. Behind(Word(p), Word(r)) = r - p
  BY <1>4, Circle
<1>6. r - p < k
  BY <1>2, <1>3, <1>5
<1>7. loaded'[u] = Word(p)'
  BY <1>2, Rigid
<1> QED BY <1>1, <1>4, <1>6, <1>7 DEF Near, d_maxCombinedIndex

LEMMA LookBegins ==
    ASSUME TwoGenerations, TimelyLooks', NEW u \in Thread, NEW r \in Nat,
           d_pushIndex'.index = Word(r), pc'[u] = "length_pop", loaded'[u] = Word(r)
    PROVE  Near(u, r, r)'
<1>1. (Behind(loaded[u], d_pushIndex.index) < d_maxCombinedIndex \div 2)'
  BY DEF TimelyLooks
<1>2. Behind(Word(r), Word(r)) < d_maxCombinedIndex \div 2
  BY <1>1 DEF Behind, Turn, d_maxCombinedIndex
<1>3. Behind(Word(r), Word(r)) = 0
  <2>1. Word(r) \in Nat
    BY WordType
  <2> QED BY <2>1 DEF Behind
<1>4. loaded'[u] = Word(r)' /\ r - r = 0
  BY Rigid
<1> QED BY <1>2, <1>3, <1>4 DEF Near, d_maxCombinedIndex

\* Where a thread's looks begin.
LEMMA LookSteps ==
    ASSUME SafeInv, NEW t \in Thread, ThreadStep(t) \/ ClientCall(t)
    PROVE  /\ pc'[t] = "length_pop" => LengthLoadPush(t)
           /\ pc'[t] = "check_enabled" => LengthLoadPop(t) /\ op[t] = "pushBack" /\ op' = op
<1>0. Types /\ pc \in [Thread -> QueuePC] /\ CallRight(t)
  BY DEF SafeInv, Types, ThreadsRight
<1>1. CASE ManagerCall(t)
  <2>1. CASE reservePushIndex(t)
    BY <1>0, <2>1 DEF reservePushIndex, ReservePushLoad, ReservePushSwap, ReservePushAcquire,
       ReservePushBehind, ReservePushTaken, ReservePushHelp, ReservePushAdvance, Goto, Return
  <2>2. CASE reservePopIndex(t)
    BY <1>0, <2>2 DEF reservePopIndex, ReservePopLoad, ReservePopSwap, ReservePopAcquire,
       ReservePopEmpty, ReservePopRetry, ReservePopTaken, ReservePopHelp, ReservePopAdvance,
       Goto, Return
  <2>3. CASE reservePopIndexForClear(t)
    BY <1>0, <2>3 DEF reservePopIndexForClear, ReserveClearLoad, ReserveClearSwap,
       ReserveClearHelp, ReserveClearAdvance, Goto, Return
  <2>4. CASE abortPushIndexReservation(t)
    BY <1>0, <2>4 DEF abortPushIndexReservation, AbortReading, AbortAdvance, AbortEmpty, Goto
  <2> QED BY <1>1, <2>1, <2>2, <2>3, <2>4 DEF ManagerCall, ManagerStep
<1>2. CASE ReportFailure(t) \/ pushBack(t) \/ popFront(t) \/ PostPushers(t) \/ DisableCountPushers(t)
  BY <1>0, <1>2 DEF ReportFailure, pushBack, ConstructAndCommit, CheckPoppers, PostPopper, Throw,
     ClearElement, ClearEnd, Aborted, popFront, TakeAndCommit, CheckPushers, PostPusher, PostPushers,
     DisableCountPushers, Finish, Goto
<1>3. CASE EnterWait(t) \/ CheckEnabled(t) \/ Wait(t)
  BY <1>0, <1>3 DEF EnterWait, CheckEnabled, Wait, Goto
<1>4. CASE LengthLoadPush(t)
  BY <1>0, <1>4 DEF LengthLoadPush, Goto
<1>5. CASE LengthLoadPop(t)
  BY <1>0, <1>5 DEF LengthLoadPop, Goto, callVars
<1>6. CASE LeaveWait(t)
  BY <1>0, <1>6 DEF LeaveWait, Goto, Entry, CallRight, Waits, Blocking, Pushing, Popping
<1>7. CASE removeAll(t)
  BY <1>0, <1>7 DEF removeAll, RemoveLoadPush, RemoveLoadPop, RemoveElement, RemoveFoundEmpty,
     RemoveCountPushers, RemoveNext, Goto
<1>8. ASSUME NEW o \in AllCalls, Call(t, o)
      PROVE  pc'[t] \notin {"length_pop", "check_enabled"}
  BY <1>0, <1>8 DEF Call, Goto, Entry, AllCalls, Pushing, Popping
<1>9. CASE disable(t) \/ enable(t)
  BY <1>0, <1>9 DEF disable, enable, Goto, threadVars
<1> QED BY <1>1, <1>2, <1>3, <1>4, <1>5, <1>6, <1>7, <1>8, <1>9 DEF ThreadStep, ClientCall, block

\* Every step, for the threads that look.
LEMMA LooksNext ==
    ASSUME TwoGenerations, SafeInv, TimelyLooks', NEW t \in Thread, OthersStay(t),
           ThreadStep(t) \/ ClientCall(t), NEW q \in Nat, LooksRight(q),
           d_pushIndex.index = Word(q),
           NEW r \in Nat, r = q \/ r = q + 1, d_pushIndex'.index = Word(r)
    PROVE  LooksRight(r)' /\ LooksKept(t, q, r)
<1>1. LooksKept(t, q, r)
  BY LookKept DEF LooksKept, OthersStay, SameOthers
<1>2. ASSUME NEW u \in Thread, pc'[u] = "length_pop" PROVE \E p \in Nat : Near(u, p, r)'
  <2>1. CASE u # t
    <3>1. pc[u] = "length_pop"
      BY <1>2, <2>1 DEF OthersStay, SameOthers
    <3>2. PICK p \in Nat : Near(u, p, q)
      BY <3>1 DEF LooksRight
    <3> QED BY <1>1, <2>1, <3>1, <3>2 DEF LooksKept
  <2>2. CASE u = t
    <3>1. LengthLoadPush(t)
      BY <1>2, <2>2, LookSteps
    <3>2. d_pushIndex' = d_pushIndex /\ loaded'[t] = d_pushIndex.index
      BY <3>1 DEF LengthLoadPush, sharedVars, SafeInv, Types, ManagerTypeOK
    <3> QED BY <1>2, <2>2, <3>2, LookBegins
  <2> QED BY <2>1, <2>2
<1>3. ASSUME NEW u \in Thread, pc'[u] = "check_enabled" PROVE op'[u] = "pushBack"
  <2>1. CASE u # t
    <3>1. pc[u] = "check_enabled" /\ op'[u] = op[u]
      BY <1>3, <2>1 DEF OthersStay, SameOthers
    <3> QED BY <3>1 DEF LooksRight
  <2>2. CASE u = t
    BY <1>3, <2>2, LookSteps
  <2> QED BY <2>1, <2>2
<1> QED BY <1>1, <1>2, <1>3 DEF LooksRight

\* Nothing full: nobody needs a token.
LEMMA PopNoneFull ==
    ASSUME Types, Types', NEW t \in Thread, OthersStay(t), Full = {}, d_states' = d_states,
           NEW r, NEW e
    PROVE  PopAwake(r, e)'
<1>1. PopTokens' \in Nat /\ Cardinality(Poppers)' \in Nat
  BY PoppersChange DEF Types
<1>2. Cardinality(Full)' = 0
  <2>1. Full' = Full
    BY DEF Full
  <2> QED BY <2>1, FS_EmptySet
<1>3. (Cardinality(Full) <= PopTokens + Cardinality(Poppers))'
  BY <1>1, <1>2
<1> QED BY <1>3 DEF PopAwake

\* Nobody waits for a value.
LEMMA PopNobody ==
    ASSUME Types, Types', WaitersCounted', NEW t \in Thread, OthersStay(t),
           d_numWaitingPoppers' = 0, NEW r, NEW e
    PROVE  PopAwake(r, e)'
<1>1. PopTokens' \in Nat
  BY PoppersChange DEF Types
<1>2. Waiting("popFront")' = {}
  <2>1. PICK A \in SUBSET Thread : A = Waiting("popFront")'
    BY DEF Waiting
  <2>2. Cardinality(A) = 0
    BY <2>1 DEF WaitersCounted
  <2> QED BY <2>1, <2>2, Constants, SetNone
<1>3. Sleepers("popFront")' = {} /\ Lookers' = {}
  BY <1>2 DEF Sleepers, Lookers, Waiting, Waits
<1>4. Cardinality(Sleepers("popFront"))' = 0
  BY <1>3, FS_EmptySet
<1>5. (Cardinality(Sleepers("popFront")) <= PopTokens)'
  BY <1>1, <1>4
<1> QED BY <1>3, <1>5 DEF PopAwake

\* A popper takes its last look, and another concludes that nothing was there.
LEMMA PopLooks ==
    ASSUME TwoGenerations, RingInv, Types', TimelyLooks', NEW t \in Thread, OthersStay(t),
           NEW h \in Nat, NEW q \in Nat, NEW e \in [Slot -> Nat], Ring(h, q, e),
           Advancing(q, e), PopAwake(q, e),
           LengthLoadPush(t), op[t] = "popFront", LooksKept(t, q, q), d_pushIndex'.index = Word(q)
    PROVE  PopAwake(q, e)'
<1>1. /\ pc[t] = "length_push" /\ pc'[t] = "length_pop" /\ loaded'[t] = Word(q)
      /\ UNCHANGED <<d_states, d_popControlSema, op>> /\ d_popControlSema \in Nat
  BY DEF LengthLoadPush, Goto, sharedVars, queueVars, waitVars, callVars, RingInv, SafeInv, Types,
     ManagerTypeOK, Ring
<1>2. /\ Tells(t) = 0 /\ Tells(t)' = 0 /\ Pops(t) = 0 /\ Pops(t)' = 0
      /\ Naps(t) = 0 /\ Naps(t)' = 0
  BY <1>1 DEF Tells, Pops, Naps, One
<1>3. /\ Cardinality(Poppers)' = Cardinality(Poppers) /\ PopTokens' = PopTokens
      /\ Cardinality(Sleepers("popFront"))' = Cardinality(Sleepers("popFront"))
      /\ Cardinality(Sleepers("popFront")) \in Nat /\ PopTokens \in Nat
  BY <1>1, <1>2, PoppersChange
<1>4. /\ Cardinality(Full)' = Cardinality(Full)
      /\ \A p : After(p, e)' = After(p, e)
  BY <1>1 DEF Full, After
<1>5. CASE Cardinality(Full) <= PopTokens + Cardinality(Poppers)
  BY <1>3, <1>4, <1>5 DEF PopAwake
<1>6. CASE /\ Cardinality(Sleepers("popFront")) <= PopTokens
           /\ \A u \in Lookers : \E p \in Nat :
                 /\ Near(u, p, q)
                 /\ Cardinality(After(p, e)) + Cardinality(Sleepers("popFront")) <= PopTokens
  <2>1. ASSUME NEW u \in Lookers'
        PROVE  \E p \in Nat :
                 /\ Near(u, p, q)'
                 /\ Cardinality(After(p, e))' + Cardinality(Sleepers("popFront"))' <= PopTokens'
    <3>1. CASE u # t
      <4>1. u \in Thread \ {t} /\ pc[u] = "length_pop" /\ u \in Lookers
        BY <2>1, <3>1 DEF Lookers, OthersStay, SameOthers
      <4>2. PICK p \in Nat :
               /\ Near(u, p, q)
               /\ Cardinality(After(p, e)) + Cardinality(Sleepers("popFront")) <= PopTokens
        BY <1>6, <4>1
      <4>3. Near(u, p, q)'
        BY <4>1, <4>2 DEF LooksKept
      <4> QED BY <1>3, <1>4, <4>2, <4>3
    <3>2. CASE u = t
      <4>1. Near(t, q, q)'
        BY <1>1, LookBegins
      <4>2. Cardinality(After(q, e))' = 0
        BY <1>4, NoneAfter, FS_EmptySet
      <4>3. Cardinality(After(q, e))' + Cardinality(Sleepers("popFront"))' <= PopTokens'
        BY <1>3, <1>6, <4>2
      <4> QED BY <3>2, <4>1, <4>3
    <3> QED BY <3>1, <3>2
  <2> QED BY <1>3, <1>6, <2>1 DEF PopAwake
<1> QED BY <1>5, <1>6 DEF PopAwake

\* A popper that finds the queue empty, and goes to sleep.
LEMMA PopSleeps ==
    ASSUME TwoGenerations, RingInv, Types', NEW t \in Thread, OthersStay(t),
           NEW h \in Nat, NEW q \in Nat, NEW e \in [Slot -> Nat], Ring(h, q, e), PopAwake(q, e),
           LengthLoadPop(t), op[t] = "popFront", 0 >= lengthOf(loaded[t], d_popIndex), NEW r
    PROVE  PopAwake(r, e)'
<1>1. /\ pc[t] = "length_pop" /\ pc'[t] \in {"wait", "leave_wait", "check_enabled"}
      /\ UNCHANGED <<d_states, d_popControlSema, op>> /\ d_popControlSema \in Nat
  BY DEF LengthLoadPop, Goto, sharedVars, queueVars, waitVars, callVars, RingInv, SafeInv, Types
<1>2. /\ Tells(t) = 0 /\ Tells(t)' = 0 /\ Pops(t) = 0 /\ Pops(t)' \in {0, 1}
  BY <1>1 DEF Tells, Pops, One
<1>3. /\ Cardinality(Poppers)' >= Cardinality(Poppers) /\ PopTokens' = PopTokens
      /\ Cardinality(Sleepers("popFront")) \in Nat /\ PopTokens \in Nat
      /\ Cardinality(Poppers) \in Nat /\ Cardinality(Poppers)' \in Nat
  BY <1>1, <1>2, PoppersChange
<1>4. PICK n \in Nat : n = Cardinality(Full) /\ n = Cardinality(Full)'
  <2>1. Full \in SUBSET Slot /\ Full' = Full
    BY <1>1 DEF Full
  <2>2. Cardinality(Full) \in Nat
    BY <2>1, SlotsFinite, SetNone
  <2> QED BY <2>1, <2>2
<1>5. n <= PopTokens + Cardinality(Poppers)
  <2>1. CASE n <= PopTokens + Cardinality(Poppers)
    BY <2>1
  <2>2. CASE \A u \in Lookers : \E p \in Nat :
                 /\ Near(u, p, q)
                 /\ Cardinality(After(p, e)) + Cardinality(Sleepers("popFront")) <= PopTokens
    <3>1. PICK p \in Nat :
                 /\ Near(t, p, q)
                 /\ Cardinality(After(p, e)) + Cardinality(Sleepers("popFront")) <= PopTokens
      BY <1>1, <2>2 DEF Lookers
    <3>2. p <= h
      BY <3>1, LookSays
    <3>3. After(p, e) = Full
      <4>1. ASSUME NEW i \in Slot, d_states[i].st = "FULL" PROVE e[i] >= p
        <5>1. PICK a \in Nat : a = e[i]
          OBVIOUS
        <5>2. h <= a
          BY <4>1, <5>1 DEF Ring, SlotRight
        <5> QED BY <3>2, <5>1, <5>2
      <4> QED BY <4>1 DEF After, Full
    <3>4. Cardinality(After(p, e)) = n
      BY <1>4, <3>3
    <3>5. n + Cardinality(Sleepers("popFront")) <= PopTokens
      BY <3>1, <3>4
    <3> QED BY <1>3, <3>5
  <2> QED BY <1>4, <2>1, <2>2 DEF PopAwake
<1>6. (Cardinality(Full) <= PopTokens + Cardinality(Poppers))'
  BY <1>3, <1>4, <1>5
<1> QED BY <1>6 DEF PopAwake

\* A step that changes the state of one element, and the position of none.
LEMMA PopSwap ==
    ASSUME Types, Types', NEW t \in Thread, OthersStay(t), NEW q, NEW e, PopAwake(q, e),
           NEW x, NEW y, SwapOf(t, x, y), x # "FULL" \/ y # "FULL",
           NEW n \in Int, n = One(y = "FULL") - One(x = "FULL"), PopStep(t, n), LooksKept(t, q, q)
    PROVE  PopAwake(q, e)'
<1>1. PICK i \in Slot : /\ d_states[i].st = x /\ d_states'[i].st = y
                        /\ \A j \in Slot \ {i} : d_states'[j] = d_states[j]
  BY DEF SwapOf
<1>2. FullGrows(e, e, n)
  <2>1. \A j \in Slot \ {i} : e[j] = e[j]
    OBVIOUS
  <2> QED BY <1>1, <2>1, FullSwaps, Zenon
<1> QED BY <1>2, PopKept

\* No change of a state but the one from EMPTY acquires a position.
LEMMA SwapAcquired ==
    ASSUME NEW t, NEW x, NEW y, SwapOf(t, x, y), x # "EMPTY", NEW q \in Nat, NEW e \in [Slot -> Nat],
           Acquired(q, e)'
    PROVE  Acquired(q, e)
<1>1. PICK i \in Slot : /\ d_states[i].st = x /\ d_states'[i].st = y
                        /\ \A j \in Slot \ {i} : d_states'[j] = d_states[j]
  BY DEF SwapOf
<1>2. Elem(q) \in Slot
  BY ElemType
<1>3. \/ e[Elem(q)] > q
      \/ e[Elem(q)] = q /\ d_states'[Elem(q)].st # "EMPTY"
  BY AcquiredNext
<1> QED BY <1>1, <1>2, <1>3 DEF Acquired


\* A step that moves the indices at most.
LEMMA OnwardPop ==
    ASSUME TwoGenerations, RingInv, RingInv', TimelyLooks, TimelyLooks', NeverDisabled,
           NEW t \in Thread, OthersStay(t), OtherStep(t) \/ (ManagerCall(t) /\ ReadsOrMoves(t)),
           NEW h \in Nat, NEW q \in Nat, NEW e \in [Slot -> Nat], Ring(h, q, e),
           d_states' = d_states, Advancing(q, e), PopAwake(q, e), LooksRight(q),
           NEW r \in Nat, r = q \/ r = q + 1, d_pushIndex'.index = Word(r), LooksKept(t, q, r)
    PROVE  PopAwake(r, e)'
<1>1. /\ SafeInv /\ Types /\ Types' /\ WaitersCounted'
      /\ pc[t] = "check_enabled" => op[t] = "pushBack"
  BY DEF RingInv, SafeInv, LooksRight
<1>2. CASE PopStep(t, 0)
  BY <1>1, <1>2, FullSame, PopKept
<1>3. CASE ReservePopEmpty(t) /\ pc'[t] = "ret"
  <2>1. pc[t] = "pop_swap" /\ (PopSeesPrevious(t) \/ Holds(loaded[t], "EMPTY"))
    BY <1>3 DEF ReservePopEmpty, Goto, Return
  <2>2. Full = {}
    BY <2>1, EmptyIsEmpty
  <2> QED BY <1>1, <2>2, PopNoneFull
<1>4. CASE d_numWaitingPoppers' = 0
  BY <1>1, <1>4, PopNobody
<1>5. CASE LengthLoadPush(t) /\ op[t] = "popFront"
  <2>1. d_pushIndex' = d_pushIndex
    BY <1>5 DEF LengthLoadPush, sharedVars
  <2>2. Word(r) = Word(q)
    BY <2>1 DEF Ring
  <2>3. r = q
    BY <2>2, SameWord
  <2> QED BY <1>1, <1>5, <2>3, PopLooks
<1>6. CASE LengthLoadPop(t) /\ op[t] = "popFront" /\ 0 >= lengthOf(loaded[t], d_popIndex)
  BY <1>1, <1>6, PopSleeps
<1>7. ~disable(t)
  BY DEF NeverDisabled, disable
<1> QED BY <1>1, <1>2, <1>3, <1>4, <1>5, <1>6, <1>7, MovesPop, OthersPop

\* A step that changes no state.
LEMMA OnwardRest ==
    ASSUME TwoGenerations, RingInv, RingInv', Timely', TimelyLooks, TimelyLooks',
           NEW t \in Thread, OthersStay(t), ThreadStep(t) \/ ClientCall(t),
           OtherStep(t) \/ (ManagerCall(t) /\ ReadsOrMoves(t)),
           NEW h \in Nat, NEW q \in Nat, NEW e \in [Slot -> Nat], RestRing(h, q, e)
    PROVE  \E g, r \in Nat : RestRing(g, r, e)'
<1>0. /\ SafeInv /\ SafeInv' /\ Ring(h, q, e) /\ LooksRight(q) /\ d_pushIndex.index = Word(q)
      /\ NeverDisabled => Advancing(q, e) /\ PopAwake(q, e)
  BY DEF RingInv, RestRing, Ring
<1>1. Onward(h, q, e) /\ UNCHANGED <<d_states, own>>
  BY <1>0, OnwardSteps
<1>2. PICK g \in Nat, r \in Nat : Ring(g, r, e)' /\ (r = q \/ r = q + 1)
  BY <1>1 DEF Onward
<1>3. d_pushIndex'.index = Word(r)
  <2>1. d_pushIndex'.index = Word(r)'
    BY <1>2 DEF Ring
  <2> QED BY <2>1, Rigid
<1>4. LooksRight(r)' /\ LooksKept(t, q, r)
  BY <1>0, <1>2, <1>3, LooksNext
<1>5. ASSUME NeverDisabled' PROVE Advancing(r, e)' /\ PopAwake(r, e)'
  <2>1. NeverDisabled
    BY <1>5 DEF NeverDisabled, OthersStay, CountStays
  <2>2. ~d_pushIndex'.disabled
    BY <1>0, <2>1, StaysEnabled DEF Advancing
  <2>3. Advancing(r, e)'
    BY <1>0, <1>1, <1>2, <2>1, <2>2, OnwardAdvancing
  <2>4. PopAwake(r, e)'
    BY <1>0, <1>1, <1>2, <1>3, <1>4, <2>1, OnwardPop
  <2> QED BY <2>3, <2>4
<1> QED BY <1>2, <1>4, <1>5 DEF RestRing

\* A step that changes an element's state: the index stays.
LEMMA SwapRest ==
    ASSUME TwoGenerations, RingInv, RingInv', Timely', TimelyLooks',
           NEW t \in Thread, OthersStay(t), ThreadStep(t) \/ ClientCall(t),
           NEW h \in Nat, NEW q \in Nat, NEW e \in [Slot -> Nat], RestRing(h, q, e),
           NEW f \in [Slot -> Nat], Ring(h, q, f)',
           NeverDisabled /\ ~d_pushIndex'.disabled /\ LooksKept(t, q, q)
             /\ Advancing(q, e) /\ PopAwake(q, e) => Advancing(q, f)' /\ PopAwake(q, f)'
    PROVE  RestRing(h, q, f)'
<1>0. /\ SafeInv /\ Ring(h, q, e) /\ LooksRight(q) /\ d_pushIndex.index = Word(q)
      /\ NeverDisabled => Advancing(q, e) /\ PopAwake(q, e)
  BY DEF RingInv, RestRing, Ring
<1>1. d_pushIndex'.index = Word(q)
  <2>1. d_pushIndex'.index = Word(q)'
    BY DEF Ring
  <2> QED BY <2>1, Rigid
<1>2. LooksRight(q)' /\ LooksKept(t, q, q)
  BY <1>0, <1>1, LooksNext
<1>3. ASSUME NeverDisabled' PROVE Advancing(q, f)' /\ PopAwake(q, f)'
  <2>1. NeverDisabled
    BY <1>3 DEF NeverDisabled, OthersStay, CountStays
  <2>2. ~d_pushIndex'.disabled
    BY <1>0, <2>1, StaysEnabled DEF Advancing
  <2> QED BY <1>0, <1>2, <2>1, <2>2
<1> QED BY <1>2, <1>3 DEF RestRing

\* An element that has been read is free, for the position one round later.
LEMMA EmptiesPop ==
    ASSUME TwoGenerations, RingInv, RingInv', Timely', NEW t \in Thread, OthersStay(t),
           NEW h \in Nat, NEW q \in Nat, NEW e \in [Slot -> Nat], Ring(h, q, e),
           NEW c, Empties(t, c), NEW f \in [Slot -> Nat], Ring(h, q, f)',
           f[index(c)] = e[index(c)] + Capacity, \A j \in Slot \ {index(c)} : f[j] = e[j],
           ~d_pushIndex'.disabled, LooksKept(t, q, q), Advancing(q, e), PopAwake(q, e)
    PROVE  Advancing(q, f)' /\ PopAwake(q, f)'
<1>1. /\ SafeInv /\ SafeInv' /\ Types /\ Types' /\ PopStep(t, 0)
  BY SwapsPop DEF RingInv, SafeInv
<1>2. PICK i \in Slot :
         /\ i = index(c) /\ d_states[i].st = "READING" /\ d_states'[i].st = "EMPTY"
         /\ \A j \in Slot \ {i} : d_states'[j] = d_states[j]
  BY <1>1, EmptiesRing
<1>3. FullGrows(e, f, 0)
  <2>1. 0 = One("EMPTY" = "FULL") - One("READING" = "FULL") /\ 0 \in Int
    BY DEF One
  <2>2. /\ d_states[i].st = "READING" /\ d_states'[i].st = "EMPTY"
        /\ \A j \in Slot \ {i} : f[j] = e[j]
        /\ \A j \in Slot \ {i} : d_states'[j] = d_states[j]
    BY <1>2
  <2> QED BY <2>1, <2>2, FullSwaps
<1>4. PopAwake(q, f)'
  BY <1>1, <1>3, PopKept
<1>5. pc[t] # "push_advance"
  BY DEF Empties, TakeAndCommit, RemoveElement, ClearElement, AbortEmpty, RemoveNext, Goto
<1>6. ASSUME Acquired(q, f)' PROVE Acquired(q, e)
  <2>1. PICK j \in Slot : j = Elem(q)
    BY ElemType
  <2>2. f[j] > q \/ (f[j] = q /\ d_states'[j].st # "EMPTY")
    BY <1>6, <2>1, AcquiredNext
  <2>3. CASE j # i
    <3>1. f[j] = e[j] /\ d_states'[j] = d_states[j]
      BY <1>2, <2>3
    <3> QED BY <2>1, <2>2, <3>1 DEF Acquired
  <2>4. CASE j = i
    <3>1. PICK a \in Nat : a = e[i] /\ Elem(a) = Elem(q) /\ a <= q
      <4>1. SlotRight(i, h, q, e[i]) /\ e[i] \in Nat
        BY DEF Ring
      <4> QED BY <1>2, <2>1, <2>4, <4>1 DEF SlotRight
    <3>2. f[i] = a + Capacity
      BY <1>2, <3>1
    <3>3. q < a + Capacity
      BY <1>2, <2>2, <2>4, <3>2
    <3>4. a = q
      <4>1. a < q => a + Capacity <= q
        BY <3>1, SamePlace
      <4> QED BY <3>1, <3>3, <4>1, Constants
    <3> QED BY <1>2, <2>1, <2>4, <3>1, <3>4 DEF Acquired
  <2> QED BY <2>3, <2>4
<1>7. Advancing(q, f)'
  BY <1>5, <1>6, SwapAdvancing
<1> QED BY <1>4, <1>7

\* A step that changes the state of one element, but neither index.
LEMMA SwapsRest ==
    ASSUME TwoGenerations, RingInv, RingInv', Timely', TimelyLooks',
           NEW t \in Thread, OthersStay(t), ThreadStep(t) \/ ClientCall(t),
           NEW h \in Nat, NEW q \in Nat, NEW e \in [Slot -> Nat], RestRing(h, q, e),
           Ring(h, q, e)', NEW x, NEW y, SwapOf(t, x, y), x # "FULL" \/ y # "FULL",
           PopStep(t, One(y = "FULL") - One(x = "FULL")),
           \/ x # "EMPTY" /\ pc[t] # "push_advance"
           \/ ReservePushAcquire(t) /\ loaded[t] = Word(q)
    PROVE  \E g, r \in Nat : \E f \in [Slot -> Nat] : RestRing(g, r, f)'
<1>0. SafeInv /\ Types /\ Types'
  BY DEF RingInv, SafeInv
<1>1. ASSUME NeverDisabled, ~d_pushIndex'.disabled, LooksKept(t, q, q), Advancing(q, e), PopAwake(q, e)
      PROVE  Advancing(q, e)' /\ PopAwake(q, e)'
  <2>1. One(y = "FULL") - One(x = "FULL") \in Int
    BY DEF One
  <2>2. PopAwake(q, e)'
    BY <1>0, <1>1, <2>1, PopSwap
  <2>3. CASE x # "EMPTY" /\ pc[t] # "push_advance"
    <3>1. Acquired(q, e)' => Acquired(q, e)
      BY <2>3, SwapAcquired
    <3>2. Advancing(q, e)'
      BY <1>1, <2>3, <3>1, SwapAdvancing
    <3> QED BY <2>2, <3>2
  <2>4. CASE ReservePushAcquire(t) /\ loaded[t] = Word(q)
    BY <1>0, <1>1, <2>2, <2>4, AcquireAdvancing
  <2> QED BY <2>3, <2>4
<1>2. RestRing(h, q, e)'
  BY <1>1, SwapRest
<1> QED BY <1>2

\* Every step of a thread.
LEMMA StepRest ==
    ASSUME TwoGenerations, RingInv, RingInv', Timely', TimelyLooks, TimelyLooks',
           NEW t \in Thread, ThreadStep(t) \/ ClientCall(t),
           NEW h \in Nat, NEW q \in Nat, NEW e \in [Slot -> Nat], RestRing(h, q, e)
    PROVE  \E g, r \in Nat : \E f \in [Slot -> Nat] : RestRing(g, r, f)'
<1>1. /\ SafeInv /\ SafeInv' /\ OthersStay(t) /\ SameOthers(t) /\ Ring(h, q, e)
      /\ CallRight(t)
  <2>1. SafeInv /\ SafeInv' /\ Ring(h, q, e) /\ CallRight(t)
    BY RightOf DEF RingInv, RestRing
  <2> QED BY <2>1, OthersStayPut DEF OthersStay
<1>2. CASE OtherStep(t) \/ (ManagerCall(t) /\ ReadsOrMoves(t))
  <2>1. \E g, r \in Nat : RestRing(g, r, e)'
    BY <1>1, <1>2, OnwardRest
  <2> QED BY <2>1
<1>3. ASSUME NEW c, Empties(t, c)
      PROVE  \E g, r \in Nat : \E f \in [Slot -> Nat] : RestRing(g, r, f)'
  <2>1. PICK f \in [Slot -> Nat] : /\ Ring(h, q, f)' /\ f[index(c)] = e[index(c)] + Capacity
                                   /\ \A j \in Slot \ {index(c)} : f[j] = e[j]
    BY <1>1, <1>3, EmptiesRing
  <2>2. NeverDisabled /\ ~d_pushIndex'.disabled /\ LooksKept(t, q, q)
          /\ Advancing(q, e) /\ PopAwake(q, e) => Advancing(q, f)' /\ PopAwake(q, f)'
    BY <1>1, <1>3, <2>1, EmptiesPop
  <2>3. RestRing(h, q, f)'
    BY <1>1, <2>1, <2>2, SwapRest
  <2> QED BY <2>3
<1>4. CASE ConstructAndCommit(t)
  <2>1. SwapOf(t, "WRITING", "FULL") /\ PopStep(t, 1) /\ Ring(h, q, e)'
    BY <1>1, <1>4, SwapsStates, SwapsPop, ConstructRing
  <2>2. One("FULL" = "FULL") - One("WRITING" = "FULL") = 1
    BY DEF One
  <2>3. pc[t] # "push_advance"
    BY <1>4 DEF ConstructAndCommit, Goto
  <2> QED BY <1>1, <2>1, <2>2, <2>3, SwapsRest
<1>5. CASE ManagerCall(t) /\ ~ReadsOrMoves(t)
  <2>0. UNCHANGED callVars
    BY <1>5 DEF ManagerCall
  <2>1. CASE ReservePushAcquire(t)
    <3>1. SwapOf(t, "EMPTY", "WRITING") /\ PopStep(t, 0) /\ Ring(h, q, e)' /\ loaded[t] = Word(q)
      BY <1>1, <1>5, <2>0, <2>1, SwapsStates, SwapsPop, PushAcquireRing
    <3>2. One("WRITING" = "FULL") - One("EMPTY" = "FULL") = 0
      BY DEF One
    <3> QED BY <1>1, <2>1, <3>1, <3>2, SwapsRest
  <2>2. CASE ReservePopAcquire(t)
    <3>1. SwapOf(t, "FULL", "READING") /\ PopStep(t, -1) /\ Ring(h, q, e)'
      BY <1>1, <1>5, <2>0, <2>2, SwapsStates, SwapsPop, PopAcquireRing
    <3>2. One("READING" = "FULL") - One("FULL" = "FULL") = -1
      BY DEF One
    <3>3. pc[t] # "push_advance"
      BY <2>2 DEF ReservePopAcquire, Goto
    <3> QED BY <1>1, <3>1, <3>2, <3>3, SwapsRest
  <2>3. CASE ReserveClearSwap(t) /\ Holds(loaded[t], "FULL")
    <3>1. SwapOf(t, "FULL", "READING") /\ PopStep(t, -1) /\ Ring(h, q, e)'
      BY <1>1, <1>5, <2>0, <2>3, SwapsStates, SwapsPop, ClearAcquireRing
    <3>2. One("READING" = "FULL") - One("FULL" = "FULL") = -1
      BY DEF One
    <3>3. pc[t] # "push_advance"
      BY <2>3 DEF ReserveClearSwap, Goto
    <3> QED BY <1>1, <3>1, <3>2, <3>3, SwapsRest
  <2>4. CASE AbortReading(t)
    <3>1. SwapOf(t, "WRITING", "READING") /\ PopStep(t, 0) /\ Ring(h, q, e)'
      BY <1>1, <1>5, <2>0, <2>4, SwapsStates, SwapsPop, AbortReadingRing
    <3>2. One("READING" = "FULL") - One("WRITING" = "FULL") = 0
      BY DEF One
    <3>3. pc[t] # "push_advance"
      BY <2>4 DEF AbortReading, Goto
    <3> QED BY <1>1, <3>1, <3>2, <3>3, SwapsRest
  <2>5. CASE AbortEmpty(t) /\ UNCHANGED <<callVars, queueVars>>
    BY <1>3, <2>5 DEF Empties
  <2> QED BY <1>5, <2>1, <2>2, <2>3, <2>4, <2>5, ManagerCases
<1>6. CASE TakeAndCommit(t) \/ RemoveElement(t) \/ ClearElement(t)
  BY <1>3, <1>6 DEF Empties
<1> QED BY <1>2, <1>4, <1>5, <1>6, StepCases

LEMMA StutterRest == ASSUME RestInv, UNCHANGED vars PROVE RestInv'
<1>1. RingInv'
  BY StutterRing DEF RestInv
<1>2. /\ UNCHANGED <<d_pushIndex, d_popIndex, d_states, pc, loaded, own, result, op, count, role>>
      /\ UNCHANGED <<d_pushControlSema, d_popControlSema>>
  BY DEF vars, managerVars, sharedVars, threadVars, callVars, queueVars, waitVars
<1>3. CountRight'
  BY <1>2 DEF RestInv, CountRight
<1>4. PushAwake'
  <2>1. /\ Dozers' = Dozers /\ Sleepers("pushBack")' = Sleepers("pushBack")
        /\ Pushers' = Pushers /\ Free' = Free
    BY <1>2 DEF Dozers, Sleepers, Pushers, Free
  <2>2. \A u \in Thread : Owes(u)' = Owes(u)
    BY <1>2 DEF Owes
  <2>3. [u \in Thread |-> Owes(u)]' = [u \in Thread |-> Owes(u)]
    BY <2>2
  <2>4. PushTokens' = PushTokens
    BY <1>2, <2>3 DEF PushTokens, SumOf
  <2> QED BY <1>2, <2>1, <2>4 DEF RestInv, PushAwake
<1>5. PICK h \in Nat, q \in Nat : \E e \in [Slot -> Nat] : RestRing(h, q, e)
  BY DEF RestInv
<1>6. PICK e \in [Slot -> Nat] : RestRing(h, q, e)
  BY <1>5
<1>7. Ring(h, q, e)'
  BY <1>2, <1>6 DEF RestRing, Ring, SlotRight, PushRight, PopRight, OwnRight, Acquired, Taken,
     Elem, Word, index, generation
<1>8. \A u \in Thread, p \in Nat : Near(u, p, q)' <=> Near(u, p, q)
  BY <1>2 DEF Near, Word, Turn, d_maxCombinedIndex
<1>9. LooksRight(q)'
  BY <1>2, <1>6, <1>8 DEF RestRing, LooksRight
<1>10. ASSUME NeverDisabled' PROVE Advancing(q, e)' /\ PopAwake(q, e)'
  <2>1. Advancing(q, e) /\ PopAwake(q, e)
    BY <1>2, <1>6, <1>10 DEF RestRing, NeverDisabled
  <2>2. Advancing(q, e)'
    BY <1>2, <2>1 DEF Advancing, Acquired, Elem, Word, index, Turn, d_maxCombinedIndex
  <2>3. /\ Poppers' = Poppers /\ Sleepers("popFront")' = Sleepers("popFront")
        /\ Lookers' = Lookers /\ Full' = Full /\ PopTokens' = PopTokens
    BY <1>2 DEF Poppers, Sleepers, Lookers, Full, PopTokens
  <2>4. \A p : After(p, e)' = After(p, e)
    BY <2>3 DEF After
  <2>5. \A u \in Lookers : u \in Thread
    BY DEF Lookers
  <2>6. PopAwake(q, e)'
    BY <1>8, <2>1, <2>3, <2>4, <2>5 DEF PopAwake
  <2> QED BY <2>2, <2>6
<1>11. RestRing(h, q, e)'
  BY <1>7, <1>9, <1>10 DEF RestRing
<1> QED BY <1>1, <1>3, <1>4, <1>11 DEF RestInv

LEMMA NextRest ==
    ASSUME TwoGenerations, RestInv, Timely', TimelyLooks, TimelyLooks', [Next]_vars
    PROVE  RestInv'
<1> SUFFICES ASSUME Next PROVE RestInv'
  BY StutterRest
<1>1. RingInv /\ RingInv' /\ SafeInv' /\ CountRight /\ PushAwake
  <2>1. RingInv /\ CountRight /\ PushAwake
    BY DEF RestInv
  <2>2. RingInv'
    BY <2>1, NextRing
  <2> QED BY <2>1, <2>2 DEF RingInv
<1>2. PICK t \in Thread : ThreadStep(t) \/ ClientCall(t)
  BY DEF Next
<1>3. PICK h \in Nat, q \in Nat : \E e \in [Slot -> Nat] : RestRing(h, q, e)
  BY DEF RestInv
<1>4. PICK e \in [Slot -> Nat] : RestRing(h, q, e)
  BY <1>3
<1>5. Ring(h, q, e) /\ LooksRight(q)
  BY <1>4 DEF RestRing
<1>6. CountRight' /\ PushAwake'
  BY <1>1, <1>2, <1>5, PushNext
<1>7. \E g, r \in Nat : \E f \in [Slot -> Nat] : RestRing(g, r, f)'
  BY <1>1, <1>2, <1>4, StepRest
<1> QED BY <1>1, <1>6, <1>7 DEF RestInv

-----------------------------------------------------------------------------
(* The start, and what follows at rest *)

LEMMA StartsRest == ASSUME Init PROVE RestInv
<1>1. RingInv
  BY StartsRing
<1>2. PICK h \in Nat, q \in Nat, e \in [Slot -> Nat] : Ring(h, q, e)
  BY <1>1 DEF RingInv
<1>3. /\ \A t \in Thread : pc[t] = "idle" /\ op[t] = "none" /\ result[t] = "none"
      /\ \A i \in Slot : d_states[i].st = "EMPTY"
      /\ d_pushIndex.disabled = FALSE /\ d_popIndex = d_pushIndex.index
      /\ d_pushControlSema = 0 /\ d_popControlSema = 0
  BY DEF Init, InitRing
<1>4. Full = {} /\ Poppers = {} /\ Dozers = {}
  BY <1>3 DEF Full, Poppers, Dozers
<1>5. PICK a \in Nat : a = e[Elem(h)] /\ a = h /\ q <= a
  <2>1. PICK i \in Slot, a \in Nat : i = Elem(h) /\ a = e[i] /\ Elem(a) = Elem(h)
    BY <1>1, <1>2, PlaceOf
  <2>2. (a < h => a + Capacity <= h) /\ (h < a => h + Capacity <= a)
    BY <2>1, SamePlace
  <2>3. q <= a /\ h <= a /\ a < h + Capacity
    BY <1>2, <1>3, <2>1 DEF Ring, SlotRight
  <2> QED BY <2>1, <2>2, <2>3, Constants
<1>6. h = q
  <2>1. h <= q + 1 /\ Word(h) = Word(q)
    BY <1>2, <1>3 DEF Ring
  <2>2. h = q \/ h = q + 1
    BY <1>5, <2>1
  <2> QED BY <2>1, <2>2, GenerationsAreTwo, SameWord
<1>7. ~Acquired(q, e)
  <2>1. Elem(q) \in Slot /\ d_states[Elem(q)].st = "EMPTY"
    BY <1>3, ElemType
  <2>2. e[Elem(q)] = q
    BY <1>5, <1>6
  <2> QED BY <2>1, <2>2 DEF Acquired
<1>8. Advancing(q, e)
  BY <1>3, <1>7 DEF Advancing
<1>9. PopAwake(q, e)
  <2>1. {t \in Thread : pc[t] \in {"check_poppers", "post_popper"}} = {}
    BY <1>3
  <2>2. Cardinality({}) = 0
    BY FS_EmptySet
  <2>3. PopTokens = 0
    BY <1>3, <2>1, <2>2 DEF PopTokens
  <2>4. Cardinality(Full) = 0 /\ Cardinality(Poppers) = 0
    BY <1>4, <2>2
  <2> QED BY <2>3, <2>4 DEF PopAwake
<1>10. PushAwake
  <2> DEFINE f == [t \in Thread |-> Owes(t)]
  <2>1. \A t \in Thread : f[t] = 0
    BY <1>3 DEF Owes, PopCalls, Clears, Aborts
  <2>2. f \in [Thread -> Nat]
    BY <2>1
  <2>3. SumOf(f) = 0
    BY <2>1, <2>2, SumZero
  <2> HIDE DEF f
  <2>4. PushTokens = 0
    BY <1>3, <2>3 DEF PushTokens, f
  <2>5. Cardinality(Dozers) = 0
    BY <1>4, FS_EmptySet
  <2> QED BY <2>4, <2>5 DEF PushAwake
<1>11. CountRight /\ LooksRight(q)
  BY <1>3 DEF CountRight, LooksRight, Clears, Aborts
<1> QED BY <1>1, <1>2, <1>8, <1>9, <1>10, <1>11 DEF RestInv, RestRing

\* What nothing that moves leaves: no reservation, no promise of a token.
LEMMA NothingMoves ==
    ASSUME RestInv, AtRest
    PROVE  /\ \A t \in Thread : pc[t] \in {"idle", "wait"} /\ own[t] = None
           /\ \A i \in Slot : d_states[i].st \in {"EMPTY", "FULL"}
           /\ Items = Full /\ PushTokens = d_pushControlSema /\ PopTokens = d_popControlSema
           /\ Pushers = {} /\ Poppers = {}
<1>0. SafeInv /\ Owned
  BY DEF RestInv, RingInv
<1>1. \A t \in Thread : pc[t] = "idle" \/ pc[t] = "wait"
  BY DEF AtRest, Blocked
<1>2. ASSUME NEW t \in Thread PROVE own[t] = None /\ Owes(t) = 0 /\ Held(t) = {}
  <2>1. CallRight(t)
    BY <1>0 DEF SafeInv, ThreadsRight
  <2>2. own[t] = None
    BY <1>1, <2>1 DEF CallRight, Clears, Aborts
  <2>3. Owes(t) = 0
    BY <1>1 DEF Owes, PopCalls, Clears, Aborts
  <2>4. Held(t) = {}
    BY <1>1, <2>2 DEF Held
  <2> QED BY <2>2, <2>3, <2>4
<1>3. ASSUME NEW i \in Slot PROVE d_states[i].st \in {"EMPTY", "FULL"}
  <2>1. d_states[i].st \in State
    BY <1>0 DEF SafeInv, Types, ManagerTypeOK
  <2>2. ~(d_states[i].st \in {"WRITING", "READING"})
    BY <1>0, <1>2 DEF Owned
  <2> QED BY <2>1, <2>2 DEF State
<1>4. Items = Full
  BY <1>3 DEF Items, Full
<1>5. PushTokens = d_pushControlSema
  <2> DEFINE f == [t \in Thread |-> Owes(t)]
  <2>1. f \in [Thread -> Nat] /\ \A t \in Thread : f[t] = 0
    BY <1>2
  <2>2. SumOf(f) = 0
    BY <2>1, SumZero
  <2> HIDE DEF f
  <2>3. d_pushControlSema \in Nat
    BY <1>0 DEF SafeInv, Types
  <2> QED BY <2>2, <2>3 DEF PushTokens, f
<1>6. PopTokens = d_popControlSema
  <2>1. {t \in Thread : pc[t] \in {"check_poppers", "post_popper"}} = {}
    BY <1>1
  <2>2. d_popControlSema \in Nat
    BY <1>0 DEF SafeInv, Types
  <2> QED BY <2>1, <2>2, FS_EmptySet DEF PopTokens
<1>7. Pushers = {} /\ Poppers = {}
  BY <1>1 DEF Pushers, Poppers
<1> QED BY <1>1, <1>2, <1>3, <1>4, <1>5, <1>6, <1>7

\* A set with an element is not empty.
LEMMA SetSome ==
    ASSUME NEW S, IsFiniteSet(S), NEW A \in SUBSET S, NEW x \in A
    PROVE  Cardinality(A) \in Nat /\ Cardinality(A) >= 1
BY SetNone

\* A pusher sleeps only while each element is taken and the queue enabled: else it has no
\* token, though an element is free, or it sleeps in a disabled queue.
LEMMA PushersAtRest == ASSUME RestInv PROVE NoStrandedPusher
<1> SUFFICES ASSUME AtRest, NEW t \in Thread, Blocked(t), op[t] = "pushBack"
             PROVE  Items = Slot /\ ~d_pushIndex.disabled
  BY DEF NoStrandedPusher
<1>1. /\ \A u \in Thread : pc[u] \in {"idle", "wait"}
      /\ \A i \in Slot : d_states[i].st \in {"EMPTY", "FULL"}
      /\ Items = Full /\ PushTokens = d_pushControlSema /\ Pushers = {}
  BY NothingMoves
<1>2. PushTokens = 0 /\ IsFiniteSet(Thread) /\ IsFiniteSet(Slot)
  BY <1>1, Constants, SlotsFinite DEF Blocked, SemaOf, Pushing
<1>3. Cardinality(Dozers) \in Nat /\ Cardinality(Dozers) >= 1
  <2>1. Dozers \in SUBSET Thread /\ t \in Dozers
    BY DEF Dozers, Blocked
  <2> QED BY <1>2, <2>1, SetSome
<1>4. Cardinality(Sleepers("pushBack")) \in Nat /\ Cardinality(Sleepers("pushBack")) >= 1
  <2>1. Sleepers("pushBack") \in SUBSET Thread /\ t \in Sleepers("pushBack")
    BY DEF Sleepers, Blocked
  <2> QED BY <1>2, <2>1, SetSome
<1>5. Cardinality(Free) \in Nat /\ (Cardinality(Free) = 0 <=> Free = {})
  <2>1. Free \in SUBSET Slot
    BY DEF Free
  <2> QED BY <1>2, <2>1, SetNone
<1>6. ~(\E u \in Thread : pc[u] = "disabled")
  BY <1>1
<1>7. IF d_pushIndex.disabled
      THEN Cardinality(Free) + Cardinality(Sleepers("pushBack")) <= PushTokens
      ELSE Cardinality(Free) <= PushTokens + Cardinality(Pushers)
  BY <1>2, <1>3, <1>6 DEF RestInv, PushAwake
<1>8. Cardinality(Pushers) = 0
  BY <1>1, FS_EmptySet
<1>9. ~d_pushIndex.disabled
  BY <1>2, <1>4, <1>5, <1>7
<1>10. Free = {}
  BY <1>2, <1>5, <1>7, <1>8, <1>9
<1>11. Items = Slot
  BY <1>1, <1>10 DEF Free, Full
<1> QED BY <1>9, <1>11

\* A popper sleeps only while no element is full.
LEMMA PoppersAtRest == ASSUME RestInv PROVE NoLostPopWakeup
<1> SUFFICES ASSUME NeverDisabled, AtRest, NEW t \in Thread, Blocked(t), op[t] = "popFront"
             PROVE  Items = {}
  BY DEF NoLostPopWakeup, NoStrandedPopper
<1>1. Items = Full /\ PopTokens = d_popControlSema /\ Poppers = {}
  BY NothingMoves
<1>2. PopTokens = 0 /\ IsFiniteSet(Thread) /\ IsFiniteSet(Slot)
  BY <1>1, Constants, SlotsFinite DEF Blocked, SemaOf, Pushing
<1>3. PICK h \in Nat, q \in Nat, e \in [Slot -> Nat] : PopAwake(q, e)
  BY DEF RestInv, RestRing
<1>4. Cardinality(Sleepers("popFront")) \in Nat /\ Cardinality(Sleepers("popFront")) >= 1
  <2>1. Sleepers("popFront") \in SUBSET Thread /\ t \in Sleepers("popFront")
    BY DEF Sleepers, Blocked
  <2> QED BY <1>2, <2>1, SetSome
<1>5. Cardinality(Full) \in Nat /\ (Cardinality(Full) = 0 <=> Full = {})
  <2>1. Full \in SUBSET Slot
    BY DEF Full
  <2> QED BY <1>2, <2>1, SetNone
<1>6. Cardinality(Poppers) = 0
  BY <1>1, FS_EmptySet
<1>7. Cardinality(Full) <= PopTokens + Cardinality(Poppers)
  BY <1>2, <1>3, <1>4 DEF PopAwake
<1> QED BY <1>1, <1>2, <1>5, <1>6, <1>7

\* The two indices are as far apart as there are elements.
LEMMA LengthIsRight == ASSUME TwoGenerations, RestInv PROVE LengthAtRest
<1> SUFFICES ASSUME NeverDisabled, AtRest
             PROVE  lengthOf(d_pushIndex.index, d_popIndex) = Cardinality(Items)
  BY DEF LengthAtRest
<1>1. /\ \A u \in Thread : pc[u] \in {"idle", "wait"}
      /\ \A i \in Slot : d_states[i].st \in {"EMPTY", "FULL"}
  BY NothingMoves
<1>2. PICK h \in Nat, q \in Nat, e \in [Slot -> Nat] : Ring(h, q, e) /\ Advancing(q, e)
  BY DEF RestInv, RestRing
<1>3. RingInv
  BY DEF RestInv
<1>4. Past(q, e) = q
  <2>1. ~Acquired(q, e)
    BY <1>1, <1>2 DEF Advancing
  <2> QED BY <2>1 DEF Past
<1>5. First(h, e) = h
  <2>1. d_states[Elem(h)].st # "READING"
    BY <1>1, ElemType
  <2> QED BY <2>1 DEF First
<1>6. h <= q /\ Cardinality(Items) = q - h
  BY <1>2, <1>3, <1>4, <1>5, Contents, ItemsCounted
<1>7. q <= h + Capacity
  BY <1>2, <1>3, Fits
<1>8. d_pushIndex.index = Word(q) /\ d_popIndex = Word(h)
  BY <1>2 DEF Ring
<1>9. lengthOf(Word(q), Word(h)) = q - h
  BY <1>6, <1>7, LengthIs
<1> QED BY <1>6, <1>8, <1>9

\* When nothing moves any more, numElements() is the number of elements and no thread is
\* asleep that could go on, as long as no thread sleeps for a turn of the indices between
\* a load and the swap, or the conclusion, that relies on it.
THEOREM RestIsRight == Spec /\ []Timely /\ []TimelyLooks => []RightAtRest
<1>1. Init => RestInv
  BY StartsRest
<1>2. RestInv /\ Timely' /\ TimelyLooks /\ TimelyLooks' /\ [Next]_vars => RestInv'
  BY GenerationsAreTwo, NextRest
<1>3. RestInv => RightAtRest
  BY GenerationsAreTwo, LengthIsRight, PoppersAtRest, PushersAtRest DEF RightAtRest
<1> QED BY <1>1, <1>2, <1>3, PTL DEF Spec

-----------------------------------------------------------------------------
(* What a swap on one element tells of them all *)

\* The difference of the words of two positions in the ring.
LEMMA Ahead ==
    ASSUME TwoGenerations, NEW a \in Nat, NEW b \in Nat, a <= b, b < a + Capacity
    PROVE  circularDifference(Word(b), Word(a), d_maxCombinedIndex + 1) >= 0
<1>1. PICK n \in Nat, m \in Nat, k \in Nat :
         /\ n = Turn /\ n = d_maxCombinedIndex + 1 /\ m = Capacity /\ m >= 1 /\ 2 * m <= n
         /\ k = n \div 2 /\ (n = 2 * k \/ n = 2 * k + 1)
  <2>1. Turn \in Nat /\ Turn = d_maxCombinedIndex + 1
    BY Turns DEF Turn
  <2>2. /\ Turn \div 2 \in Nat /\ Turn % 2 \in Nat /\ Turn % 2 < 2
        /\ Turn = 2 * (Turn \div 2) + (Turn % 2)
    BY <2>1, Division
  <2>3. Capacity * 2 <= Capacity * numRepresentableGenerations
    BY Generations, Constants, ProductGrows DEF TwoGenerations
  <2> QED BY <2>1, <2>2, <2>3, Turns, Constants
<1>2. PICK v \in Nat, w \in Nat : v = Word(a) /\ w = Word(b) /\ v < n /\ w < n
  <2>1. Word(a) \in Nat /\ Word(a) < Turn /\ Word(b) \in Nat /\ Word(b) < Turn
    BY WordType
  <2> QED BY <1>1, <2>1
<1>3. IF v <= w THEN w - v = b - a ELSE (w - v) + n = b - a
  <2>1. b < a + Turn
    BY <1>1
  <2> QED BY <1>1, <1>2, <2>1, Circle DEF Behind
<1>4. PICK d \in Int : d = w - v
  OBVIOUS
<1>5. CASE d >= 0
  <2>1. d = b - a /\ ~(d > k) /\ ~(d < -k)
    BY <1>1, <1>3, <1>4, <1>5
  <2> QED BY <1>1, <1>2, <1>4, <1>5, <2>1 DEF circularDifference
<1>6. CASE d < 0
  <2>1. d + n = b - a /\ ~(d > k) /\ d < -k
    BY <1>1, <1>3, <1>4, <1>6
  <2>2. d + n >= 0
    BY <2>1
  <2> QED BY <1>1, <1>2, <1>4, <2>1, <2>2 DEF circularDifference
<1> QED BY <1>5, <1>6

\* A swap takes the oldest item.
LEMMA TakesOldest ==
    ASSUME TwoGenerations, RingInv, NEW t \in Thread,
           pc[t] \in {"pop_swap", "clear_swap"}, Holds(loaded[t], "FULL"),
           SwapOf(t, "FULL", "READING"), SetState(loaded[t], generation(loaded[t]), "READING")
    PROVE  OldestIsTaken
<1>1. PICK h \in Nat, q \in Nat, e \in [Slot -> Nat] : Ring(h, q, e)
  BY DEF RingInv
<1>2. /\ loaded[t] = Word(h) /\ Elem(h) = index(loaded[t]) /\ Elem(h) \in Slot
      /\ e[Elem(h)] = h /\ d_states[Elem(h)].st = "FULL"
      /\ h <= q /\ q <= h + Capacity
  BY <1>1, FullIsOldest
<1> SUFFICES ASSUME NEW i \in Slot, d_states[i].st = "FULL", d_states'[i].st = "READING",
                    NEW j \in Items
             PROVE  circularDifference(d_states[j].gen * Capacity + j,
                                       d_states[i].gen * Capacity + i,
                                       d_maxCombinedIndex + 1) >= 0
  BY DEF OldestIsTaken
<1>3. i = Elem(h)
  <2>1. d_states \in [Slot -> [gen : Gen, st : State]]
    BY DEF RingInv, SafeInv, Types, ManagerTypeOK
  <2>2. \A k \in Slot \ {index(loaded[t])} : d_states'[k] = d_states[k]
    BY <2>1 DEF SetState
  <2> QED BY <1>2, <2>2
<1>4. ASSUME NEW k \in Slot, NEW a \in Nat, a = e[k]
      PROVE  d_states[k].gen * Capacity + k = Word(a) /\ Elem(a) = k
  <2>1. d_states[k].gen = generation(Word(a)) /\ k = index(Word(a)) /\ Elem(a) = k
    BY <1>1, <1>4 DEF Ring, SlotRight, Elem
  <2>2. /\ generation(Word(a)) \in Nat /\ index(Word(a)) \in Nat
        /\ Word(a) = Capacity * generation(Word(a)) + index(Word(a))
    BY WordType, Whole
  <2>3. generation(Word(a)) * Capacity = Capacity * generation(Word(a))
    BY <2>2, Constants
  <2> QED BY <2>1, <2>2, <2>3
<1>5. j \in Slot /\ d_states[j].st \in {"WRITING", "FULL"}
  BY DEF Items
<1>6. PICK b \in Nat : b = e[j] /\ h <= b /\ b < h + Capacity
  BY <1>1, <1>5 DEF Ring, SlotRight
<1>7. d_states[j].gen * Capacity + j = Word(b) /\ d_states[i].gen * Capacity + i = Word(h)
  BY <1>2, <1>3, <1>4, <1>5, <1>6
<1> QED BY <1>6, <1>7, Ahead

\* No other step starts to read an element.
LEMMA TakesNone ==
    ASSUME NEW t \in Thread, NEW x, NEW y, SwapOf(t, x, y), x # "FULL" \/ y # "READING"
    PROVE  OldestIsTaken
BY DEF SwapOf, OldestIsTaken

\* A step after which its thread has returned from a reservation, full or empty.
LEMMA ReportsAt ==
    ASSUME SafeInv, NEW t \in Thread, ThreadStep(t) \/ ClientCall(t), pc'[t] = "ret"
    PROVE  /\ ManagerCall(t)
           /\ pc[t] = "push_swap" => ReservePushBehind(t) /\ was(loaded[t]).st # "READING"
           /\ pc[t] = "pop_swap" => PopSeesPrevious(t) \/ Holds(loaded[t], "EMPTY")
<1>0. pc \in [Thread -> QueuePC]
  BY DEF SafeInv, Types
<1>1. ~OtherStep(t)
  BY OtherOutside DEF OutsideOf, CallMoves
<1>2. ~(ConstructAndCommit(t) \/ TakeAndCommit(t) \/ RemoveElement(t) \/ ClearElement(t))
  BY <1>0 DEF ConstructAndCommit, TakeAndCommit, RemoveElement, RemoveNext, ClearElement, Goto
<1>3. ManagerCall(t)
  BY <1>1, <1>2, StepCases
<1>4. CASE pc[t] = "push_swap"
  <2>1. ReservePushSwap(t)
    BY <1>3, <1>4 DEF ManagerCall, ManagerStep, reservePushIndex, reservePopIndex,
       reservePopIndexForClear, abortPushIndexReservation, ReservePushLoad, ReservePushHelp,
       ReservePushAdvance, ReservePopLoad, ReservePopSwap, ReservePopAcquire, ReservePopEmpty,
       ReservePopRetry, ReservePopTaken, ReservePopHelp, ReservePopAdvance, ReserveClearLoad,
       ReserveClearSwap, ReserveClearHelp, ReserveClearAdvance, AbortReading, AbortAdvance,
       AbortEmpty, Return, Goto
  <2> QED BY <1>0, <1>3, <1>4, <2>1 DEF ReservePushSwap, ReservePushAcquire, ReservePushBehind,
          ReservePushTaken, Goto, Return
<1>5. CASE pc[t] = "pop_swap"
  <2>1. ReservePopSwap(t)
    BY <1>3, <1>5 DEF ManagerCall, ManagerStep, reservePushIndex, reservePopIndex,
       reservePopIndexForClear, abortPushIndexReservation, ReservePushLoad, ReservePushSwap,
       ReservePushAcquire, ReservePushBehind, ReservePushTaken, ReservePushHelp,
       ReservePushAdvance, ReservePopLoad, ReservePopHelp, ReservePopAdvance, ReserveClearLoad,
       ReserveClearSwap, ReserveClearHelp, ReserveClearAdvance, AbortReading, AbortAdvance,
       AbortEmpty, Return, Goto
  <2> QED BY <1>0, <1>3, <1>5, <2>1 DEF ReservePopSwap, ReservePopAcquire, ReservePopEmpty,
          ReservePopRetry, ReservePopTaken, Goto, Return
<1> QED BY <1>3, <1>4, <1>5

\* Every step of a thread.
LEMMA StepReports ==
    ASSUME TwoGenerations, RingInv, RingInv', Timely', TimelyLooks,
           NEW t \in Thread, ThreadStep(t) \/ ClientCall(t)
    PROVE  FullIsTrue /\ EmptyIsTrue /\ OldestIsTaken
<1>0. PICK h \in Nat, q \in Nat, e \in [Slot -> Nat] : Ring(h, q, e)
  BY DEF RingInv
<1>1. SafeInv /\ SafeInv' /\ SameOthers(t)
  <2>1. SafeInv /\ SafeInv'
    BY DEF RingInv
  <2> QED BY <2>1, OthersStayPut DEF OthersStay
<1>2. FullIsTrue
  <2> SUFFICES ASSUME NEW u \in Thread, pc[u] = "push_swap", pc'[u] = "ret" PROVE Items = Slot
    BY DEF FullIsTrue
  <2>1. u = t
    BY <1>1 DEF SameOthers
  <2>2. PushSeesPrevious(t) /\ was(loaded[t]).st # "READING"
    BY <1>1, <2>1, ReportsAt DEF ReservePushBehind
  <2> QED BY <1>0, <2>1, <2>2, FullIsFull
<1>3. EmptyIsTrue
  <2> SUFFICES ASSUME NEW u \in Thread, pc[u] = "pop_swap", pc'[u] = "ret" PROVE Items = {}
    BY DEF EmptyIsTrue
  <2>1. u = t
    BY <1>1 DEF SameOthers
  <2>2. PopSeesPrevious(t) \/ Holds(loaded[t], "EMPTY")
    BY <1>1, <2>1, ReportsAt
  <2> QED BY <1>0, <2>1, <2>2, EmptyIsEmpty
<1>4. OldestIsTaken
  <2>1. CASE OtherStep(t) \/ (ManagerCall(t) /\ ReadsOrMoves(t))
    <3>1. d_states' = d_states
      BY <1>0, <1>1, <2>1, OnwardSteps
    <3> QED BY <3>1 DEF OldestIsTaken
  <2>2. CASE ReservePushAcquire(t)
    BY <1>0, <1>1, <2>2, SwapsStates, TakesNone
  <2>3. CASE ReservePopAcquire(t)
    <3>1. SwapOf(t, "FULL", "READING")
      BY <1>0, <1>1, <2>3, SwapsStates
    <3> QED BY <2>3, <3>1, TakesOldest DEF ReservePopAcquire, Goto
  <2>4. CASE ReserveClearSwap(t) /\ Holds(loaded[t], "FULL")
    <3>1. SwapOf(t, "FULL", "READING")
      BY <1>0, <1>1, <2>4, SwapsStates
    <3>2. pc[t] = "clear_swap" /\ SetState(loaded[t], generation(loaded[t]), "READING")
      BY <2>4 DEF ReserveClearSwap, Goto, Holds, was
    <3> QED BY <2>4, <3>1, <3>2, TakesOldest
  <2>5. CASE ManagerCall(t) /\ AbortReading(t)
    BY <1>0, <1>1, <2>5, SwapsStates, TakesNone
  <2>6. CASE ConstructAndCommit(t)
    BY <1>0, <1>1, <2>6, SwapsStates, TakesNone
  <2>7. ASSUME NEW c, Empties(t, c) PROVE OldestIsTaken
    <3>1. SwapOf(t, "READING", "EMPTY")
      BY <1>0, <1>1, <2>7, SwapsStates
    <3> QED BY <3>1, TakesNone
  <2>8. CASE TakeAndCommit(t) \/ RemoveElement(t) \/ ClearElement(t)
    BY <2>7, <2>8 DEF Empties
  <2>9. CASE AbortEmpty(t) /\ UNCHANGED <<callVars, queueVars>>
    BY <2>7, <2>9 DEF Empties
  <2> QED BY <2>1, <2>2, <2>3, <2>4, <2>5, <2>6, <2>8, <2>9, StepCases, ManagerCases
<1> QED BY <1>2, <1>3, <1>4

\* Whatever the other threads do meanwhile, a reservation that finds a place full, or
\* empty, tells the truth about the whole queue, and one that finds a value finds the
\* oldest, as long as no thread sleeps for a turn of the indices before its swap.
THEOREM ReportsAreTrue ==
    Spec /\ []Timely /\ []TimelyLooks => [][FullIsTrue /\ EmptyIsTrue /\ OldestIsTaken]_vars
<1>1. ASSUME RingInv, RingInv', Timely', TimelyLooks, [Next]_vars
      PROVE  [FullIsTrue /\ EmptyIsTrue /\ OldestIsTaken]_vars
  BY <1>1, GenerationsAreTwo, StepReports DEF Next
<1> QED BY <1>1, RingIsKept, PTL DEF Spec

=============================================================================
