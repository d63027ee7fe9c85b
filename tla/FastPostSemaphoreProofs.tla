---------------------- MODULE FastPostSemaphoreProofs ----------------------
(***************************************************************************)
(* Proofs that the word of bslmt::FastPostSemaphoreImpl is exact: however  *)
(* many threads wait, post, take, time out and disable, no thread gets     *)
(* what was not posted, and nothing that was posted is lost.               *)
(***************************************************************************)
EXTENDS FastPostSemaphoreImpl, FiniteSetTheorems, TLAPS

\* The mutex is held by the thread that goes to sleep or comes from there.
MutexHeld ==
    \A t \in Thread : pc[t] \in {"decided", "take", "leave"} => d_waitMutex = t

\* The inductive invariant.  A thread that takes what it found relies on
\* nobody else being about to: hence MutexHeld.
SemInv == TypeOK /\ WordExact /\ MutexHeld

-----------------------------------------------------------------------------
(* The sets of threads *)

\* What one thread that comes or goes changes in the size of a set.
LEMMA OneMoves ==
    ASSUME NEW S \in SUBSET Thread, NEW R \in SUBSET Thread, NEW t \in Thread,
           R \ {t} = S \ {t}
    PROVE  /\ Cardinality(S) \in Nat /\ Cardinality(R) \in Nat
           /\ t \in S => Cardinality(S) >= 1
           /\ t \in S /\ t \in R => Cardinality(R) = Cardinality(S)
           /\ t \in S /\ t \notin R => Cardinality(R) = Cardinality(S) - 1
           /\ t \notin S /\ t \in R => Cardinality(R) = Cardinality(S) + 1
           /\ t \notin S /\ t \notin R => Cardinality(R) = Cardinality(S)
<1>1. IsFiniteSet(S) /\ IsFiniteSet(R)
  BY SemaphoreAssumption, FS_Subset DEF SemaphoreAssumption
<1>2. Cardinality(S) \in Nat /\ Cardinality(R) \in Nat
  BY <1>1, FS_CardinalityType
<1>3. t \in S => Cardinality(S \ {t}) = Cardinality(S) - 1
  BY <1>1, FS_RemoveElement
<1>4. t \in R => Cardinality(R \ {t}) = Cardinality(R) - 1
  BY <1>1, FS_RemoveElement
<1>5. t \notin S => Cardinality(S \ {t}) = Cardinality(S)
  <2>1. t \notin S => S \ {t} = S
    OBVIOUS
  <2> QED BY <2>1, Zenon
<1>6. t \notin R => Cardinality(R \ {t}) = Cardinality(R)
  <2>1. t \notin R => R \ {t} = R
    OBVIOUS
  <2> QED BY <2>1, Zenon
<1>7. Cardinality(S \ {t}) \in Nat
  BY <1>1, FS_RemoveElement, FS_CardinalityType
<1>8. Cardinality(R \ {t}) = Cardinality(S \ {t})
  OBVIOUS
<1>9. \A s, r, c : s = Cardinality(S) /\ r = Cardinality(R)
                     /\ c = Cardinality(S \ {t}) =>
        /\ s \in Nat /\ r \in Nat /\ c \in Nat
        /\ t \in S => s = c + 1
        /\ t \in R => r = c + 1
        /\ t \notin S => s = c
        /\ t \notin R => r = c
  BY <1>2, <1>3, <1>4, <1>5, <1>6, <1>7, <1>8
<1> QED BY <1>9

\* How much a thread at place p counts for.
Claim(p) == IF p \in {"refund", "slow", "enter"} THEN 1 ELSE 0
Block1(p) == IF p \in {"decided", "asleep", "take", "leave"} THEN 1 ELSE 0

\* The same for the threads that hold something and for those that are blocked.
LEMMA Moves ==
    ASSUME TypeOK, NEW t \in Thread, NEW p, pc' = [pc EXCEPT ![t] = p]
    PROVE  /\ Cardinality(Claims) \in Nat /\ Cardinality(Claims') \in Nat
           /\ Cardinality(Blocked) \in Nat /\ Cardinality(Blocked') \in Nat
           /\ Cardinality(Claims') = Cardinality(Claims) + Claim(p) - Claim(pc[t])
           /\ Cardinality(Blocked') =
                 Cardinality(Blocked) + Block1(p) - Block1(pc[t])
<1>1. /\ Claims \in SUBSET Thread /\ Claims' \in SUBSET Thread
      /\ Blocked \in SUBSET Thread /\ Blocked' \in SUBSET Thread
  BY DEF Claims, Blocked
<1>2. \A u \in Thread : pc'[u] = IF u = t THEN p ELSE pc[u]
  BY DEF TypeOK
<1>3. Claims' \ {t} = Claims \ {t} /\ Blocked' \ {t} = Blocked \ {t}
  BY <1>2 DEF Claims, Blocked
<1>4. /\ Claim(pc[t]) = IF t \in Claims THEN 1 ELSE 0
      /\ Claim(p) = IF t \in Claims' THEN 1 ELSE 0
      /\ Block1(pc[t]) = IF t \in Blocked THEN 1 ELSE 0
      /\ Block1(p) = IF t \in Blocked' THEN 1 ELSE 0
  BY <1>2 DEF Claims, Blocked, Claim, Block1
<1> HIDE DEF Claims, Blocked
<1>5. /\ Cardinality(Claims) \in Nat /\ Cardinality(Claims') \in Nat
      /\ Cardinality(Claims') = Cardinality(Claims)
                + (IF t \in Claims' THEN 1 ELSE 0)
                - (IF t \in Claims THEN 1 ELSE 0)
  BY <1>1, <1>3, OneMoves
<1>6. /\ Cardinality(Blocked) \in Nat /\ Cardinality(Blocked') \in Nat
      /\ Cardinality(Blocked') = Cardinality(Blocked)
                + (IF t \in Blocked' THEN 1 ELSE 0)
                - (IF t \in Blocked THEN 1 ELSE 0)
  BY <1>1, <1>3, OneMoves
<1> QED BY <1>4, <1>5, <1>6

\* The size of the sets when no thread moves.
LEMMA Sizes == Cardinality(Claims) \in Nat /\ Cardinality(Blocked) \in Nat
  BY SemaphoreAssumption, FS_Subset, FS_CardinalityType
     DEF SemaphoreAssumption, Claims, Blocked

\* A blocked thread is counted.
LEMMA BlockedCounted ==
    ASSUME NEW t \in Thread, Block1(pc[t]) = 1
    PROVE  Cardinality(Blocked) >= 1
<1>1. Blocked \in SUBSET Thread /\ t \in Blocked
  BY DEF Blocked, Block1
<1> QED BY <1>1, OneMoves

-----------------------------------------------------------------------------
(* The steps *)

\* What a thread that found something available takes is there: were it not,
\* the available count, which is what is there less the claims, would be less
\* than the blocked threads.
LEMMA Enough ==
    ASSUME SemInv, NEW n \in Nat, d_state.available - n >= d_state.blocked
    PROVE  /\ tokens - n >= 0
           /\ \A u \in Thread : pc[u] = "take" => tokens - n > 0
<1>1. d_state.available = tokens - Cardinality(Claims)
      /\ d_state.blocked = Cardinality(Blocked)
  BY DEF SemInv, WordExact
<1>2. d_state.available \in Int /\ d_state.blocked \in Nat /\ tokens \in Nat
  BY DEF SemInv, TypeOK, Word
<1>3. ASSUME NEW u \in Thread, pc[u] = "take" PROVE tokens - n > 0
  <2>1. Cardinality(Blocked) >= 1
    BY <1>3, BlockedCounted DEF Block1
  <2> QED BY <1>1, <1>2, <2>1, Sizes
<1> QED BY <1>1, <1>2, <1>3, Sizes

\* What Add does to the word.
LEMMA Adds ==
    ASSUME TypeOK, NEW a \in Int, NEW b \in Int, Add(a, b)
    PROVE  /\ d_state.available \in Int /\ d_state.blocked \in Nat
           /\ d_state' = [available |-> d_state.available + a,
                          gen |-> d_state.gen, blocked |-> d_state.blocked + b]
<1>1. d_state \in Word
  BY DEF TypeOK
<1>2. ASSUME NEW q, q = [d_state EXCEPT !.available = @ + a, !.blocked = @ + b]
      PROVE  q = [available |-> d_state.available + a, gen |-> d_state.gen,
                  blocked |-> d_state.blocked + b]
  BY <1>1, <1>2 DEF Word
<1>3. d_state.available \in Int /\ d_state.blocked \in Nat
  BY <1>1 DEF Word
<1> QED BY <1>2, <1>3 DEF Add

\* Thread t alone moves to place p, adds to the word and changes what is
\* there by k: the invariant holds after when the sums agree.
SemStep(t, p, a, b, k) ==
    /\ pc' = [pc EXCEPT ![t] = p] /\ Add(a, b) /\ tokens' = tokens + k
    /\ p \in {"idle", "refund", "slow", "enter", "decided", "asleep",
              "take", "leave", "fence", "signal", "broadcast", "spin"}
    /\ a = k - (Claim(p) - Claim(pc[t]))
    /\ b = Block1(p) - Block1(pc[t])
    /\ tokens + k >= 0
    /\ p = "take" => tokens + k > 0
    /\ \A u \in Thread \ {t} : pc[u] = "take" => tokens + k > 0
    /\ step' \in [Thread -> Nat] /\ script' = script
    /\ seen' = seen \/ seen' = [seen EXCEPT ![t] = d_state']
                    \/ seen' = [seen EXCEPT ![t] = d_state]
    /\ woken' \subseteq Thread
    /\ \/ d_waitMutex' = d_waitMutex /\ p \notin {"decided", "take", "leave"}
       \/ d_waitMutex' = t /\ d_waitMutex = None
       \/ /\ d_waitMutex' = None /\ pc[t] \in {"decided", "take", "leave"}
          /\ p \notin {"decided", "take", "leave"}

LEMMA StepKeeps ==
    ASSUME SemInv, NEW t \in Thread, NEW p, NEW a \in Int, NEW b \in Int,
           NEW k \in Int, SemStep(t, p, a, b, k)
    PROVE  SemInv'
<1>1. pc' = [pc EXCEPT ![t] = p] /\ Add(a, b) /\ tokens' = tokens + k
  BY DEF SemStep
<1>2. /\ Cardinality(Claims) \in Nat /\ Cardinality(Claims') \in Nat
      /\ Cardinality(Blocked) \in Nat /\ Cardinality(Blocked') \in Nat
      /\ Cardinality(Claims') = Cardinality(Claims) + Claim(p) - Claim(pc[t])
      /\ Cardinality(Blocked') =
            Cardinality(Blocked) + Block1(p) - Block1(pc[t])
  BY <1>1, Moves DEF SemInv
<1>3. /\ d_state \in Word /\ d_state.available \in Int /\ d_state.blocked \in Nat
      /\ tokens \in Nat
  BY DEF SemInv, TypeOK, Word
<1>4. /\ d_state.available = tokens - Cardinality(Claims)
      /\ d_state.blocked = Cardinality(Blocked)
  BY DEF SemInv, WordExact
<1>5. d_state' = [available |-> d_state.available + a, gen |-> d_state.gen,
                  blocked |-> d_state.blocked + b]
  BY <1>1, Adds DEF SemInv
<1>6. /\ a = k - (Claim(p) - Claim(pc[t])) /\ b = Block1(p) - Block1(pc[t])
      /\ Claim(p) \in Int /\ Claim(pc[t]) \in Int
      /\ Block1(p) \in Int /\ Block1(pc[t]) \in Int
  BY DEF SemStep, Claim, Block1
<1>7. d_state.available + a = tokens' - Cardinality(Claims')
  BY <1>1, <1>2, <1>3, <1>4, <1>6
<1>8. d_state.blocked + b = Cardinality(Blocked')
  BY <1>2, <1>3, <1>4, <1>6
<1>9. \A u \in Thread : pc'[u] = "take" => tokens' > 0
  BY <1>1 DEF SemInv, TypeOK, SemStep
<1>10. d_state' \in Word
  BY <1>2, <1>3, <1>5, <1>8 DEF Word
<1>11. WordExact'
  BY <1>5, <1>7, <1>8, <1>9 DEF WordExact
<1>12. tokens' \in Nat
  BY <1>1, <1>3 DEF SemStep
<1>13. TypeOK'
  BY <1>10, <1>12 DEF SemInv, TypeOK, SemStep
<1>14. MutexHeld'
  BY SemaphoreAssumption
     DEF SemInv, TypeOK, MutexHeld, SemaphoreAssumption, SemStep
<1> QED BY <1>11, <1>13, <1>14 DEF SemInv

\* Returning counts a call; everything else leaves the scripts alone.
LEMMA Moving ==
    ASSUME SemInv, NEW t \in Thread
    PROVE  /\ \A p : Goto(t, p) => /\ pc' = [pc EXCEPT ![t] = p]
                                   /\ step' \in [Thread -> Nat]
                                   /\ script' = script
           /\ Return(t) => /\ pc' = [pc EXCEPT ![t] = "idle"]
                           /\ step' \in [Thread -> Nat]
                           /\ script' = script
BY DEF SemInv, TypeOK, Goto, Return

-----------------------------------------------------------------------------
(* The actions *)

\* What is there before a step, for the threads that are about to take.
LEMMA Before ==
    ASSUME SemInv
    PROVE  /\ woken \subseteq Thread /\ tokens \in Nat
           /\ \A u \in Thread : pc[u] = "take" => tokens > 0
           /\ \A u \in Thread : pc[u] \in {"decided", "take", "leave"}
                                  => d_waitMutex = u
BY DEF SemInv, TypeOK, WordExact, MutexHeld

\* The word may stay as it is.
LEMMA AddsNothing ==
    ASSUME SemInv, d_state' = d_state
    PROVE  Add(0, 0)
<1>1. d_state \in Word
  BY DEF SemInv, TypeOK
<1>2. ASSUME NEW q, q = [d_state EXCEPT !.available = @ + 0, !.blocked = @ + 0]
      PROVE  q = d_state
  <2>1. q = [available |-> d_state.available + 0, gen |-> d_state.gen,
             blocked |-> d_state.blocked + 0]
    BY <1>1, <1>2 DEF Word
  <2>2. d_state = [available |-> d_state.available, gen |-> d_state.gen,
                   blocked |-> d_state.blocked]
        /\ d_state.available \in Int /\ d_state.blocked \in Int
    BY <1>1 DEF Word
  <2> QED BY <2>1, <2>2
<1> QED BY <1>2 DEF Add

\* A step of a thread that does not change what is there, on its way between
\* two places where it counts for nothing.
LEMMA Passing ==
    ASSUME SemInv, NEW t \in Thread, NEW p,
           pc[t] \in {"idle", "fence", "signal", "broadcast", "spin"},
           p \in {"idle", "fence", "signal", "broadcast", "spin"},
           Goto(t, p) \/ (p = "idle" /\ Return(t)),
           d_state' = d_state, tokens' = tokens, d_waitMutex' = d_waitMutex,
           woken' \subseteq Thread,
           seen' = seen \/ seen' = [seen EXCEPT ![t] = d_state]
    PROVE  SemInv'
<1>1. /\ pc' = [pc EXCEPT ![t] = p]
      /\ step' \in [Thread -> Nat] /\ script' = script
  BY Moving
<1>2. Claim(p) = 0 /\ Claim(pc[t]) = 0 /\ Block1(p) = 0 /\ Block1(pc[t]) = 0
  BY DEF Claim, Block1
<1>3. Add(0, 0)
  BY AddsNothing
<1>4. SemStep(t, p, 0, 0, 0)
  BY <1>1, <1>2, <1>3, Before DEF SemStep
<1> QED BY <1>4, StepKeeps

LEMMA decrementStep ==
    ASSUME SemInv, NEW t \in Thread, decrement(t)
    PROVE  SemInv'
<1>1. /\ pc[t] = "idle" /\ Add(-1, 0)
      /\ seen' = [seen EXCEPT ![t] = d_state']
      /\ d_waitMutex' = d_waitMutex /\ woken' = woken
  BY DEF decrement, Calling, OnlyWord
<1>2. /\ d_state.available \in Int /\ d_state.blocked \in Nat
      /\ d_state'.available = d_state.available - 1
      /\ d_state'.blocked = d_state.blocked
  BY <1>1, Adds DEF SemInv
<1>3. CASE ~willHaveBlockedThread(d_state') /\ tokens' = tokens - 1 /\ Return(t)
  <2>1. d_state.available - 1 >= d_state.blocked
    BY <1>2, <1>3 DEF willHaveBlockedThread
  <2>2. SemStep(t, "idle", -1, 0, -1)
    BY <1>1, <1>3, <2>1, Enough, Moving, Before DEF SemStep, Claim, Block1
  <2> QED BY <2>2, StepKeeps
<1>4. ASSUME NEW p \in {"refund", "slow"}, Goto(t, p), tokens' = tokens
      PROVE  SemInv'
  <2>1. SemStep(t, p, -1, 0, 0)
    BY <1>1, <1>4, Moving, Before DEF SemStep, Claim, Block1
  <2> QED BY <2>1, StepKeeps
<1> QED BY <1>3, <1>4 DEF decrement

\* What a call posts or takes is a number.
LEMMA PostedNat ==
    ASSUME SemInv, NEW t \in Thread, NEW o, Calling(t, o)
    PROVE  NextCall(t).n \in Nat
<1>1. script \in [Thread -> Seq(Calls)] /\ step \in [Thread -> Nat]
  BY SemaphoreAssumption DEF SemaphoreAssumption, SemInv, TypeOK
<1>2. step[t] + 1 \in 1 .. Len(script[t]) /\ script[t] \in Seq(Calls)
  BY <1>1 DEF Calling
<1>3. NextCall(t) \in Calls
  BY <1>2 DEF NextCall
<1> QED BY <1>3 DEF Calls

LEMMA postStep ==
    ASSUME SemInv, NEW t \in Thread, post(t)
    PROVE  SemInv'
<1> DEFINE n == NextCall(t).n
<1>1. n \in Nat
  BY PostedNat DEF post
<1>2. /\ pc[t] = "idle" /\ Add(n, 0) /\ tokens' = tokens + n
      /\ seen' = seen /\ d_waitMutex' = d_waitMutex /\ woken' = woken
  BY DEF post, Calling, OnlyWord
<1> HIDE DEF n
<1>3. Goto(t, "fence") \/ Return(t)
  BY DEF post
<1>4. CASE Goto(t, "fence")
  <2>1. SemStep(t, "fence", n, 0, n)
    BY <1>1, <1>2, <1>4, Moving, Before DEF SemStep, Claim, Block1
  <2> QED BY <1>1, <2>1, StepKeeps
<1>5. CASE Return(t)
  <2>1. SemStep(t, "idle", n, 0, n)
    BY <1>1, <1>2, <1>5, Moving, Before DEF SemStep, Claim, Block1
  <2> QED BY <1>1, <2>1, StepKeeps
<1> QED BY <1>3, <1>4, <1>5

LEMMA refundStep ==
    ASSUME SemInv, NEW t \in Thread, refund(t)
    PROVE  SemInv'
<1>1. /\ pc[t] = "refund" /\ Add(1, 0) /\ tokens' = tokens + 0
      /\ seen' = seen /\ d_waitMutex' = d_waitMutex /\ woken' = woken
  BY Before DEF refund, OnlyWord
<1>2. PICK p \in {"fence", "idle"} : Goto(t, p) \/ (p = "idle" /\ Return(t))
  BY DEF refund
<1>3. /\ pc' = [pc EXCEPT ![t] = p]
      /\ step' \in [Thread -> Nat] /\ script' = script
  BY <1>2, Moving
<1>4. Claim(p) = 0 /\ Claim(pc[t]) = 1 /\ Block1(p) = 0 /\ Block1(pc[t]) = 0
  BY <1>1 DEF Claim, Block1
<1>5. SemStep(t, p, 1, 0, 0)
  BY <1>1, <1>2, <1>3, <1>4, Before DEF SemStep
<1> QED BY <1>5, StepKeeps

LEMMA slowPathStep ==
    ASSUME SemInv, NEW t \in Thread, slowPath(t)
    PROVE  SemInv'
<1>1. /\ pc[t] = "slow" /\ Add(0, 0)
      /\ seen' = seen /\ d_waitMutex' = d_waitMutex /\ woken' = woken
  BY AddsNothing DEF slowPath, OnlyWord
<1>2. CASE Goto(t, "enter") /\ tokens' = tokens
  <2>1. Claim("enter") = 1 /\ Claim(pc[t]) = 1
        /\ Block1("enter") = 0 /\ Block1(pc[t]) = 0
    BY <1>1 DEF Claim, Block1
  <2>2. SemStep(t, "enter", 0, 0, 0)
    BY <1>1, <1>2, <2>1, Moving, Before DEF SemStep
  <2> QED BY <2>2, StepKeeps
<1>3. ASSUME ~willHaveBlockedThread(d_state), tokens' = tokens - 1,
             NEW p \in {"fence", "idle"},
             Goto(t, p) \/ (p = "idle" /\ Return(t))
      PROVE  SemInv'
  \* t itself holds one, and what others are about to take is there besides.
  <2>1. d_state.available \in Int /\ d_state.blocked \in Nat
        /\ d_state.available >= d_state.blocked
    BY <1>1, <1>3, Adds DEF SemInv, willHaveBlockedThread
  <2>2. Cardinality(Claims) >= 1
    <3>1. Claims \in SUBSET Thread /\ t \in Claims
      BY <1>1 DEF Claims
    <3> QED BY <3>1, OneMoves
  <2>3. d_state.available = tokens - Cardinality(Claims)
        /\ d_state.blocked = Cardinality(Blocked) /\ tokens \in Nat
    BY DEF SemInv, TypeOK, WordExact
  <2>4. tokens - 1 >= d_state.blocked
    BY <2>1, <2>2, <2>3, Sizes
  <2>5. \A u \in Thread : pc[u] = "take" => d_state.blocked >= 1
    BY <2>3, BlockedCounted DEF Block1
  <2>6. \A u \in Thread : pc[u] = "take" => tokens - 1 > 0
    BY <2>1, <2>3, <2>4, <2>5
  <2>7. SemStep(t, p, 0, 0, -1)
    BY <1>1, <1>3, <2>1, <2>3, <2>4, <2>6, Moving, Before
       DEF SemStep, Claim, Block1
  <2> QED BY <2>7, StepKeeps
<1>4. \/ Goto(t, "enter") /\ tokens' = tokens
      \/ /\ ~willHaveBlockedThread(d_state) /\ tokens' = tokens - 1
         /\ \E p \in {"fence", "idle"} : Goto(t, p) \/ (p = "idle" /\ Return(t))
  BY DEF slowPath
<1> QED BY <1>2, <1>3, <1>4

\* What thread t that has the mutex finds in a word of no claim of its own.
LEMMA BlockFinds ==
    ASSUME SemInv, NEW t \in Thread, pc[t] \in {"enter", "asleep"},
           NEW a \in Int, NEW b \in Int, Add(a, b),
           a = Claim(pc[t]), b = 1 - Block1(pc[t]),
           d_waitMutex = None, Block(t, d_state'),
           seen' = seen, tokens' = tokens, woken' \subseteq Thread
    PROVE  SemInv'
<1>1. /\ d_state.available \in Int /\ d_state.blocked \in Nat
      /\ d_state'.available = d_state.available + a
  BY Adds DEF SemInv
<1>2. /\ d_state.available = tokens - Cardinality(Claims)
      /\ tokens \in Nat /\ Cardinality(Claims) \in Nat
  BY Sizes DEF SemInv, TypeOK, WordExact
<1>3. a <= Cardinality(Claims)
  <2>1. Claims \in SUBSET Thread /\ (pc[t] = "enter" => t \in Claims)
    BY DEF Claims
  <2>2. pc[t] = "enter" => Cardinality(Claims) >= 1
    BY <2>1, OneMoves
  <2> QED BY <1>2, <2>2 DEF Claim
<1>4. hasAvailable(d_state') => tokens > 0
  BY <1>1, <1>2, <1>3 DEF hasAvailable
<1>5. \A u \in Thread : pc[u] # "take"
  BY SemaphoreAssumption, Before DEF SemaphoreAssumption
<1>6. /\ d_waitMutex' = t
      /\ \E p \in {"decided", "take", "leave"} :
            Goto(t, p) /\ (p = "take" => hasAvailable(d_state'))
  <2>1. d_state' \in Word /\ seen[t] \in Word
    BY <1>1, Adds DEF SemInv, TypeOK, Word, Claim, Block1
  <2> QED BY <2>1 DEF Block
<1>7. PICK p \in {"decided", "take", "leave"} :
         Goto(t, p) /\ (p = "take" => hasAvailable(d_state'))
  BY <1>6
<1>8. SemStep(t, p, a, b, 0)
  BY <1>2, <1>4, <1>5, <1>6, <1>7, Moving DEF SemStep, Claim, Block1
<1> QED BY <1>8, StepKeeps

LEMMA enterBlockedStep ==
    ASSUME SemInv, NEW t \in Thread, enterBlocked(t)
    PROVE  SemInv'
BY BlockFinds, Before DEF enterBlocked, Claim, Block1

LEMMA awakenStep ==
    ASSUME SemInv, NEW t \in Thread, awaken(t)
    PROVE  SemInv'
<1>1. Add(0, 0)
  BY AddsNothing DEF awaken
<1>2. Block(t, d_state')
  BY DEF awaken
<1> QED BY <1>1, <1>2, BlockFinds, Before DEF awaken, Claim, Block1

LEMMA sleepStep ==
    ASSUME SemInv, NEW t \in Thread, sleep(t)
    PROVE  SemInv'
<1>1. Add(0, 0)
  BY AddsNothing DEF sleep
<1>2. /\ pc[t] = "decided" /\ tokens' = tokens
      /\ seen' = seen /\ woken' = woken /\ d_waitMutex' = None
      /\ pc' = [pc EXCEPT ![t] = "asleep"]
      /\ step' \in [Thread -> Nat] /\ script' = script
  BY Moving DEF sleep
<1>3. Claim("asleep") = 0 /\ Claim(pc[t]) = 0
      /\ Block1("asleep") = 1 /\ Block1(pc[t]) = 1
  BY <1>2 DEF Claim, Block1
<1>4. SemStep(t, "asleep", 0, 0, 0)
  BY <1>1, <1>2, <1>3, Before DEF SemStep
<1> QED BY <1>4, StepKeeps

LEMMA takeBlockedStep ==
    ASSUME SemInv, NEW t \in Thread, takeBlocked(t)
    PROVE  SemInv'
<1>1. pc[t] = "take" /\ Add(-1, -1) /\ tokens' = tokens - 1
      /\ seen' = seen /\ woken' = woken /\ d_waitMutex' = None
  BY DEF takeBlocked
<1>2. PICK p \in {"signal", "idle"} : Goto(t, p) \/ (p = "idle" /\ Return(t))
  BY DEF takeBlocked
<1>3. /\ pc' = [pc EXCEPT ![t] = p]
      /\ step' \in [Thread -> Nat] /\ script' = script
  BY <1>2, Moving
<1>4. \A u \in Thread \ {t} : pc[u] # "take"
  BY <1>1, Before
<1>5. Claim(p) = 0 /\ Claim(pc[t]) = 0 /\ Block1(p) = 0 /\ Block1(pc[t]) = 1
  BY <1>1 DEF Claim, Block1
<1>6. SemStep(t, p, -1, -1, -1)
  BY <1>1, <1>2, <1>3, <1>4, <1>5, Before DEF SemStep
<1> QED BY <1>6, StepKeeps

LEMMA leaveStep ==
    ASSUME SemInv, NEW t \in Thread, leave(t)
    PROVE  SemInv'
<1>1. /\ pc[t] = "leave" /\ Add(0, -1) /\ tokens' = tokens
      /\ seen' = seen /\ woken' = woken /\ d_waitMutex' = None
      /\ pc' = [pc EXCEPT ![t] = "idle"]
      /\ step' \in [Thread -> Nat] /\ script' = script
  BY Moving DEF leave
<1>2. Claim("idle") = 0 /\ Claim(pc[t]) = 0
      /\ Block1("idle") = 0 /\ Block1(pc[t]) = 1
  BY <1>1 DEF Claim, Block1
<1>3. SemStep(t, "idle", 0, -1, 0)
  BY <1>1, <1>2, Before DEF SemStep
<1> QED BY <1>3, StepKeeps

LEMMA timeOutStep ==
    ASSUME SemInv, NEW t \in Thread, timeOut(t)
    PROVE  SemInv'
<1>1. /\ pc[t] = "asleep" /\ Add(0, -1) /\ tokens' = tokens
      /\ seen' = seen /\ woken' = woken /\ d_waitMutex' = d_waitMutex
      /\ pc' = [pc EXCEPT ![t] = "idle"]
      /\ step' \in [Thread -> Nat] /\ script' = script
  BY Moving DEF timeOut
<1>2. Claim("idle") = 0 /\ Claim(pc[t]) = 0
      /\ Block1("idle") = 0 /\ Block1(pc[t]) = 1
  BY <1>1 DEF Claim, Block1
<1>3. SemStep(t, "idle", 0, -1, 0)
  BY <1>1, <1>2, Before DEF SemStep
<1> QED BY <1>3, StepKeeps

LEMMA takeStep ==
    ASSUME SemInv, NEW t \in Thread, take(t)
    PROVE  SemInv'
<1> DEFINE count == getValueRaw(d_state)
           n     == IF NextCall(t).n < count THEN NextCall(t).n ELSE count
<1>1. /\ pc[t] = "idle" /\ Return(t)
      /\ seen' = seen /\ woken' = woken /\ d_waitMutex' = d_waitMutex
  BY DEF take, Calling, OnlyWord
<1>2. CASE d_state' = d_state /\ tokens' = tokens
  BY <1>1, <1>2, Passing, Before
<1>3. CASE count > 0 /\ Add(-n, 0) /\ tokens' = tokens - n
  <2>1. NextCall(t).n \in Nat
    BY PostedNat DEF take
  <2>2. d_state.available \in Int /\ d_state.blocked \in Nat
    BY DEF SemInv, TypeOK, Word
  <2>3. n \in Nat /\ d_state.available - n >= d_state.blocked
    BY <1>3, <2>1, <2>2 DEF getValueRaw
  <2>4. Add(-n, 0) /\ tokens' = tokens - n
    BY <1>3
  <2> HIDE DEF n
  <2>5. /\ tokens - n >= 0
        /\ \A u \in Thread : pc[u] = "take" => tokens - n > 0
    BY <2>3, Enough
  <2>6. Claim("idle") = 0 /\ Claim(pc[t]) = 0
        /\ Block1("idle") = 0 /\ Block1(pc[t]) = 0
    BY <1>1 DEF Claim, Block1
  <2>7. tokens' = tokens + (-n) /\ tokens + (-n) = tokens - n
    BY <2>3, <2>4, Before
  <2>8. SemStep(t, "idle", -n, 0, -n)
    BY <1>1, <2>3, <2>4, <2>5, <2>6, <2>7, Moving, Before DEF SemStep
  <2> QED BY <2>3, <2>8, StepKeeps
<1> QED BY <1>2, <1>3 DEF take

\* The generation changes and nothing that is counted does.
LEMMA GenerationStep ==
    ASSUME SemInv, NEW t \in Thread, pc[t] = "idle", NextGeneration,
           NEW p \in {"idle", "fence"}, Goto(t, p) \/ (p = "idle" /\ Return(t)),
           tokens' = tokens, d_waitMutex' = d_waitMutex, woken' = woken,
           seen' = seen \/ seen' = [seen EXCEPT ![t] = d_state']
    PROVE  SemInv'
<1>1. /\ pc' = [pc EXCEPT ![t] = p]
      /\ step' \in [Thread -> Nat] /\ script' = script
  BY Moving
<1>2. d_state \in Word
  BY DEF SemInv, TypeOK
<1>3. (d_state.gen + 1) % Generations \in 0 .. Generations - 1
  BY <1>2, SemaphoreAssumption DEF SemaphoreAssumption, Word
<1>4. d_state' = [available |-> d_state.available,
                  gen |-> (d_state.gen + 1) % Generations,
                  blocked |-> d_state.blocked]
  BY <1>2 DEF NextGeneration, Word
<1>5. d_state' \in Word
  BY <1>2, <1>3, <1>4 DEF Word
<1>6. \A u \in Thread : pc'[u] = IF u = t THEN p ELSE pc[u]
  BY <1>1 DEF SemInv, TypeOK
<1>7. Claims' = Claims /\ Blocked' = Blocked
  BY <1>6 DEF Claims, Blocked
<1>8. WordExact'
  BY <1>4, <1>6, <1>7 DEF SemInv, WordExact
<1>9. TypeOK'
  BY <1>1, <1>5 DEF SemInv, TypeOK
<1>10. MutexHeld'
  BY <1>6 DEF SemInv, MutexHeld
<1> QED BY <1>8, <1>9, <1>10 DEF SemInv

LEMMA disableStep ==
    ASSUME SemInv, NEW t \in Thread, disable(t)
    PROVE  SemInv'
<1>1. /\ pc[t] = "idle" /\ tokens' = tokens
      /\ seen' = [seen EXCEPT ![t] = d_state']
      /\ woken' = woken /\ d_waitMutex' = d_waitMutex
  BY DEF disable, Calling, OnlyWord
<1>2. CASE NextGeneration /\ Goto(t, "fence")
  BY <1>1, <1>2, GenerationStep
<1>3. CASE d_state' = d_state /\ Goto(t, "spin")
  BY <1>1, <1>3, Passing, Before
<1> QED BY <1>2, <1>3 DEF disable

LEMMA enableStep ==
    ASSUME SemInv, NEW t \in Thread, enable(t)
    PROVE  SemInv'
<1>1. /\ pc[t] = "idle" /\ tokens' = tokens /\ seen' = seen /\ Return(t)
      /\ woken' = woken /\ d_waitMutex' = d_waitMutex
  BY DEF enable, Calling, OnlyWord
<1>2. CASE NextGeneration
  BY <1>1, <1>2, GenerationStep
<1>3. CASE d_state' = d_state
  BY <1>1, <1>3, Passing, Before
<1> QED BY <1>2, <1>3 DEF enable

\* Steps that signal, or only look.
LEMMA quietSteps ==
    ASSUME SemInv, NEW t \in Thread,
           fence(t) \/ signal(t) \/ broadcast(t) \/ spin(t)
    PROVE  SemInv'
<1>1. CASE fence(t)
  BY <1>1, Passing, Before DEF fence
<1>2. CASE signal(t)
  <2>1. woken' \subseteq Thread
    BY <1>2, Before DEF signal, Sleepers
  <2> QED BY <1>2, <2>1, Passing DEF signal
<1>3. CASE broadcast(t)
  <2>1. woken' \subseteq Thread
    BY <1>3, Before DEF broadcast, Sleepers
  <2> QED BY <1>3, <2>1, Passing DEF broadcast
<1>4. CASE spin(t)
  <2>1. CASE Return(t) /\ seen' = seen
    BY <1>4, <2>1, Passing, Before DEF spin, OnlyWord
  <2>2. CASE seen' = [seen EXCEPT ![t] = d_state]
             /\ UNCHANGED <<pc, step, script>>
    BY <1>4, <2>2 DEF spin, OnlyWord, SemInv, TypeOK, WordExact, MutexHeld,
                      Claims, Blocked
  <2> QED BY <1>4, <2>1, <2>2 DEF spin
<1> QED BY <1>1, <1>2, <1>3, <1>4

-----------------------------------------------------------------------------
(* No wakeup is lost *)

\* Who sees to a thread that sleeps while something is available, and to one
\* that sleeps while waiting is disabled.
Helps(u)   == \/ pc[u] \in {"slow", "enter", "fence", "signal", "broadcast",
                            "take"}
              \/ u \in woken
Disables(u) == pc[u] \in {"fence", "broadcast"} /\ NextCall(u).op = "disable"

\* A thread that decided to sleep holds the mutex: who will see to it has not
\* passed the fence.
DecidedSafe ==
    \A t \in Thread : pc[t] = "decided" =>
        /\ (hasAvailable(d_state) /\ d_state.gen = seen[t].gen) =>
              \E u \in Thread : pc[u] \in {"slow", "enter", "fence"}
        /\ d_state.gen # seen[t].gen =>
              \E u \in Thread : pc[u] = "fence" /\ NextCall(u).op = "disable"

\* Only sleeping threads are woken, and only threads that came while waiting
\* was enabled block.
WaitersKnown ==
    /\ \A t \in woken : pc[t] = "asleep"
    /\ \A t \in Thread : pc[t] \in {"slow", "enter", "decided", "asleep"}
                            => ~isDisabled(seen[t])

WakeInv == NoLostWakeup /\ DecidedSafe /\ WaitersKnown

\* The words of the invariant for one thread, before a step.
LEMMA WakeBefore ==
    ASSUME SemInv, WakeInv
    PROVE  /\ \A t \in Thread : pc[t] = "asleep" /\ t \notin woken =>
                /\ (hasAvailable(d_state) /\ d_state.gen = seen[t].gen) =>
                      \E u \in Thread : Helps(u)
                /\ d_state.gen # seen[t].gen => \E u \in Thread : Disables(u)
           /\ woken \subseteq Thread
           /\ \A u \in Thread : u \in woken => pc[u] = "asleep"
BY DEF SemInv, TypeOK, WakeInv, NoLostWakeup, Sleepers, Helps, Disables,
       WaitersKnown

\* A thread other than the sleepers moves, and neither the generation nor who
\* was woken changes.  It helps afterwards, or it did not help before and
\* nothing became available, or nobody needs help.
LEMMA Frame ==
    ASSUME SemInv, WakeInv, NEW u \in Thread, NEW p,
           pc' = [pc EXCEPT ![u] = p], u \notin woken,
           p \notin {"decided", "asleep"},
           p \in {"slow", "enter"} => ~isDisabled(seen'[u]),
           d_state'.gen = d_state.gen, woken' = woken,
           pc[u] \notin {"fence", "broadcast"},
           \A v \in Thread \ {u} : seen'[v] = seen[v] /\ step'[v] = step[v],
           script' = script,
           \/ p \in {"slow", "enter", "fence"}
           \/ /\ p = "signal"
              /\ \A t \in Thread \ {u} : pc[t] # "decided"
           \/ /\ pc[u] \notin {"slow", "enter", "signal", "take"}
              /\ hasAvailable(d_state') => hasAvailable(d_state)
           \/ \A t \in Thread \ {u} :
                 pc[t] \in {"asleep", "decided"} =>
                    ~(hasAvailable(d_state') /\ d_state.gen = seen[t].gen)
    PROVE  WakeInv'
<1>1. \A v \in Thread : pc'[v] = IF v = u THEN p ELSE pc[v]
  BY DEF SemInv, TypeOK
<1>2. \A v \in Thread \ {u} : NextCall(v)' = NextCall(v)
  BY DEF NextCall
<1>3. WaitersKnown'
  <2>1. \A t \in woken : pc'[t] = "asleep"
    BY <1>1, WakeBefore
  <2>2. ASSUME NEW t \in Thread, pc'[t] \in {"slow", "enter", "decided", "asleep"}
        PROVE  ~isDisabled(seen'[t])
    BY <1>1, <2>2 DEF WakeInv, WaitersKnown
  <2> QED BY <2>1, <2>2 DEF WaitersKnown, isDisabled
<1>4. NoLostWakeup'
  <2> SUFFICES ASSUME NEW t \in Thread, pc'[t] = "asleep", t \notin woken
               PROVE  /\ (hasAvailable(d_state') /\ d_state.gen = seen[t].gen) =>
                            \E v \in Thread : Helps(v)'
                      /\ d_state.gen # seen[t].gen =>
                            \E v \in Thread : Disables(v)'
    BY <1>1 DEF NoLostWakeup, Sleepers, Helps, Disables, hasAvailable
  <2>1. t # u /\ pc[t] = "asleep"
    BY <1>1
  <2>2. d_state.gen # seen[t].gen => \E v \in Thread : Disables(v)'
    BY <1>1, <1>2, <2>1, WakeBefore DEF Disables
  <2>3. ASSUME hasAvailable(d_state'), d_state.gen = seen[t].gen
        PROVE  \E v \in Thread : Helps(v)'
    <3>1. CASE p \in {"slow", "enter", "fence", "signal"}
      BY <1>1, <3>1 DEF Helps
    <3>2. CASE /\ pc[u] \notin {"slow", "enter", "signal", "take"}
               /\ hasAvailable(d_state') => hasAvailable(d_state)
      <4>1. PICK v \in Thread : Helps(v)
        BY <2>1, <2>3, <3>2, WakeBefore
      <4>2. v # u
        BY <3>2, <4>1 DEF Helps
      <4> QED BY <1>1, <4>1, <4>2 DEF Helps
    <3> QED BY <2>1, <2>3, <3>1, <3>2
  <2> QED BY <2>2, <2>3
<1>5. DecidedSafe'
  <2> SUFFICES ASSUME NEW t \in Thread, pc'[t] = "decided"
               PROVE  /\ (hasAvailable(d_state') /\ d_state.gen = seen[t].gen) =>
                            \E v \in Thread : pc'[v] \in {"slow", "enter", "fence"}
                      /\ d_state.gen # seen[t].gen =>
                            \E v \in Thread : pc'[v] = "fence"
                                              /\ NextCall(v)'.op = "disable"
    BY <1>1 DEF DecidedSafe, hasAvailable
  <2>1. t # u /\ pc[t] = "decided"
    BY <1>1
  <2>2. d_state.gen # seen[t].gen =>
           \E v \in Thread : pc'[v] = "fence" /\ NextCall(v)'.op = "disable"
    BY <1>1, <1>2, <2>1 DEF WakeInv, DecidedSafe
  <2>3. ASSUME hasAvailable(d_state'), d_state.gen = seen[t].gen
        PROVE  \E v \in Thread : pc'[v] \in {"slow", "enter", "fence"}
    <3>1. CASE p \in {"slow", "enter", "fence"}
      BY <1>1, <3>1
    <3>2. CASE /\ pc[u] \notin {"slow", "enter", "signal", "take"}
               /\ hasAvailable(d_state') => hasAvailable(d_state)
      BY <1>1, <2>1, <2>3, <3>2 DEF WakeInv, DecidedSafe
    <3> QED BY <2>1, <2>3, <3>1, <3>2
  <2> QED BY <2>2, <2>3
<1> QED BY <1>3, <1>4, <1>5 DEF WakeInv

\* What a call in progress leaves of the others' calls.
LEMMA OthersCalls ==
    ASSUME SemInv, NEW u \in Thread
    PROVE  /\ Return(u) => /\ pc' = [pc EXCEPT ![u] = "idle"]
                           /\ \A v \in Thread \ {u} : step'[v] = step[v]
                           /\ script' = script
           /\ \A p : Goto(u, p) => /\ pc' = [pc EXCEPT ![u] = p]
                                   /\ \A v \in Thread : step'[v] = step[v]
                                   /\ script' = script
BY DEF SemInv, TypeOK, Return, Goto

\* The generation is only changed by disable and enable.
LEMMA AddsGen ==
    ASSUME SemInv, NEW a \in Int, NEW b \in Int, Add(a, b)
    PROVE  /\ d_state'.gen = d_state.gen
           /\ d_state'.available = d_state.available + a
           /\ d_state.available \in Int
BY Adds DEF SemInv

\* A post that finds a thread asleep, or about to, with waiting enabled,
\* signals.
LEMMA PostSignals ==
    ASSUME SemInv, SemInv', WakeInv, AlwaysSignals, NEW u \in Thread,
           NEW t \in Thread \ {u}, pc[t] \in {"asleep", "decided"}, pc'[t] = pc[t],
           d_state.gen = seen[t].gen, d_state'.gen = d_state.gen, NEW call
    PROVE  /\ Signals(d_state', call)
           /\ hasAvailable(d_state') => PassesOn(d_state')
<1>1. ~isDisabled(d_state')
  BY DEF WakeInv, WaitersKnown, isDisabled
<1>2. t \in Blocked' /\ Blocked' \in SUBSET Thread
  BY DEF Blocked
<1>3. Cardinality(Blocked') >= 1
  BY <1>2, OneMoves
<1>4. d_state'.blocked = Cardinality(Blocked')
  BY DEF SemInv, WordExact
<1>5. hasBlockedThread(d_state')
  BY <1>3, <1>4 DEF hasBlockedThread
<1> QED BY <1>1, <1>5 DEF Signals, PassesOn

LEMMA decrementWakes ==
    ASSUME SemInv, WakeInv, NEW u \in Thread, decrement(u)
    PROVE  WakeInv'
<1>1. /\ pc[u] = "idle" /\ Add(-1, 0) /\ woken' = woken
      /\ \A v \in Thread \ {u} : seen'[v] = seen[v]
      /\ seen'[u] = d_state'
  BY DEF decrement, Calling, OnlyWord, SemInv, TypeOK
<1>2. PICK p \in {"refund", "slow", "idle"} :
         /\ Goto(u, p) \/ (p = "idle" /\ Return(u))
         /\ p = "slow" => ~isDisabled(d_state')
  BY DEF decrement
<1>3. hasAvailable(d_state') => hasAvailable(d_state)
  BY <1>1, AddsGen DEF hasAvailable
<1> QED BY <1>1, <1>2, <1>3, AddsGen, OthersCalls, WakeBefore, Frame

LEMMA postWakes ==
    ASSUME SemInv, SemInv', WakeInv, AlwaysSignals, NEW u \in Thread,
           post(u) \/ refund(u)
    PROVE  WakeInv'
<1>1. PICK call : /\ Signals(d_state', call) => Goto(u, "fence")
                  /\ ~Signals(d_state', call) => Return(u)
  BY DEF post, refund
<1>2. /\ pc[u] \in {"idle", "refund"} /\ woken' = woken /\ seen' = seen
      /\ d_state'.gen = d_state.gen
  <2>1. CASE post(u)
    <3> DEFINE n == NextCall(u).n
    <3>1. n \in Nat /\ Add(n, 0)
      BY <2>1, PostedNat DEF post
    <3> HIDE DEF n
    <3>2. d_state'.gen = d_state.gen
      BY <3>1, AddsGen
    <3> QED BY <2>1, <3>2 DEF post, Calling, OnlyWord
  <2>2. CASE refund(u)
    <3> DEFINE n == 1
    <3>1. n \in Nat /\ Add(n, 0)
      BY <2>2 DEF refund
    <3> HIDE DEF n
    <3>2. d_state'.gen = d_state.gen
      BY <3>1, AddsGen
    <3> QED BY <2>2, <3>2 DEF refund, OnlyWord
  <2> QED BY <2>1, <2>2
<1>3. CASE Signals(d_state', call)
  <2>1. Goto(u, "fence")
    BY <1>1, <1>3
  <2> QED BY <1>2, <2>1, OthersCalls, WakeBefore, Frame
<1>4. CASE ~Signals(d_state', call)
  <2>1. Return(u)
    BY <1>1, <1>4
  <2>2. pc' = [pc EXCEPT ![u] = "idle"]
    BY <2>1, OthersCalls
  <2>3. \A t \in Thread \ {u} : pc'[t] = pc[t]
    BY <2>2 DEF SemInv, TypeOK
  <2>4. \A t \in Thread \ {u} : pc[t] \in {"asleep", "decided"} =>
           d_state.gen # seen[t].gen
    BY <1>2, <1>4, <2>3, PostSignals
  <2> QED BY <1>2, <2>1, <2>4, OthersCalls, WakeBefore, Frame
<1> QED BY <1>3, <1>4

LEMMA slowPathWakes ==
    ASSUME SemInv, SemInv', WakeInv, AlwaysSignals, NEW u \in Thread, slowPath(u)
    PROVE  WakeInv'
<1>1. /\ pc[u] = "slow" /\ d_state' = d_state /\ woken' = woken /\ seen' = seen
  BY DEF slowPath, OnlyWord
<1>2. CASE Goto(u, "enter")
  BY <1>1, <1>2, OthersCalls, WakeBefore, Frame DEF WakeInv, WaitersKnown
<1>3. CASE Goto(u, "fence")
  BY <1>1, <1>3, OthersCalls, WakeBefore, Frame
<1>4. CASE ~PassesOn(d_state) /\ Return(u)
  <2>1. pc' = [pc EXCEPT ![u] = "idle"]
    BY <1>4, OthersCalls
  <2>2. \A t \in Thread \ {u} : pc'[t] = pc[t]
    BY <2>1 DEF SemInv, TypeOK
  <2>3. \A t \in Thread \ {u} : pc[t] \in {"asleep", "decided"} =>
           ~(hasAvailable(d_state') /\ d_state.gen = seen[t].gen)
    BY <1>1, <1>4, <2>2, PostSignals
  <2> QED BY <1>1, <1>4, <2>3, OthersCalls, WakeBefore, Frame
<1> QED BY <1>2, <1>3, <1>4 DEF slowPath

LEMMA takeBlockedWakes ==
    ASSUME SemInv, SemInv', WakeInv, AlwaysSignals, NEW u \in Thread,
           takeBlocked(u)
    PROVE  WakeInv'
<1>1. /\ pc[u] = "take" /\ Add(-1, -1) /\ woken' = woken /\ seen' = seen
  BY DEF takeBlocked
<1>2. \A t \in Thread \ {u} : pc[t] # "decided"
  BY <1>1, Before
<1>3. CASE Goto(u, "signal")
  BY <1>1, <1>2, <1>3, AddsGen, OthersCalls, WakeBefore, Frame
<1>4. CASE ~PassesOn(d_state') /\ Return(u)
  <2>1. pc' = [pc EXCEPT ![u] = "idle"]
    BY <1>4, OthersCalls
  <2>2. \A t \in Thread \ {u} : pc'[t] = pc[t]
    BY <2>1 DEF SemInv, TypeOK
  <2>3. \A t \in Thread \ {u} : pc[t] \in {"asleep", "decided"} =>
           ~(hasAvailable(d_state') /\ d_state.gen = seen[t].gen)
    BY <1>1, <1>4, <2>2, AddsGen, PostSignals
  <2> QED BY <1>1, <1>4, <2>3, AddsGen, OthersCalls, WakeBefore, Frame
<1> QED BY <1>3, <1>4 DEF takeBlocked

LEMMA leaveWakes ==
    ASSUME SemInv, WakeInv, NEW u \in Thread, leave(u) \/ timeOut(u)
    PROVE  WakeInv'
<1>1. /\ pc[u] \in {"leave", "asleep"} /\ u \notin woken /\ Add(0, -1)
      /\ Return(u) /\ woken' = woken /\ seen' = seen
  BY WakeBefore DEF leave, timeOut
<1>2. hasAvailable(d_state') => hasAvailable(d_state)
  BY <1>1, AddsGen DEF hasAvailable
<1> QED BY <1>1, <1>2, AddsGen, OthersCalls, WakeBefore, Frame

LEMMA takeWakes ==
    ASSUME SemInv, WakeInv, NEW u \in Thread, take(u)
    PROVE  WakeInv'
<1>1. /\ pc[u] = "idle" /\ Return(u) /\ woken' = woken /\ seen' = seen
  BY DEF take, Calling, OnlyWord
<1>2. /\ d_state'.gen = d_state.gen
      /\ hasAvailable(d_state') => hasAvailable(d_state)
  <2> DEFINE count == getValueRaw(d_state)
             n     == IF NextCall(u).n < count THEN NextCall(u).n ELSE count
  <2>1. CASE d_state' = d_state
    BY <2>1
  <2>2. CASE count > 0 /\ Add(-n, 0)
    <3>1. NextCall(u).n \in Nat
      BY PostedNat DEF take
    <3>2. d_state.available \in Int /\ d_state.blocked \in Nat
      BY DEF SemInv, TypeOK, Word
    <3>3. n \in Nat
      BY <2>2, <3>1, <3>2 DEF getValueRaw
    <3>4. Add(-n, 0)
      BY <2>2
    <3> HIDE DEF n
    <3>5. d_state'.gen = d_state.gen /\ d_state'.available = d_state.available - n
      BY <3>3, <3>4, AddsGen
    <3> QED BY <3>2, <3>3, <3>5 DEF hasAvailable
  <2>3. d_state' = d_state \/ (count > 0 /\ Add(-n, 0))
    BY DEF take
  <2> QED BY <2>1, <2>2, <2>3
<1> QED BY <1>1, <1>2, OthersCalls, WakeBefore, Frame

\* A step with the mutex free, after which u alone may hold it: nobody had
\* decided to sleep.  The others keep who helps them, or u takes.
LEMMA BlockWakes ==
    ASSUME SemInv, WakeInv, NEW u \in Thread, enterBlocked(u) \/ awaken(u)
    PROVE  WakeInv'
<1>1. /\ d_waitMutex = None /\ pc[u] \in {"enter", "asleep"} /\ seen' = seen
      /\ Block(u, d_state') /\ woken' = woken \ {u}
      /\ d_state'.gen = d_state.gen
  BY AddsGen, WakeBefore DEF enterBlocked, awaken
<1>2. \A t \in Thread : pc[t] # "decided"
  BY <1>1, SemaphoreAssumption, Before DEF SemaphoreAssumption
<1>3. PICK p \in {"take", "leave", "decided"} :
         /\ Goto(u, p)
         /\ hasAvailable(d_state') => p = "take"
         /\ p = "decided" => d_state'.gen = seen[u].gen
  <2>1. \/ Goto(u, "take")
        \/ ~hasAvailable(d_state') /\ Goto(u, "leave")
        \/ ~hasAvailable(d_state') /\ Goto(u, "decided")
           /\ d_state'.gen = seen[u].gen
    <3>1. \/ hasAvailable(d_state')
          \/ ~hasAvailable(d_state') /\ d_state'.gen # seen[u].gen
          \/ ~hasAvailable(d_state') /\ d_state'.gen = seen[u].gen
      OBVIOUS
    <3> QED BY <1>1, <3>1 DEF Block
  <2> QED BY <2>1
<1>4. /\ \A v \in Thread : pc'[v] = IF v = u THEN p ELSE pc[v]
      /\ \A v \in Thread : NextCall(v)' = NextCall(v)
  BY <1>3 DEF Goto, NextCall, SemInv, TypeOK
<1>5. WaitersKnown'
  BY <1>1, <1>3, <1>4, WakeBefore DEF WakeInv, WaitersKnown, isDisabled
<1>6. NoLostWakeup'
  <2> SUFFICES ASSUME NEW t \in Thread, pc'[t] = "asleep", t \notin woken'
               PROVE  /\ hasAvailable(d_state') => \E v \in Thread : Helps(v)'
                      /\ d_state.gen # seen[t].gen =>
                            \E v \in Thread : Disables(v)'
    BY <1>1 DEF NoLostWakeup, Sleepers, Helps, Disables
  <2>1. t # u /\ pc[t] = "asleep" /\ t \notin woken
    BY <1>1, <1>3, <1>4
  <2>2. hasAvailable(d_state') => Helps(u)'
    BY <1>3, <1>4 DEF Helps
  <2>3. \A v \in Thread : Disables(v) => Disables(v)'
    BY <1>1, <1>4 DEF Disables
  <2> QED BY <2>1, <2>2, <2>3, WakeBefore
<1>7. DecidedSafe'
  BY <1>1, <1>2, <1>3, <1>4 DEF DecidedSafe
<1> QED BY <1>5, <1>6, <1>7 DEF WakeInv

LEMMA sleepWakes ==
    ASSUME SemInv, WakeInv, NEW u \in Thread, sleep(u)
    PROVE  WakeInv'
<1>1. /\ pc[u] = "decided" /\ d_state' = d_state /\ seen' = seen
      /\ woken' = woken /\ Goto(u, "asleep")
  BY DEF sleep
<1>2. /\ \A v \in Thread : pc'[v] = IF v = u THEN "asleep" ELSE pc[v]
      /\ \A v \in Thread : NextCall(v)' = NextCall(v)
  BY <1>1 DEF Goto, NextCall, SemInv, TypeOK
<1>3. WaitersKnown'
  BY <1>1, <1>2, WakeBefore DEF WakeInv, WaitersKnown, isDisabled
<1>4. \A v \in Thread : /\ Helps(v) => Helps(v)'
                        /\ Disables(v) => Disables(v)'
  BY <1>1, <1>2 DEF Helps, Disables
<1>5. NoLostWakeup'
  <2> SUFFICES ASSUME NEW t \in Thread, pc'[t] = "asleep", t \notin woken
               PROVE  /\ (hasAvailable(d_state) /\ d_state.gen = seen[t].gen) =>
                            \E v \in Thread : Helps(v)'
                      /\ d_state.gen # seen[t].gen =>
                            \E v \in Thread : Disables(v)'
    BY <1>1 DEF NoLostWakeup, Sleepers, Helps, Disables
  <2>1. CASE t = u
    BY <1>1, <1>4, <2>1 DEF WakeInv, DecidedSafe, Helps, Disables
  <2>2. CASE t # u
    BY <1>2, <1>4, <2>2, WakeBefore
  <2> QED BY <2>1, <2>2
<1>6. DecidedSafe'
  BY <1>1, <1>2, Before DEF DecidedSafe, WakeInv
<1> QED BY <1>3, <1>5, <1>6 DEF WakeInv

\* The mutex is free while a thread passes the fence: whoever decided to sleep
\* sleeps, and will get the signal.
LEMMA fenceWakes ==
    ASSUME SemInv, WakeInv, NEW u \in Thread, fence(u)
    PROVE  WakeInv'
<1>1. /\ pc[u] = "fence" /\ d_state' = d_state /\ seen' = seen
      /\ woken' = woken /\ d_waitMutex = None
  BY DEF fence
<1>2. PICK p \in {"broadcast", "signal"} :
         Goto(u, p) /\ (p = "broadcast" <=> NextCall(u).op = "disable")
  BY DEF fence
<1>3. /\ \A v \in Thread : pc'[v] = IF v = u THEN p ELSE pc[v]
      /\ \A v \in Thread : NextCall(v)' = NextCall(v)
  BY <1>2 DEF Goto, NextCall, SemInv, TypeOK
<1>4. WaitersKnown'
  BY <1>1, <1>3, WakeBefore DEF WakeInv, WaitersKnown, isDisabled
<1>5. \A v \in Thread : /\ Helps(v) => Helps(v)'
                        /\ Disables(v) => Disables(v)'
  BY <1>1, <1>2, <1>3 DEF Helps, Disables
<1>6. NoLostWakeup'
  <2> SUFFICES ASSUME NEW t \in Thread, pc'[t] = "asleep", t \notin woken
               PROVE  /\ (hasAvailable(d_state) /\ d_state.gen = seen[t].gen) =>
                            \E v \in Thread : Helps(v)'
                      /\ d_state.gen # seen[t].gen =>
                            \E v \in Thread : Disables(v)'
    BY <1>1 DEF NoLostWakeup, Sleepers, Helps, Disables
  <2> QED BY <1>3, <1>5, WakeBefore
<1>7. \A t \in Thread : pc[t] # "decided"
  BY <1>1, SemaphoreAssumption, Before DEF SemaphoreAssumption
<1>8. DecidedSafe'
  BY <1>3, <1>7 DEF DecidedSafe
<1> QED BY <1>4, <1>6, <1>8 DEF WakeInv

\* After a signal somebody is woken, or nobody sleeps.
LEMMA signalWakes ==
    ASSUME SemInv, WakeInv, NEW u \in Thread, signal(u) \/ broadcast(u)
    PROVE  WakeInv'
<1>1. /\ pc[u] \in {"signal", "broadcast"} /\ d_state' = d_state /\ seen' = seen
      /\ woken' \subseteq woken \cup Sleepers /\ woken \subseteq woken'
      /\ pc[u] = "broadcast" => Sleepers \subseteq woken'
      /\ Sleepers = {} \/ woken' \cap Sleepers # {}
  <2>1. CASE signal(u)
    BY <2>1 DEF signal
  <2>2. CASE broadcast(u)
    BY <2>2 DEF broadcast
  <2> QED BY <2>1, <2>2
<1>2. PICK p \in {"idle", "spin"} : Goto(u, p) \/ (p = "idle" /\ Return(u))
  BY DEF signal, broadcast
<1>3. /\ \A v \in Thread : pc'[v] = IF v = u THEN p ELSE pc[v]
      /\ \A v \in Thread \ {u} : step'[v] = step[v]
      /\ script' = script
  <2>1. pc' = [pc EXCEPT ![u] = p]
    BY <1>2, OthersCalls
  <2> QED BY <1>2, <2>1, OthersCalls DEF SemInv, TypeOK
<1>4. \A v \in Thread \ {u} : NextCall(v)' = NextCall(v)
  BY <1>3 DEF NextCall
<1>5. WaitersKnown'
  <2>1. \A t \in woken' : pc'[t] = "asleep"
    BY <1>1, <1>3, WakeBefore DEF Sleepers
  <2> QED BY <1>1, <1>3, <2>1 DEF WakeInv, WaitersKnown, isDisabled
<1>6. NoLostWakeup'
  <2> SUFFICES ASSUME NEW t \in Thread, pc'[t] = "asleep", t \notin woken'
               PROVE  /\ \E v \in Thread : Helps(v)'
                      /\ d_state.gen # seen[t].gen =>
                            \E v \in Thread : Disables(v)'
    BY <1>1 DEF NoLostWakeup, Sleepers, Helps, Disables
  <2>1. t \in Sleepers /\ t # u
    BY <1>1, <1>3 DEF Sleepers
  <2>2. \E v \in Thread : Helps(v)'
    BY <1>1, <2>1 DEF Helps, Sleepers
  <2>3. pc[u] = "signal"
    BY <1>1, <2>1
  <2>4. \A v \in Thread : Disables(v) => Disables(v)'
    BY <1>3, <1>4, <2>3 DEF Disables
  <2> QED BY <2>1, <2>2, <2>4, WakeBefore DEF Sleepers
<1>7. DecidedSafe'
  BY <1>1, <1>3, <1>4 DEF DecidedSafe, WakeInv
<1> QED BY <1>5, <1>6, <1>7 DEF WakeInv

\* The generation changes; a thread at the fence with a call of disable tells
\* everybody.
LEMMA disableWakes ==
    ASSUME SemInv, WakeInv, NEW u \in Thread, disable(u)
    PROVE  WakeInv'
<1>1. /\ pc[u] = "idle" /\ woken' = woken /\ NextCall(u).op = "disable"
      /\ \A v \in Thread \ {u} : seen'[v] = seen[v]
  BY DEF disable, Calling, OnlyWord, SemInv, TypeOK
<1>2. CASE d_state' = d_state /\ Goto(u, "spin")
  BY <1>1, <1>2, OthersCalls, WakeBefore, Frame
<1>3. CASE Goto(u, "fence")
  <2>1. /\ \A v \in Thread : pc'[v] = IF v = u THEN "fence" ELSE pc[v]
        /\ \A v \in Thread : NextCall(v)' = NextCall(v)
    BY <1>3 DEF Goto, NextCall, SemInv, TypeOK
  <2>2. WaitersKnown'
    BY <1>1, <2>1, WakeBefore DEF WakeInv, WaitersKnown, isDisabled
  <2>3. NoLostWakeup'
    BY <1>1, <2>1 DEF NoLostWakeup
  <2>4. DecidedSafe'
    BY <1>1, <2>1 DEF DecidedSafe
  <2> QED BY <2>2, <2>3, <2>4 DEF WakeInv
<1> QED BY <1>2, <1>3 DEF disable

\* Waiting is enabled again: threads that still sleep since before it was
\* disabled are those that a thread is about to tell.
LEMMA enableWakes ==
    ASSUME SemInv, WakeInv, NEW u \in Thread, enable(u)
    PROVE  WakeInv'
<1>1. /\ pc[u] = "idle" /\ woken' = woken /\ seen' = seen /\ Return(u)
  BY DEF enable, Calling, OnlyWord
<1>2. CASE d_state' = d_state
  BY <1>1, <1>2, OthersCalls, WakeBefore, Frame
<1>3. CASE isDisabled(d_state)
  <2>1. /\ \A v \in Thread : pc'[v] = IF v = u THEN "idle" ELSE pc[v]
        /\ \A v \in Thread \ {u} : NextCall(v)' = NextCall(v)
    BY <1>1, OthersCalls DEF NextCall, SemInv, TypeOK
  <2>2. WaitersKnown'
    BY <1>1, <2>1, WakeBefore DEF WakeInv, WaitersKnown, isDisabled
  <2>3. \A t \in Thread : pc[t] \in {"asleep", "decided"} =>
           d_state.gen # seen[t].gen
    BY <1>3 DEF WakeInv, WaitersKnown, isDisabled
  <2>4. NoLostWakeup'
    <3> SUFFICES ASSUME NEW t \in Thread, pc'[t] = "asleep", t \notin woken
                 PROVE  /\ \E v \in Thread : Helps(v)'
                        /\ \E v \in Thread : Disables(v)'
      BY <1>1 DEF NoLostWakeup, Sleepers, Helps, Disables
    <3>1. pc[t] = "asleep"
      BY <1>1, <2>1
    <3>2. PICK v \in Thread : Disables(v)
      BY <2>3, <3>1, WakeBefore
    <3>3. v # u
      BY <1>1, <3>2 DEF Disables
    <3> QED BY <2>1, <3>2, <3>3 DEF Disables, Helps
  <2>5. DecidedSafe'
    BY <1>1, <2>1, <2>3 DEF DecidedSafe, WakeInv
  <2> QED BY <2>2, <2>4, <2>5 DEF WakeInv
<1> QED BY <1>2, <1>3 DEF enable

LEMMA spinWakes ==
    ASSUME SemInv, WakeInv, NEW u \in Thread, spin(u)
    PROVE  WakeInv'
<1>1. /\ pc[u] = "spin" /\ woken' = woken /\ d_state' = d_state
      /\ \A v \in Thread \ {u} : seen'[v] = seen[v]
  BY DEF spin, OnlyWord, SemInv, TypeOK
<1>2. CASE Return(u)
  BY <1>1, <1>2, OthersCalls, WakeBefore, Frame
<1>3. CASE UNCHANGED <<pc, step, script>>
  <2>1. pc' = [pc EXCEPT ![u] = "spin"]
    BY <1>1, <1>3 DEF SemInv, TypeOK
  <2> QED BY <1>1, <1>3, <2>1, WakeBefore, Frame
<1> QED BY <1>2, <1>3 DEF spin

LEMMA spuriousWakes ==
    ASSUME SemInv, WakeInv, NEW u \in Thread, wakeSpuriously(u)
    PROVE  WakeInv'
<1>1. /\ pc[u] = "asleep" /\ woken' = woken \cup {u}
      /\ pc' = pc /\ step' = step /\ script' = script
      /\ d_state' = d_state /\ seen' = seen
  BY DEF wakeSpuriously
<1>2. WaitersKnown'
  BY <1>1 DEF WakeInv, WaitersKnown
<1>3. DecidedSafe'
  BY <1>1 DEF WakeInv, DecidedSafe, NextCall
<1>4. NoLostWakeup'
  BY <1>1 DEF WakeInv, NoLostWakeup, Sleepers, NextCall
<1> QED BY <1>2, <1>3, <1>4 DEF WakeInv

-----------------------------------------------------------------------------
(* The theorem *)

LEMMA InitInv == Init => SemInv
<1> SUFFICES ASSUME Init PROVE SemInv
  OBVIOUS
<1>1. d_state = [available |-> Count, gen |-> 0, blocked |-> 0]
  BY DEF Init, Zero
<1>2. TypeOK
  BY <1>1, SemaphoreAssumption
     DEF Init, TypeOK, Word, Zero, SemaphoreAssumption
<1>3. Claims = {} /\ Blocked = {}
  BY DEF Init, Claims, Blocked
<1>4. WordExact
  <2>1. Cardinality({}) = 0
    BY FS_EmptySet
  <2> QED BY <1>1, <1>3, <2>1, SemaphoreAssumption
          DEF Init, WordExact, SemaphoreAssumption
<1>5. MutexHeld
  BY DEF Init, MutexHeld
<1> QED BY <1>2, <1>4, <1>5 DEF SemInv

LEMMA NextInv ==
    ASSUME SemInv, [Next]_vars
    PROVE  SemInv'
<1>1. CASE UNCHANGED vars
  BY <1>1 DEF SemInv, TypeOK, WordExact, MutexHeld, Claims, Blocked, vars
<1>2. ASSUME NEW t \in Thread, Own(t) PROVE SemInv'
  BY <1>2, decrementStep, postStep, refundStep, slowPathStep, enterBlockedStep,
     sleepStep, awakenStep, takeBlockedStep, leaveStep, quietSteps, disableStep,
     enableStep, takeStep DEF Own
<1>3. ASSUME NEW t \in Thread, timeOut(t) PROVE SemInv'
  BY <1>3, timeOutStep
<1>4. ASSUME NEW t \in Thread, wakeSpuriously(t) PROVE SemInv'
  BY <1>4 DEF wakeSpuriously, SemInv, TypeOK, WordExact, MutexHeld, Claims,
              Blocked
<1> QED BY <1>1, <1>2, <1>3, <1>4 DEF Next

LEMMA Invariance == Spec => []SemInv
BY InitInv, NextInv, PTL DEF Spec

\* The variables keep their types; in particular the blocked count never
\* underflows, and nothing is taken that was not posted.
THEOREM TypeCorrect == Spec => []TypeOK
<1>1. SemInv => TypeOK
  BY DEF SemInv
<1> QED BY <1>1, Invariance, PTL

\* The word of FastPostSemaphoreImpl (bslmt_fastpostsemaphoreimpl.h:419-872)
\* agrees with what was posted, what threads hold for a moment and how many
\* are blocked, and a thread that goes to take finds something.
THEOREM WordIsExact == Spec => []WordExact
<1>1. SemInv => WordExact
  BY DEF SemInv
<1> QED BY <1>1, Invariance, PTL

LEMMA InitWakes == Init => WakeInv
BY DEF Init, WakeInv, NoLostWakeup, DecidedSafe, WaitersKnown, Sleepers

LEMMA NextWakes ==
    ASSUME SemInv, SemInv', WakeInv, AlwaysSignals, [Next]_vars
    PROVE  WakeInv'
<1>1. CASE UNCHANGED vars
  BY <1>1 DEF vars, WakeInv, NoLostWakeup, DecidedSafe, WaitersKnown, Sleepers,
              NextCall
<1>2. ASSUME NEW t \in Thread, Own(t) PROVE WakeInv'
  BY <1>2, decrementWakes, postWakes, slowPathWakes, BlockWakes, sleepWakes,
     takeBlockedWakes, leaveWakes, fenceWakes, signalWakes, disableWakes,
     spinWakes, enableWakes, takeWakes DEF Own
<1>3. ASSUME NEW t \in Thread, timeOut(t) PROVE WakeInv'
  BY <1>3, leaveWakes
<1>4. ASSUME NEW t \in Thread, wakeSpuriously(t) PROVE WakeInv'
  BY <1>4, spuriousWakes
<1> QED BY <1>1, <1>2, <1>3, <1>4 DEF Next

\* As long as every post signals, which is the default
\* (s_postAlwaysSignals, bslmt_fastpostsemaphoreimpl.cpp), no thread sleeps
\* beside something it may take, nor after waiting was disabled, unless another
\* thread is about to see to it.
THEOREM NoWakeupLost ==
    ASSUME AlwaysSignals
    PROVE  Spec => []NoLostWakeup
<1> DEFINE Inv == SemInv /\ WakeInv
<1>1. Init => Inv
  BY InitInv, InitWakes
<1>2. ASSUME Inv, [Next]_vars PROVE Inv'
  BY <1>2, NextInv, NextWakes
<1>3. Inv => NoLostWakeup
  BY DEF WakeInv
<1> QED BY <1>1, <1>2, <1>3, PTL DEF Spec

\* Both of the above: the word is right and in its range whatever the threads
\* do, and in whatever order.
THEOREM WordIsConsistent == Spec => []Consistent
<1> QED BY TypeCorrect, WordIsExact, PTL DEF Consistent

=============================================================================
