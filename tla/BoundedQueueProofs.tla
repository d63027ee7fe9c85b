------------------------- MODULE BoundedQueueProofs --------------------------
(***************************************************************************)
(* What a BoundedQueue keeps of its places is exact, for any capacity, any *)
(* threads and any calls.                                                  *)
(*                                                                         *)
(* Every place of the ring is accounted for: it is free and a push may     *)
(* come for it, or it is between the two indices, or it was popped and not *)
(* yet given back; and every value there is, is one a pop may come for, or *)
(* was pushed and not yet announced.  What is between the indices is in    *)
(* order, and no two pops look at the same place: the queue implements     *)
(* BoundedFifo.  And while waitUntilEmpty is called less often than half   *)
(* the circle of its counter, it is told the truth.                        *)
(***************************************************************************)
EXTENDS BoundedQueue, FiniteSetTheorems, SequenceTheorems, TLAPS

\* The sum of the values of a function of threads.
SumOf(f) == Cardinality(UNION {{t} \X (1 .. f[t]) : t \in Thread})

RemoveAll == {"finish", "swap", "post", "count", "empty", "seen", "fence", "broadcast"}

\* The operations a thread has started and not finished, on one side.
Unfinished(s, t) ==
    IF pc[t] \in {"index", "flag", "construct", "fail", "look", "finish"} /\ Side(t) = s
    THEN my[t].num ELSE 0

Indices(t) == my[t].index .. my[t].index + my[t].num - 1
Skipped(t) == {i \in Indices(t) : Node(i).unconstructed}

\* The places thread t has the right to, and has yet to take: a pop that comes
\* to a node that was left by a push that threw takes another.
Wants(s, t) ==
    IF pc[t] = "idle" \/ Side(t) # s THEN 0
    ELSE IF pc[t] \in {"mark", "index"} THEN my[t].num
    ELSE IF pc[t] = "look" THEN Cardinality(Skipped(t))
    ELSE IF op(t) = "removeAll" /\ pc[t] \in RemoveAll THEN my[t].again
    ELSE 0

\* The places it has dealt with (or is at, in a pop), and not counted.
Holds(s, t) ==
    IF pc[t] \in {"look", "finish"} /\ Side(t) = s THEN my[t].num ELSE 0

\* What it is about to post to the other side.
Owes(s, t) == IF pc[t] = "post" /\ Side(t) = s THEN my[t].seen.started ELSE 0

AllUnfinished(s) == SumOf([t \in Thread |-> Unfinished(s, t)])
AllWanted(s)     == SumOf([t \in Thread |-> Wants(s, t)])
AllHeld(s)       == SumOf([t \in Thread |-> Holds(s, t)])
AllOwed(s)       == SumOf([t \in Thread |-> Owes(s, t)])

\* The rights to a place of one side, and the places the other side has yet to
\* announce.
Rights(s) == sem[s].tokens + AllWanted(s) + AllOwed(Other(s))
Done(s)   == AllHeld(s) + count[s].finished

\* The pushes that have a place and have not constructed its value, and the
\* values that were constructed.
Open   == {t \in Thread : pc[t] \in {"flag", "construct"}}
Filled == {i \in Places : /\ ~Node(i).unconstructed
                          /\ \A u \in Open : my[u].index # i}
Before(k) == {i \in Filled : i < k}

-----------------------------------------------------------------------------
(* The invariant *)

Labels == {"idle", "waiting", "refund", "mark", "index", "flag", "construct", "fail",
           "look", "finish", "swap", "post", "count", "empty", "seen", "fence",
           "broadcast", "drain", "state", "peek", "lock", "decided", "asleep"}

\* The types, but for the bound of the semaphores, which follows from the rest.
Types ==
    /\ sem \in [Sides -> [tokens : Nat, gen : Nat]]
    /\ count \in [Sides -> [started : Nat, finished : Nat]]
    /\ d_pushIndex \in Nat /\ d_popIndex \in Nat
    /\ d_element \in [0 .. Capacity - 1 ->
                         [unconstructed : BOOLEAN, val : Value \cup {NoValue}]]
    /\ my \in [Thread -> Locals]
    /\ script \in Scripts
    /\ step \in [Thread -> Nat]
    /\ out \in [Thread -> Value \cup {NoValue}]
    /\ pc \in [Thread -> Labels]

WaiterTypes ==
    /\ d_emptyWaiterCount \in 0 .. Circle - 1
    /\ d_emptyCountSeen \in 0 .. Circle - 1
    /\ d_emptyMutex \in Thread \cup {None}
    /\ notified \subseteq Thread

\* A thread is in the call it makes.
CallRight(t) ==
    /\ pc[t] # "idle" => step[t] < Len(script[t])
    /\ pc[t] \in {"waiting", "refund"} => op(t) \in Pushes \cup Pops
    /\ pc[t] \in {"mark", "index", "finish", "swap", "post"} =>
          op(t) \in Pushes \cup Pops \cup {"removeAll"}
    /\ pc[t] \in {"flag", "construct", "fail"} => op(t) \in Pushes
    /\ pc[t] = "look" => op(t) \in Pops \cup {"removeAll"}

\* What a call has read.
LocalRight(t) ==
    /\ pc[t] \in {"mark", "index", "flag", "construct", "fail", "look", "finish"} =>
          my[t].num # 0 /\ (op(t) # "removeAll" => my[t].num = 1)
    /\ pc[t] \in {"swap", "post"} => my[t].seen.started = my[t].seen.finished
    /\ pc[t] = "construct" => Node(my[t].index).unconstructed

ThreadsRight == \A t \in Thread : CallRight(t) /\ LocalRight(t)

\* Different threads are at different places, in order.
PlacesRight ==
    /\ d_popIndex <= d_pushIndex
    /\ \A t \in Open : /\ my[t].index \in Places
                       /\ \A u \in Open : my[u].index = my[t].index => u = t
    /\ \A t \in Thread : pc[t] = "look" => my[t].index + my[t].num <= d_popIndex

Counted ==
    \A s \in Sides : count[s].started = count[s].finished + AllUnfinished(s)

\* Every place of the ring is accounted for, and every value.
PlacesCounted == Capacity = Rights("push") + (d_pushIndex - d_popIndex) + Done("pop")
ValuesCounted == Cardinality(Filled) = Rights("pop") + Done("push")

\* No push has a right to a place that a pop looks at.
RingRight ==
    \A t \in Thread : pc[t] = "look" =>
        Rights("push") + d_pushIndex <= my[t].index + Capacity

\* No pop has a right to a place at which a value is constructed: there is one
\* before it for each of them.
OrderRight == \A u \in Open : Rights("pop") <= Cardinality(Before(my[u].index))

\* Whoever completes a count goes to swap it for zero.
SwapRight ==
    \A s \in Sides : isQuiescentState(count[s]) /\ count[s] # NoCount =>
        \E t \in Thread : pc[t] = "swap" /\ Side(t) = s /\ my[t].seen = count[s]

QueueInv ==
    /\ Types /\ WaiterTypes /\ ThreadsRight /\ PlacesRight /\ Counted
    /\ PlacesCounted /\ ValuesCounted /\ RingRight /\ OrderRight /\ SwapRight

-----------------------------------------------------------------------------
(* Facts about the constants and sums *)

LEMMA Constants ==
    /\ IsFiniteSet(Thread) /\ Capacity \in Nat /\ Capacity >= 2
    /\ NoValue \notin Value /\ Circle \in Nat \ {0}
    /\ Scripts \subseteq [Thread -> Seq(Calls)]
BY QueueAssumption DEF QueueAssumption

LEMMA RowSize ==
    ASSUME NEW x, NEW n \in Nat
    PROVE  IsFiniteSet({x} \X (1 .. n)) /\ Cardinality({x} \X (1 .. n)) = n
<1>1. IsFiniteSet(1 .. n) /\ Cardinality(1 .. n) = n
  <2>1. 1 \in Int /\ n \in Int
    OBVIOUS
  <2>2. IsFiniteSet(1 .. n) /\ Cardinality(1 .. n) = IF 1 > n THEN 0 ELSE n - 1 + 1
    BY <2>1, FS_Interval
  <2> QED BY <2>2
<1>2. IsFiniteSet({x}) /\ Cardinality({x}) = 1
  BY FS_Singleton
<1>3. /\ IsFiniteSet({x} \X (1 .. n))
      /\ Cardinality({x} \X (1 .. n)) = Cardinality({x}) * Cardinality(1 .. n)
  BY <1>1, <1>2, FS_Product
<1>4. 1 * n = n
  OBVIOUS
<1> QED BY <1>1, <1>2, <1>3, <1>4

\* What thread t adds to a sum, and what the others do.
LEMMA SumSplit ==
    ASSUME NEW f \in [Thread -> Nat], NEW t \in Thread,
           NEW R, R = UNION {{u} \X (1 .. f[u]) : u \in Thread \ {t}}
    PROVE  /\ IsFiniteSet(R) /\ Cardinality(R) \in Nat
           /\ SumOf(f) = Cardinality(R) + f[t]
<1> DEFINE g == [u \in Thread \ {t} |-> {u} \X (1 .. f[u])]
           T == {{u} \X (1 .. f[u]) : u \in Thread \ {t}}
           own == {t} \X (1 .. f[t])
<1>1. IsFiniteSet(Thread \ {t})
  BY Constants, FS_Subset
<1>2. g \in Surjection(Thread \ {t}, T)
  BY DEF Surjection
<1>3. IsFiniteSet(T)
  BY <1>1, <1>2, FS_Surjection
<1>4. ASSUME NEW u \in Thread PROVE IsFiniteSet({u} \X (1 .. f[u]))
  BY RowSize
<1>5. IsFiniteSet(R) /\ Cardinality(R) \in Nat
  BY <1>3, <1>4, FS_UNION, FS_CardinalityType
<1>6. IsFiniteSet(own) /\ Cardinality(own) = f[t] /\ f[t] \in Nat
  BY RowSize
<1>7. R \cap own = {}
  OBVIOUS
<1>8. UNION {{u} \X (1 .. f[u]) : u \in Thread} = R \cup own
  OBVIOUS
<1>9. Cardinality(R \cup own) = Cardinality(R) + Cardinality(own) - Cardinality({})
  BY <1>5, <1>6, <1>7, FS_Union
<1>10. Cardinality({}) = 0
  BY FS_EmptySet
<1> HIDE DEF own
<1> QED BY <1>5, <1>6, <1>8, <1>9, <1>10 DEF SumOf

LEMMA SumChange ==
    ASSUME NEW f \in [Thread -> Nat], NEW g \in [Thread -> Nat], NEW t \in Thread,
           \A u \in Thread \ {t} : g[u] = f[u]
    PROVE  /\ SumOf(f) \in Nat /\ SumOf(g) \in Nat /\ f[t] <= SumOf(f)
           /\ SumOf(g) = SumOf(f) - f[t] + g[t]
<1> DEFINE R == UNION {{u} \X (1 .. f[u]) : u \in Thread \ {t}}
<1>1. R = UNION {{u} \X (1 .. g[u]) : u \in Thread \ {t}}
  OBVIOUS
<1> HIDE DEF R
<1>2. Cardinality(R) \in Nat /\ SumOf(f) = Cardinality(R) + f[t]
  BY SumSplit DEF R
<1>3. SumOf(g) = Cardinality(R) + g[t]
  BY <1>1, SumSplit
<1>4. f[t] \in Nat /\ g[t] \in Nat
  OBVIOUS
<1> QED BY <1>2, <1>3, <1>4

LEMMA SumZero ==
    ASSUME NEW f \in [Thread -> Nat]
    PROVE  SumOf(f) = 0 <=> \A t \in Thread : f[t] = 0
<1>1. ASSUME SumOf(f) = 0, NEW t \in Thread PROVE f[t] = 0
  BY <1>1, SumChange
<1>2. ASSUME \A t \in Thread : f[t] = 0 PROVE SumOf(f) = 0
  <2>1. \A t \in Thread : {t} \X (1 .. f[t]) = {}
    BY <1>2
  <2>2. UNION {{t} \X (1 .. f[t]) : t \in Thread} = {}
    BY <2>1
  <2> QED BY <2>2, FS_EmptySet DEF SumOf
<1> QED BY <1>1, <1>2

-----------------------------------------------------------------------------
(* The ring *)

LEMMA Modulus ==
    ASSUME NEW i \in Nat
    PROVE  i % Capacity \in 0 .. Capacity - 1
BY Constants

LEMMA Division ==
    ASSUME NEW i \in Nat
    PROVE  \E a \in Nat : i = Capacity * a + (i % Capacity)
<1>1. Capacity \in Nat /\ Capacity > 0
  BY Constants
<1> QED BY <1>1

LEMMA NoCollision ==
    ASSUME NEW i \in Nat, NEW k \in Nat, i < k, k < i + Capacity
    PROVE  i % Capacity # k % Capacity
<1>1. Capacity \in Nat /\ Capacity > 0
  BY Constants
<1>2. PICK a \in Nat : i = Capacity * a + (i % Capacity)
  BY Division
<1>3. PICK b \in Nat : k = Capacity * b + (k % Capacity)
  BY Division
<1>4. SUFFICES ASSUME i % Capacity = k % Capacity PROVE FALSE
  OBVIOUS
<1>5. Capacity * a < Capacity * b /\ Capacity * b < Capacity * a + Capacity
  BY <1>1, <1>2, <1>3, <1>4
<1>6. a < b
  BY <1>1, <1>5
<1>7. Capacity * (a + 1) <= Capacity * b
  BY <1>1, <1>6
<1>8. Capacity * (a + 1) = Capacity * a + Capacity
  BY <1>1
<1> QED BY <1>1, <1>5, <1>7, <1>8

-----------------------------------------------------------------------------
(* What one thread does to the sums *)

SameOthers(t) ==
    /\ script' = script
    /\ \A u \in Thread \ {t} : pc'[u] = pc[u] /\ my'[u] = my[u] /\ step'[u] = step[u]

SameFlags ==
    \A i \in 0 .. Capacity - 1 :
        d_element'[i].unconstructed = d_element[i].unconstructed

LEMMA ThreadTypes ==
    ASSUME Types, NEW t \in Thread
    PROVE  /\ Side(t) \in Sides /\ my[t] \in Locals
           /\ my[t].index \in Nat /\ my[t].num \in Nat /\ my[t].again \in Nat
           /\ my[t].seen \in [started : Nat, finished : Nat]
           /\ my[t].seen.started \in Nat /\ my[t].seen.finished \in Nat
           /\ Indices(t) \subseteq Nat /\ IsFiniteSet(Indices(t))
           /\ Cardinality(Indices(t)) = my[t].num
           /\ IsFiniteSet(Skipped(t)) /\ Cardinality(Skipped(t)) \in Nat
           /\ Cardinality(Skipped(t)) <= my[t].num
<1>1. /\ my[t] \in Locals
      /\ my[t].index \in Nat /\ my[t].num \in Nat /\ my[t].again \in Nat
      /\ my[t].seen \in [started : Nat, finished : Nat]
  BY DEF Types, Locals
<1>2. my[t].index \in Int /\ my[t].index + my[t].num - 1 \in Int
  BY <1>1
<1>3. /\ IsFiniteSet(Indices(t))
      /\ Cardinality(Indices(t)) =
            IF my[t].index > my[t].index + my[t].num - 1 THEN 0
            ELSE (my[t].index + my[t].num - 1) - my[t].index + 1
  BY <1>2, FS_Interval DEF Indices
<1>4. Cardinality(Indices(t)) = my[t].num
  BY <1>1, <1>3
<1>5. Indices(t) \subseteq Nat
  BY <1>1 DEF Indices
<1>6. /\ IsFiniteSet(Skipped(t)) /\ Cardinality(Skipped(t)) \in Nat
      /\ Cardinality(Skipped(t)) <= Cardinality(Indices(t))
  <2>1. Skipped(t) \subseteq Indices(t)
    BY DEF Skipped
  <2> QED BY <2>1, <1>3, FS_Subset, FS_CardinalityType
<1>7. my[t].seen.started \in Nat /\ my[t].seen.finished \in Nat
  BY <1>1
<1>8. Side(t) \in Sides
  BY DEF Side, Sides
<1> QED BY <1>1, <1>3, <1>4, <1>5, <1>6, <1>7, <1>8

LEMMA RangeSize ==
    ASSUME NEW i \in Nat, NEW n \in Nat, NEW S \in SUBSET (i .. i + n - 1)
    PROVE  Cardinality(S) \in Nat /\ Cardinality(S) <= n
<1>1. i \in Int /\ i + n - 1 \in Int
  OBVIOUS
<1>2. /\ IsFiniteSet(i .. i + n - 1)
      /\ Cardinality(i .. i + n - 1) = IF i > i + n - 1 THEN 0 ELSE (i + n - 1) - i + 1
  BY <1>1, FS_Interval
<1>3. Cardinality(i .. i + n - 1) = n
  BY <1>2
<1>4. IsFiniteSet(S) /\ Cardinality(S) <= Cardinality(i .. i + n - 1)
  BY <1>2, FS_Subset
<1> QED BY <1>3, <1>4, FS_CardinalityType

LEMMA ShareTypes ==
    ASSUME Types
    PROVE  \A s \in Sides, t \in Thread :
              /\ Unfinished(s, t) \in Nat /\ Wants(s, t) \in Nat
              /\ Holds(s, t) \in Nat /\ Owes(s, t) \in Nat
<1> SUFFICES ASSUME NEW s \in Sides, NEW t \in Thread
             PROVE  /\ Unfinished(s, t) \in Nat /\ Wants(s, t) \in Nat
                    /\ Holds(s, t) \in Nat /\ Owes(s, t) \in Nat
  OBVIOUS
<1> QED BY ThreadTypes DEF Unfinished, Wants, Holds, Owes

LEMMA ShareTypesNext ==
    ASSUME Types', NEW s \in Sides, NEW t \in Thread
    PROVE  /\ Unfinished(s, t)' \in Nat /\ Wants(s, t)' \in Nat
           /\ Holds(s, t)' \in Nat /\ Owes(s, t)' \in Nat
<1>1. /\ my'[t].index \in Nat /\ my'[t].num \in Nat /\ my'[t].again \in Nat
      /\ my'[t].seen.started \in Nat
  BY DEF Types, Locals
<1>2. Skipped(t)' \in SUBSET (my'[t].index .. my'[t].index + my'[t].num - 1)
  BY DEF Skipped, Indices
<1>3. Cardinality(Skipped(t)') \in Nat
  BY <1>1, <1>2, RangeSize
<1> QED BY <1>1, <1>3 DEF Unfinished, Wants, Holds, Owes

LEMMA SumTypes ==
    ASSUME Types, NEW s \in Sides
    PROVE  /\ AllUnfinished(s) \in Nat /\ AllWanted(s) \in Nat
           /\ AllHeld(s) \in Nat /\ AllOwed(s) \in Nat
           /\ Rights(s) \in Nat /\ Done(s) \in Nat
           /\ \A t \in Thread : /\ Unfinished(s, t) <= AllUnfinished(s)
                                /\ Wants(s, t) <= AllWanted(s)
                                /\ Holds(s, t) <= AllHeld(s)
                                /\ Owes(s, t) <= AllOwed(s)
           /\ sem[s].tokens \in Nat /\ sem[s].gen \in Nat /\ count[s].started \in Nat
           /\ count[s].finished \in Nat
           /\ Other(s) \in Sides /\ Other(Other(s)) = s /\ Other(s) # s
<1>1. ASSUME NEW f \in [Thread -> Nat]
      PROVE  SumOf(f) \in Nat /\ \A t \in Thread : f[t] <= SumOf(f)
  <2>1. CASE Thread = {}
    <3>1. UNION {{t} \X (1 .. f[t]) : t \in Thread} = {}
      BY <2>1
    <3> QED BY <2>1, <3>1, FS_EmptySet DEF SumOf
  <2>2. CASE Thread # {}
    BY <2>2, SumChange
  <2> QED BY <2>1, <2>2
<1>2. Other(s) \in Sides /\ Other(Other(s)) = s /\ Other(s) # s
  BY DEF Sides, Other
<1>3. \A q \in Sides : /\ [t \in Thread |-> Unfinished(q, t)] \in [Thread -> Nat]
                       /\ [t \in Thread |-> Wants(q, t)] \in [Thread -> Nat]
                       /\ [t \in Thread |-> Holds(q, t)] \in [Thread -> Nat]
                       /\ [t \in Thread |-> Owes(q, t)] \in [Thread -> Nat]
  BY ShareTypes
<1>4. \A q \in Sides :
         /\ AllUnfinished(q) \in Nat /\ AllWanted(q) \in Nat
         /\ AllHeld(q) \in Nat /\ AllOwed(q) \in Nat
         /\ \A t \in Thread : /\ Unfinished(q, t) <= AllUnfinished(q)
                              /\ Wants(q, t) <= AllWanted(q)
                              /\ Holds(q, t) <= AllHeld(q)
                              /\ Owes(q, t) <= AllOwed(q)
  <2> SUFFICES ASSUME NEW q \in Sides
               PROVE  /\ AllUnfinished(q) \in Nat /\ AllWanted(q) \in Nat
                      /\ AllHeld(q) \in Nat /\ AllOwed(q) \in Nat
                      /\ \A t \in Thread : /\ Unfinished(q, t) <= AllUnfinished(q)
                                           /\ Wants(q, t) <= AllWanted(q)
                                           /\ Holds(q, t) <= AllHeld(q)
                                           /\ Owes(q, t) <= AllOwed(q)
    OBVIOUS
  <2>1. AllUnfinished(q) \in Nat /\ \A t \in Thread : Unfinished(q, t) <= AllUnfinished(q)
    BY <1>1, <1>3 DEF AllUnfinished
  <2>2. AllWanted(q) \in Nat /\ \A t \in Thread : Wants(q, t) <= AllWanted(q)
    BY <1>1, <1>3 DEF AllWanted
  <2>3. AllHeld(q) \in Nat /\ \A t \in Thread : Holds(q, t) <= AllHeld(q)
    BY <1>1, <1>3 DEF AllHeld
  <2>4. AllOwed(q) \in Nat /\ \A t \in Thread : Owes(q, t) <= AllOwed(q)
    BY <1>1, <1>3 DEF AllOwed
  <2> QED BY <2>1, <2>2, <2>3, <2>4
<1>5. /\ sem[s].tokens \in Nat /\ sem[s].gen \in Nat /\ count[s].started \in Nat
      /\ count[s].finished \in Nat
  BY DEF Types
<1>6. Rights(s) \in Nat /\ Done(s) \in Nat
  BY <1>2, <1>4, <1>5 DEF Rights, Done
<1> QED BY <1>2, <1>4, <1>5, <1>6

LEMMA OtherThread ==
    ASSUME NEW t \in Thread, SameOthers(t), NEW u \in Thread \ {t}
    PROVE  /\ NextCall(u)' = NextCall(u) /\ op(u)' = op(u) /\ Side(u)' = Side(u)
           /\ \A s \in Sides : /\ Unfinished(s, u)' = Unfinished(s, u)
                               /\ Holds(s, u)' = Holds(s, u)
                               /\ Owes(s, u)' = Owes(s, u)
                               /\ (pc[u] = "look" => Skipped(u)' = Skipped(u))
                                  => Wants(s, u)' = Wants(s, u)
           /\ CallRight(u)' = CallRight(u)
<1>1. pc'[u] = pc[u] /\ my'[u] = my[u] /\ step'[u] = step[u] /\ script' = script
  BY DEF SameOthers
<1>2. NextCall(u)' = NextCall(u)
  BY <1>1 DEF NextCall
<1>3. op(u)' = op(u)
  BY <1>2 DEF op
<1>4. Side(u)' = Side(u)
  BY <1>3 DEF Side
<1> QED BY <1>1, <1>2, <1>3, <1>4 DEF Unfinished, Holds, Owes, Wants, CallRight

LEMMA Deltas ==
    ASSUME Types, Types', NEW t \in Thread, SameOthers(t),
           \A u \in Thread \ {t} : pc[u] = "look" => Skipped(u)' = Skipped(u),
           NEW s \in Sides
    PROVE  /\ AllUnfinished(s)' = AllUnfinished(s) - Unfinished(s, t) + Unfinished(s, t)'
           /\ AllWanted(s)' = AllWanted(s) - Wants(s, t) + Wants(s, t)'
           /\ AllHeld(s)' = AllHeld(s) - Holds(s, t) + Holds(s, t)'
           /\ AllOwed(s)' = AllOwed(s) - Owes(s, t) + Owes(s, t)'
<1> DEFINE fU == [u \in Thread |-> Unfinished(s, u)]
           gU == [u \in Thread |-> Unfinished(s, u)']
           fW == [u \in Thread |-> Wants(s, u)]
           gW == [u \in Thread |-> Wants(s, u)']
           fH == [u \in Thread |-> Holds(s, u)]
           gH == [u \in Thread |-> Holds(s, u)']
           fO == [u \in Thread |-> Owes(s, u)]
           gO == [u \in Thread |-> Owes(s, u)']
<1>1. \A u \in Thread : /\ Unfinished(s, u) \in Nat /\ Wants(s, u) \in Nat
                        /\ Holds(s, u) \in Nat /\ Owes(s, u) \in Nat
  BY ShareTypes
<1>2. \A u \in Thread : /\ Unfinished(s, u)' \in Nat /\ Wants(s, u)' \in Nat
                        /\ Holds(s, u)' \in Nat /\ Owes(s, u)' \in Nat
  BY ShareTypesNext
<1>3. \A u \in Thread \ {t} : /\ Unfinished(s, u)' = Unfinished(s, u)
                              /\ Wants(s, u)' = Wants(s, u)
                              /\ Holds(s, u)' = Holds(s, u)
                              /\ Owes(s, u)' = Owes(s, u)
  BY OtherThread
<1>4. /\ AllUnfinished(s) = SumOf(fU) /\ AllUnfinished(s)' = SumOf(gU)
      /\ AllWanted(s) = SumOf(fW) /\ AllWanted(s)' = SumOf(gW)
      /\ AllHeld(s) = SumOf(fH) /\ AllHeld(s)' = SumOf(gH)
      /\ AllOwed(s) = SumOf(fO) /\ AllOwed(s)' = SumOf(gO)
  BY DEF AllUnfinished, AllWanted, AllHeld, AllOwed, SumOf
<1>5. SumOf(gU) = SumOf(fU) - Unfinished(s, t) + Unfinished(s, t)'
  <2>1. /\ fU \in [Thread -> Nat] /\ gU \in [Thread -> Nat]
        /\ \A u \in Thread \ {t} : gU[u] = fU[u]
        /\ fU[t] = Unfinished(s, t) /\ gU[t] = Unfinished(s, t)'
    BY <1>1, <1>2, <1>3
  <2> HIDE DEF fU, gU
  <2> QED BY <2>1, SumChange
<1>6. SumOf(gW) = SumOf(fW) - Wants(s, t) + Wants(s, t)'
  <2>1. /\ fW \in [Thread -> Nat] /\ gW \in [Thread -> Nat]
        /\ \A u \in Thread \ {t} : gW[u] = fW[u]
        /\ fW[t] = Wants(s, t) /\ gW[t] = Wants(s, t)'
    BY <1>1, <1>2, <1>3
  <2> HIDE DEF fW, gW
  <2> QED BY <2>1, SumChange
<1>7. SumOf(gH) = SumOf(fH) - Holds(s, t) + Holds(s, t)'
  <2>1. /\ fH \in [Thread -> Nat] /\ gH \in [Thread -> Nat]
        /\ \A u \in Thread \ {t} : gH[u] = fH[u]
        /\ fH[t] = Holds(s, t) /\ gH[t] = Holds(s, t)'
    BY <1>1, <1>2, <1>3
  <2> HIDE DEF fH, gH
  <2> QED BY <2>1, SumChange
<1>8. SumOf(gO) = SumOf(fO) - Owes(s, t) + Owes(s, t)'
  <2>1. /\ fO \in [Thread -> Nat] /\ gO \in [Thread -> Nat]
        /\ \A u \in Thread \ {t} : gO[u] = fO[u]
        /\ fO[t] = Owes(s, t) /\ gO[t] = Owes(s, t)'
    BY <1>1, <1>2, <1>3
  <2> HIDE DEF fO, gO
  <2> QED BY <2>1, SumChange
<1> QED BY <1>4, <1>5, <1>6, <1>7, <1>8

-----------------------------------------------------------------------------
(* Steps that leave the places alone *)

LEMMA NodeSame ==
    ASSUME SameFlags, NEW i \in Nat
    PROVE  Node(i).unconstructed' = Node(i).unconstructed
BY Modulus DEF SameFlags, Node

LEMMA OpenTypes ==
    ASSUME QueueInv, NEW u \in Thread
    PROVE  /\ u \in Open => my[u].index \in Places
           /\ my[u].index \in Nat /\ Places \subseteq Nat
BY ThreadTypes DEF QueueInv, PlacesRight, Types, Places

LEMMA QuietPlaces ==
    ASSUME QueueInv, Types', NEW t \in Thread, SameOthers(t), SameFlags,
           UNCHANGED <<d_pushIndex, d_popIndex>>,
           pc'[t] \notin {"flag", "construct", "look"},
           t \in Open => Node(my[t].index).unconstructed
    PROVE  /\ Filled' = Filled /\ Open' \subseteq Open
           /\ \A u \in Open' : my'[u] = my[u]
           /\ \A k \in Nat : Before(k)' = Before(k)
           /\ PlacesRight'
           /\ \A u \in Thread \ {t} : LocalRight(u)' = LocalRight(u)
                                      /\ Skipped(u)' = Skipped(u)
<1>1. Places' = Places /\ Places \subseteq Nat
  BY DEF Places, QueueInv, Types
<1>2. Open' = Open \ {t} /\ \A u \in Open' : my'[u] = my[u]
  BY DEF Open, SameOthers
<1>3. \A i \in Nat : Node(i)'.unconstructed = Node(i).unconstructed
  BY NodeSame
<1>4. Filled' = Filled
  <2>1. ASSUME NEW i \in Places
        PROVE  i \in Filled' <=> i \in Filled
    <3>1. i \in Nat /\ Node(i)'.unconstructed = Node(i).unconstructed
      BY <1>1, <1>3
    <3>2. i \in Filled' <=> /\ ~Node(i).unconstructed
                            /\ \A u \in Open \ {t} : my[u].index # i
      BY <1>1, <1>2, <3>1 DEF Filled
    <3>3. i \in Filled <=> /\ ~Node(i).unconstructed
                           /\ \A u \in Open : my[u].index # i
      BY DEF Filled
    <3> QED BY <3>2, <3>3
  <2> QED BY <1>1, <2>1 DEF Filled
<1>5. \A k \in Nat : Before(k)' = Before(k)
  BY <1>4 DEF Before
<1>6. PlacesRight'
  BY <1>1, <1>2 DEF QueueInv, PlacesRight, SameOthers
<1>7. ASSUME NEW u \in Thread \ {t}
      PROVE  LocalRight(u)' = LocalRight(u) /\ Skipped(u)' = Skipped(u)
  <2>1. pc'[u] = pc[u] /\ my'[u] = my[u] /\ op(u)' = op(u)
    BY OtherThread DEF SameOthers
  <2>2. my[u].index \in Nat /\ Indices(u) \subseteq Nat /\ Indices(u)' = Indices(u)
    BY <2>1, ThreadTypes DEF QueueInv, Indices
  <2>3. Node(my[u].index)'.unconstructed = Node(my[u].index).unconstructed
    <3>1. PICK k \in Nat : k = my[u].index /\ k = my'[u].index
      BY <2>1, <2>2
    <3>2. Node(k)'.unconstructed = Node(k).unconstructed
      BY <1>3
    <3> QED BY <3>1, <3>2 DEF Node
  <2>4. LocalRight(u)' = LocalRight(u)
    BY <2>1, <2>3 DEF LocalRight, Node
  <2>5. Skipped(u)' = Skipped(u)
    BY <1>3, <2>2 DEF Skipped
  <2> QED BY <2>4, <2>5
<1> QED BY <1>2, <1>4, <1>5, <1>6, <1>7

\* Thread t has no share in the sums of a side.
Apart(s, t) ==
    Unfinished(s, t) = 0 /\ Wants(s, t) = 0 /\ Holds(s, t) = 0 /\ Owes(s, t) = 0

LEMMA NothingStarted ==
    ASSUME QueueInv, NEW s \in Sides, AllUnfinished(s) = 0
    PROVE  /\ s = "push" => Open = {}
           /\ s = "pop" => \A t \in Thread : pc[t] # "look"
           /\ \A t \in Thread : pc[t] \in {"index", "finish", "fail"} => Side(t) # s
<1>1. \A t \in Thread : Unfinished(s, t) = 0
  <2>1. \A t \in Thread : Unfinished(s, t) \in Nat /\ Unfinished(s, t) <= 0
    BY SumTypes, ShareTypes DEF QueueInv
  <2> QED BY <2>1
<1>2. ASSUME NEW t \in Thread,
             pc[t] \in {"index", "flag", "construct", "fail", "look", "finish"}
      PROVE  Side(t) # s
  <2>1. my[t].num # 0
    BY <1>2 DEF QueueInv, ThreadsRight, LocalRight
  <2> QED BY <1>1, <1>2, <2>1 DEF Unfinished
<1>3. \A t \in Thread : /\ pc[t] \in {"flag", "construct"} => Side(t) = "push"
                        /\ pc[t] = "look" => Side(t) = "pop"
  BY DEF QueueInv, ThreadsRight, CallRight, Side, Pushes, Pops
<1> QED BY <1>2, <1>3 DEF Open

\* Rights, places and counts that thread t moves about on its side.
Moves(s, t) ==
    /\ Apart(Other(s), t) /\ Apart(Other(s), t)'
    /\ count'[Other(s)] = count[Other(s)]
    /\ sem'[s].tokens + Wants(s, t)' = sem[s].tokens + Wants(s, t)
    /\ sem'[Other(s)].tokens + Owes(s, t)' + (Holds(s, t)' + count'[s].finished)
          = sem[Other(s)].tokens + Owes(s, t) + (Holds(s, t) + count[s].finished)
    /\ count'[s].started + count[s].finished + Unfinished(s, t)
          = count[s].started + count'[s].finished + Unfinished(s, t)'
    /\ \/ sem'[Other(s)].tokens + Owes(s, t)' = sem[Other(s)].tokens + Owes(s, t)
       \/ AllUnfinished(s) = 0

\* A step that does no more than that keeps the invariant.
LEMMA Balance ==
    ASSUME QueueInv, Types', WaiterTypes', NEW t \in Thread, SameOthers(t), SameFlags,
           UNCHANGED <<d_pushIndex, d_popIndex>>,
           pc'[t] \notin {"flag", "construct", "look"},
           t \in Open => Node(my[t].index).unconstructed,
           CallRight(t)', LocalRight(t)', SwapRight',
           NEW s \in Sides, Moves(s, t)
    PROVE  QueueInv'
<1> DEFINE o == Other(s)
<1>0. Types
  BY DEF QueueInv
<1>1. /\ Filled' = Filled /\ Open' \subseteq Open
      /\ \A u \in Open' : my'[u] = my[u]
      /\ \A k \in Nat : Before(k)' = Before(k)
      /\ PlacesRight'
      /\ \A u \in Thread \ {t} : LocalRight(u)' = LocalRight(u)
                                 /\ Skipped(u)' = Skipped(u)
  BY QuietPlaces
<1>2. /\ o \in Sides /\ Other(o) = s /\ o # s /\ Sides = {s, o}
      /\ s = "push" => o = "pop"
      /\ s = "pop" => o = "push"
  BY DEF Sides, Other
<1>3. /\ AllUnfinished(s)' = AllUnfinished(s) - Unfinished(s, t) + Unfinished(s, t)'
      /\ AllWanted(s)' = AllWanted(s) - Wants(s, t) + Wants(s, t)'
      /\ AllHeld(s)' = AllHeld(s) - Holds(s, t) + Holds(s, t)'
      /\ AllOwed(s)' = AllOwed(s) - Owes(s, t) + Owes(s, t)'
  BY <1>0, <1>1, Deltas
<1>4. /\ AllUnfinished(o)' = AllUnfinished(o) - Unfinished(o, t) + Unfinished(o, t)'
      /\ AllWanted(o)' = AllWanted(o) - Wants(o, t) + Wants(o, t)'
      /\ AllHeld(o)' = AllHeld(o) - Holds(o, t) + Holds(o, t)'
      /\ AllOwed(o)' = AllOwed(o) - Owes(o, t) + Owes(o, t)'
  BY <1>0, <1>1, <1>2, Deltas
<1>5. \A q \in Sides :
         /\ AllUnfinished(q) \in Nat /\ AllWanted(q) \in Nat
         /\ AllHeld(q) \in Nat /\ AllOwed(q) \in Nat
         /\ sem[q].tokens \in Nat /\ count[q].started \in Nat /\ count[q].finished \in Nat
         /\ Rights(q) \in Nat /\ Done(q) \in Nat
         /\ Unfinished(q, t) \in Nat /\ Wants(q, t) \in Nat
         /\ Holds(q, t) \in Nat /\ Owes(q, t) \in Nat
         /\ Unfinished(q, t)' \in Nat /\ Wants(q, t)' \in Nat
         /\ Holds(q, t)' \in Nat /\ Owes(q, t)' \in Nat
  BY <1>0, SumTypes, ShareTypes, ShareTypesNext
<1>6. \A q \in Sides : /\ sem'[q].tokens \in Nat /\ count'[q].started \in Nat
                       /\ count'[q].finished \in Nat
  BY DEF Types
<1>7. /\ AllUnfinished(o)' = AllUnfinished(o) /\ AllWanted(o)' = AllWanted(o)
      /\ AllHeld(o)' = AllHeld(o) /\ AllOwed(o)' = AllOwed(o)
  BY <1>2, <1>4, <1>5 DEF Apart, Moves
<1>8. Rights(s)' = Rights(s)
  <2>1. /\ Rights(s) = sem[s].tokens + AllWanted(s) + AllOwed(o)
        /\ Rights(s)' = sem'[s].tokens + AllWanted(s)' + AllOwed(o)'
    BY DEF Rights
  <2>2. /\ AllWanted(s) \in Nat /\ AllOwed(o) \in Nat /\ Wants(s, t) \in Nat
        /\ Wants(s, t)' \in Nat /\ sem[s].tokens \in Nat /\ sem'[s].tokens \in Nat
    BY <1>2, <1>5, <1>6
  <2>3. sem'[s].tokens + AllWanted(s)' = sem[s].tokens + AllWanted(s)
    BY <1>3, <2>2 DEF Moves
  <2> QED BY <2>1, <2>3, <1>7
<1>9. Done(o)' = Done(o)
  BY <1>7 DEF Done, Moves
<1>10. Rights(o)' + Done(s)' = Rights(o) + Done(s)
  <2>1. /\ Rights(o) = sem[o].tokens + AllWanted(o) + AllOwed(s)
        /\ Rights(o)' = sem'[o].tokens + AllWanted(o)' + AllOwed(s)'
        /\ Done(s) = AllHeld(s) + count[s].finished
        /\ Done(s)' = AllHeld(s)' + count'[s].finished
    BY <1>2 DEF Rights, Done
  <2>2. /\ AllHeld(s) \in Nat /\ AllOwed(s) \in Nat /\ AllWanted(o) \in Nat
        /\ Holds(s, t) \in Nat /\ Holds(s, t)' \in Nat
        /\ Owes(s, t) \in Nat /\ Owes(s, t)' \in Nat
        /\ sem[o].tokens \in Nat /\ sem'[o].tokens \in Nat
        /\ count[s].finished \in Nat /\ count'[s].finished \in Nat
    BY <1>2, <1>5, <1>6
  <2>3. sem'[o].tokens + AllOwed(s)' + (AllHeld(s)' + count'[s].finished)
          = sem[o].tokens + AllOwed(s) + (AllHeld(s) + count[s].finished)
    <3>1. sem'[o].tokens + Owes(s, t)' + (Holds(s, t)' + count'[s].finished)
             = sem[o].tokens + Owes(s, t) + (Holds(s, t) + count[s].finished)
      BY DEF Moves
    <3>2. /\ AllHeld(s)' = AllHeld(s) - Holds(s, t) + Holds(s, t)'
          /\ AllOwed(s)' = AllOwed(s) - Owes(s, t) + Owes(s, t)'
      BY <1>3
    <3> QED BY <2>2, <3>1, <3>2
  <2>4. AllHeld(s)' \in Int /\ AllOwed(s)' \in Int /\ AllWanted(o)' = AllWanted(o)
    BY <1>3, <1>7, <2>2
  <2>5. Rights(o) + Done(s) =
           AllWanted(o) + (sem[o].tokens + AllOwed(s) + (AllHeld(s) + count[s].finished))
    BY <2>1, <2>2
  <2>6. Rights(o)' + Done(s)' =
           AllWanted(o) + (sem'[o].tokens + AllOwed(s)' + (AllHeld(s)' + count'[s].finished))
    BY <2>1, <2>2, <2>4
  <2> QED BY <2>3, <2>5, <2>6
<1>11. \/ Rights(o)' = Rights(o)
       \/ AllUnfinished(s) = 0
  <2>1. /\ Rights(o) = sem[o].tokens + AllWanted(o) + AllOwed(s)
        /\ Rights(o)' = sem'[o].tokens + AllWanted(o)' + AllOwed(s)'
    BY <1>2 DEF Rights
  <2>2. /\ AllOwed(s) \in Nat /\ AllWanted(o) \in Nat
        /\ Owes(s, t) \in Nat /\ Owes(s, t)' \in Nat
        /\ sem[o].tokens \in Nat /\ sem'[o].tokens \in Nat
    BY <1>2, <1>5, <1>6
  <2>3. AllOwed(s)' \in Int /\ AllWanted(o)' = AllWanted(o)
    BY <1>3, <1>7, <2>2
  <2> QED BY <1>3, <2>1, <2>2, <2>3 DEF Moves
<1>12. Counted'
  <2>1. count[s].started = count[s].finished + AllUnfinished(s)
    BY DEF QueueInv, Counted
  <2>2. count'[s].started = count'[s].finished + AllUnfinished(s)'
    <3>1. /\ AllUnfinished(s) \in Nat /\ Unfinished(s, t) \in Nat
          /\ Unfinished(s, t)' \in Nat
          /\ count[s].started \in Nat /\ count[s].finished \in Nat
          /\ count'[s].started \in Nat /\ count'[s].finished \in Nat
      BY <1>5, <1>6
    <3>2. AllUnfinished(s)' = AllUnfinished(s) - Unfinished(s, t) + Unfinished(s, t)'
      BY <1>3
    <3>3. count'[s].started + count[s].finished + Unfinished(s, t)
             = count[s].started + count'[s].finished + Unfinished(s, t)'
      BY DEF Moves
    <3>4. AllUnfinished(s)' \in Int
      BY <3>1, <3>2
    <3>5. PICK U \in Int : U = AllUnfinished(s)'
      BY <3>4
    <3>6. count'[s].started = count'[s].finished + U
      BY <2>1, <3>1, <3>2, <3>3, <3>5
    <3> QED BY <3>5, <3>6
  <2>3. count'[o].started = count'[o].finished + AllUnfinished(o)'
    BY <1>2, <1>7 DEF Moves, QueueInv, Counted
  <2> QED BY <1>2, <2>2, <2>3 DEF Counted
<1>13. \A q \in Sides : /\ Rights(q) \in Nat /\ Done(q) \in Nat
                        /\ Rights(q)' \in Nat /\ Done(q)' \in Nat
  <2>1. Rights(s)' \in Nat /\ Done(o)' \in Nat
    BY <1>2, <1>5, <1>8, <1>9
  <2>2. Rights(o)' \in Nat /\ Done(s)' \in Nat
    <3>1. /\ AllHeld(s) \in Nat /\ AllOwed(s) \in Nat /\ AllWanted(o)' \in Nat
          /\ Holds(s, t) \in Nat /\ Holds(s, t)' \in Nat /\ Holds(s, t) <= AllHeld(s)
          /\ Owes(s, t) \in Nat /\ Owes(s, t)' \in Nat /\ Owes(s, t) <= AllOwed(s)
          /\ sem'[o].tokens \in Nat /\ count'[s].finished \in Nat
      BY <1>0, <1>2, <1>5, <1>6, <1>7, SumTypes
    <3>2. AllHeld(s)' \in Nat /\ AllOwed(s)' \in Nat
      BY <1>3, <3>1
    <3> QED BY <1>2, <3>1, <3>2 DEF Rights, Done
  <2> QED BY <1>2, <1>5, <2>1, <2>2
<1>14. PlacesCounted' /\ ValuesCounted'
  <2>1. /\ Capacity = Rights("push") + (d_pushIndex - d_popIndex) + Done("pop")
        /\ Cardinality(Filled) = Rights("pop") + Done("push")
        /\ d_pushIndex \in Nat /\ d_popIndex \in Nat
    BY DEF QueueInv, PlacesCounted, ValuesCounted, Types
  <2>2. Cardinality(Filled') = Cardinality(Filled)
    BY <1>1
  <2>3. /\ Rights("push")' + Done("pop")' = Rights("push") + Done("pop")
        /\ Rights("pop")' + Done("push")' = Rights("pop") + Done("push")
    <3>1. CASE s = "push"
      BY <3>1, <1>2, <1>8, <1>9, <1>10
    <3>2. CASE s = "pop"
      BY <3>2, <1>2, <1>8, <1>9, <1>10
    <3> QED BY <3>1, <3>2 DEF Sides
  <2>4. /\ Rights("push") \in Nat /\ Rights("push")' \in Nat
        /\ Rights("pop") \in Nat /\ Rights("pop")' \in Nat
        /\ Done("push") \in Nat /\ Done("push")' \in Nat
        /\ Done("pop") \in Nat /\ Done("pop")' \in Nat
    BY <1>13 DEF Sides
  <2>5. Capacity = Rights("push")' + (d_pushIndex - d_popIndex) + Done("pop")'
    BY <2>1, <2>3, <2>4
  <2>6. Cardinality(Filled') = Rights("pop")' + Done("push")'
    BY <2>1, <2>2, <2>3
  <2> QED BY <2>5, <2>6 DEF PlacesCounted, ValuesCounted
<1>15. RingRight'
  <2>1. SUFFICES ASSUME NEW u \in Thread, pc'[u] = "look"
                 PROVE  Rights("push")' + d_pushIndex' <= my'[u].index + Capacity
    BY DEF RingRight
  <2>2. u # t /\ pc[u] = "look" /\ my'[u] = my[u]
    BY <2>1 DEF SameOthers
  <2>3. Rights("push") + d_pushIndex <= my[u].index + Capacity
    BY <2>2 DEF QueueInv, RingRight
  <2>4. Rights("push")' = Rights("push")
    <3>1. CASE s = "push"
      BY <3>1, <1>8
    <3>2. CASE s = "pop"
      BY <3>2, <1>2, <1>11, <2>2, NothingStarted
    <3> QED BY <3>1, <3>2 DEF Sides
  <2> QED BY <2>2, <2>3, <2>4
<1>16. OrderRight'
  <2>1. SUFFICES ASSUME NEW u \in Open'
                 PROVE  Rights("pop")' <= Cardinality(Before(my[u].index)')
    BY <1>1 DEF OrderRight
  <2>2. u \in Open /\ u \in Thread /\ my'[u] = my[u] /\ my[u].index \in Nat
    BY <1>1, OpenTypes DEF Open
  <2>3. Rights("pop") <= Cardinality(Before(my[u].index))
    BY <2>2 DEF QueueInv, OrderRight
  <2>4. Before(my[u].index)' = Before(my[u].index)
    BY <1>1, <2>2
  <2>5. Rights("pop")' = Rights("pop")
    <3>1. CASE s = "pop"
      BY <3>1, <1>8
    <3>2. CASE s = "push"
      BY <3>2, <1>2, <1>11, <2>2, NothingStarted
    <3> QED BY <3>1, <3>2 DEF Sides
  <2> QED BY <2>3, <2>4, <2>5
<1>17. ThreadsRight'
  <2>1. \A u \in Thread \ {t} : CallRight(u)' /\ LocalRight(u)'
    BY <1>1, OtherThread DEF QueueInv, ThreadsRight
  <2> QED BY <2>1 DEF ThreadsRight
<1> QED BY <1>1, <1>12, <1>14, <1>15, <1>16, <1>17 DEF QueueInv

-----------------------------------------------------------------------------
(* How a step of one thread looks *)

LEMMA SameCall ==
    ASSUME UNCHANGED <<step, script>>
    PROVE  \A u \in Thread : /\ NextCall(u)' = NextCall(u) /\ op(u)' = op(u)
                             /\ Side(u)' = Side(u)
<1> TAKE u \in Thread
<1>1. NextCall(u)' = NextCall(u)
  BY DEF NextCall
<1>2. op(u)' = op(u)
  BY <1>1 DEF op
<1> QED BY <1>1, <1>2 DEF Side

LEMMA GotoFrame ==
    ASSUME Types, NEW t \in Thread, NEW p \in Labels, Goto(t, p),
           \A u \in Thread \ {t} : my'[u] = my[u]
    PROVE  /\ SameOthers(t) /\ pc'[t] = p /\ pc' \in [Thread -> Labels]
           /\ step' \in [Thread -> Nat] /\ script' \in Scripts
           /\ out' \in [Thread -> Value \cup {NoValue}]
           /\ op(t)' = op(t) /\ Side(t)' = Side(t) /\ NextCall(t)' = NextCall(t)
           /\ step'[t] = step[t] /\ script' = script
BY SameCall DEF Goto, Types, SameOthers

LEMMA ReturnFrame ==
    ASSUME Types, NEW t \in Thread, Return(t),
           \A u \in Thread \ {t} : my'[u] = my[u]
    PROVE  /\ SameOthers(t) /\ pc'[t] = "idle" /\ pc' \in [Thread -> Labels]
           /\ step' \in [Thread -> Nat] /\ script' \in Scripts
           /\ out' \in [Thread -> Value \cup {NoValue}]
           /\ CallRight(t)' /\ LocalRight(t)'
<1>1. /\ SameOthers(t) /\ pc'[t] = "idle" /\ pc' \in [Thread -> Labels]
      /\ step' \in [Thread -> Nat] /\ script' \in Scripts
      /\ out' \in [Thread -> Value \cup {NoValue}]
  BY DEF Return, Types, SameOthers, Labels
<1>2. CallRight(t)' /\ LocalRight(t)'
  BY <1>1 DEF CallRight, LocalRight
<1> QED BY <1>1, <1>2

\* Thread t has no share in the side it is not on, and none when it is idle.
LEMMA ApartBoth ==
    ASSUME Types, NEW t \in Thread, NEW s \in Sides, s = Side(t),
           Side(t)' = s \/ pc'[t] = "idle"
    PROVE  /\ Apart(Other(s), t) /\ Apart(Other(s), t)'
           /\ pc[t] = "idle" => Apart(s, t)
           /\ pc'[t] = "idle" => Apart(s, t)'
<1>1. Other(s) # s
  BY DEF Sides, Other
<1>2. ASSUME NEW q, Side(t) # q \/ pc[t] = "idle" PROVE Apart(q, t)
  BY <1>2 DEF Apart, Unfinished, Wants, Holds, Owes
<1>3. ASSUME NEW q, Side(t)' # q \/ pc'[t] = "idle" PROVE Apart(q, t)'
  BY <1>3 DEF Apart, Unfinished, Wants, Holds, Owes
<1> QED BY <1>1, <1>2, <1>3

LEMMA CompleteFrame ==
    ASSUME QueueInv, NEW t \in Thread, Complete(t), pc[t] # "idle",
           NEW s \in Sides, s = Side(t)
    PROVE  /\ my' \in [Thread -> Locals]
           /\ SameOthers(t) /\ pc'[t] \in {"idle", "mark"} /\ pc' \in [Thread -> Labels]
           /\ step' \in [Thread -> Nat] /\ script' \in Scripts
           /\ out' \in [Thread -> Value \cup {NoValue}]
           /\ Side(t)' = s \/ pc'[t] = "idle"
           /\ CallRight(t)' /\ LocalRight(t)'
           /\ Wants(s, t)' = IF op(t) = "removeAll" THEN my[t].again ELSE 0
<1>1. Types /\ CallRight(t) /\ my[t].again \in Nat
  BY ThreadTypes DEF QueueInv, ThreadsRight
<1>2. CASE op(t) = "removeAll" /\ my[t].again > 0
  <2>1. my' = [my EXCEPT ![t].num = my[t].again, ![t].again = 0] /\ Goto(t, "mark")
    BY <1>2 DEF Complete
  <2>2. /\ my' \in [Thread -> Locals] /\ my'[t].num = my[t].again
        /\ \A u \in Thread \ {t} : my'[u] = my[u]
    BY <1>1, <2>1, ZenonT(30) DEF Types, Locals
  <2>3. /\ SameOthers(t) /\ pc'[t] = "mark" /\ pc' \in [Thread -> Labels]
        /\ step' \in [Thread -> Nat] /\ script' \in Scripts
        /\ out' \in [Thread -> Value \cup {NoValue}]
        /\ op(t)' = op(t) /\ Side(t)' = s /\ step'[t] = step[t] /\ script' = script
    <3>1. "mark" \in Labels
      BY DEF Labels
    <3> QED BY <1>1, <2>1, <2>2, <3>1, GotoFrame
  <2>4. CallRight(t)' /\ LocalRight(t)'
    BY <1>1, <1>2, <2>2, <2>3 DEF CallRight, LocalRight
  <2>5. Wants(s, t)' = my[t].again
    BY <2>2, <2>3 DEF Wants
  <2> QED BY <1>2, <2>2, <2>3, <2>4, <2>5
<1>3. CASE ~(op(t) = "removeAll" /\ my[t].again > 0)
  <2>1. Return(t) /\ my' = my
    BY <1>3 DEF Complete
  <2>2. /\ my' \in [Thread -> Locals] /\ SameOthers(t) /\ pc'[t] = "idle"
        /\ pc' \in [Thread -> Labels]
        /\ step' \in [Thread -> Nat] /\ script' \in Scripts
        /\ out' \in [Thread -> Value \cup {NoValue}]
        /\ CallRight(t)' /\ LocalRight(t)'
    BY <1>1, <2>1, ReturnFrame DEF Types
  <2>3. Wants(s, t)' = 0
    BY <2>2 DEF Wants
  <2>4. op(t) = "removeAll" => my[t].again = 0
    BY <1>1, <1>3
  <2> QED BY <2>2, <2>3, <2>4
<1> QED BY <1>2, <1>3

\* Who went to swap a count is still there, and a count that becomes complete
\* has someone to swap it.
LEMMA SwapKept ==
    ASSUME QueueInv, NEW t \in Thread, SameOthers(t),
           \A q \in Sides :
              \/ ~(isQuiescentState(count[q])' /\ count'[q] # NoCount)
              \/ /\ count'[q] = count[q]
                 /\ ~(pc[t] = "swap" /\ Side(t) = q /\ my[t].seen = count[q])
              \/ pc'[t] = "swap" /\ Side(t)' = q /\ my'[t].seen = count'[q]
    PROVE  SwapRight'
<1> SUFFICES ASSUME NEW q \in Sides, isQuiescentState(count[q])' /\ count'[q] # NoCount
             PROVE  \E u \in Thread : pc'[u] = "swap" /\ Side(u)' = q /\ my'[u].seen = count'[q]
  BY DEF SwapRight, isQuiescentState
<1>1. CASE /\ count'[q] = count[q]
           /\ ~(pc[t] = "swap" /\ Side(t) = q /\ my[t].seen = count[q])
  <2>1. PICK u \in Thread : pc[u] = "swap" /\ Side(u) = q /\ my[u].seen = count[q]
    BY <1>1 DEF QueueInv, SwapRight, isQuiescentState
  <2>2. u # t
    BY <1>1, <2>1
  <2>3. pc'[u] = "swap" /\ Side(u)' = q /\ my'[u].seen = count'[q]
    BY <1>1, <2>1, <2>2, OtherThread DEF SameOthers
  <2> QED BY <2>3
<1>2. CASE pc'[t] = "swap" /\ Side(t)' = q /\ my'[t].seen = count'[q]
  BY <1>2
<1> QED BY <1>1, <1>2

\* A step that changes no share: of a call that has no place, or no longer.
LEMMA QuietStep ==
    ASSUME QueueInv, Types', WaiterTypes', NEW t \in Thread, SameOthers(t),
           UNCHANGED <<count, d_pushIndex, d_popIndex, d_element>>,
           \A q \in Sides : sem'[q].tokens = sem[q].tokens,
           pc[t] \in {"idle", "waiting", "refund", "count", "empty", "seen", "fence",
                      "broadcast", "drain", "state", "peek", "lock", "decided",
                      "asleep"},
           pc'[t] \in {"idle", "waiting", "refund", "mark", "count", "empty", "seen",
                       "fence", "broadcast", "drain", "state", "peek", "lock",
                       "decided", "asleep"},
           NEW s \in Sides, s = Side(t), Side(t)' = s \/ pc'[t] = "idle",
           CallRight(t)', LocalRight(t)',
           Wants(s, t)' = Wants(s, t)
    PROVE  QueueInv'
<1>1. Types
  BY DEF QueueInv
<1>2. /\ Other(s) \in Sides
      /\ Apart(Other(s), t) /\ Apart(Other(s), t)'
  BY <1>1, ApartBoth, SumTypes
<1>3. /\ Unfinished(s, t) = 0 /\ Holds(s, t) = 0 /\ Owes(s, t) = 0
      /\ Unfinished(s, t)' = 0 /\ Holds(s, t)' = 0 /\ Owes(s, t)' = 0
  BY DEF Unfinished, Holds, Owes
<1>4. SwapRight'
  BY SwapKept DEF isQuiescentState
<1>5. SameFlags
  BY DEF SameFlags
<1>6. t \notin Open /\ pc'[t] \notin {"flag", "construct", "look"}
  BY DEF Open
<1>7. \A q \in Sides : sem[q].tokens \in Nat /\ count[q].started \in Nat /\ count[q].finished \in Nat
  BY <1>1 DEF Types
<1>8. Moves(s, t)
  BY <1>2, <1>3, <1>7 DEF Moves
<1> QED BY <1>2, <1>4, <1>5, <1>6, <1>8, Balance

\* What a step that leaves the counts, indices and places alone may change.
QuietFrame(t) ==
    /\ UNCHANGED <<count, d_pushIndex, d_popIndex, d_element>>
    /\ sem' \in [Sides -> [tokens : Nat, gen : Nat]]
    /\ \A q \in Sides : sem'[q].tokens = sem[q].tokens

QuietLocals(t) ==
    /\ my' \in [Thread -> Locals]
    /\ my'[t].again = my[t].again
    /\ \A u \in Thread \ {t} : my'[u] = my[u]

LEMMA QuietGoto ==
    ASSUME QueueInv, WaiterTypes', NEW t \in Thread, QuietFrame(t), QuietLocals(t),
           pc[t] # "idle" \/ step[t] < Len(script[t]),
           pc[t] \in {"idle", "count", "empty", "seen", "fence", "broadcast", "drain",
                      "state", "peek", "lock", "decided", "asleep"},
           NEW p \in {"empty", "seen", "fence", "broadcast", "drain", "state", "peek",
                      "lock", "decided", "asleep"},
           Goto(t, p),
           op(t) = "removeAll" => (pc[t] \in RemoveAll <=> p \in RemoveAll)
    PROVE  QueueInv'
<1>0. PICK s \in Sides : s = Side(t)
  BY DEF Side, Sides
<1>1. Types /\ CallRight(t) /\ p \in Labels
  BY DEF QueueInv, ThreadsRight, Labels
<1>2. /\ SameOthers(t) /\ pc'[t] = p /\ pc' \in [Thread -> Labels]
      /\ step' \in [Thread -> Nat] /\ script' \in Scripts
      /\ out' \in [Thread -> Value \cup {NoValue}]
      /\ op(t)' = op(t) /\ Side(t)' = s
      /\ step'[t] = step[t] /\ script' = script
  BY <1>0, <1>1, GotoFrame DEF QuietLocals
<1>3. Types'
  BY <1>1, <1>2 DEF Types, QuietFrame, QuietLocals
<1>4. step[t] < Len(script[t])
  BY <1>1 DEF CallRight
<1>5. CallRight(t)' /\ LocalRight(t)'
  BY <1>2, <1>4 DEF CallRight, LocalRight
<1>6. Wants(s, t)' = Wants(s, t)
  BY <1>0, <1>2 DEF Wants, QuietLocals, RemoveAll
<1> QED BY <1>0, <1>2, <1>3, <1>5, <1>6, QuietStep DEF QuietFrame

LEMMA QuietReturn ==
    ASSUME QueueInv, WaiterTypes', NEW t \in Thread, QuietFrame(t), QuietLocals(t),
           pc[t] \in {"idle", "waiting", "refund", "drain", "state", "peek", "lock",
                      "asleep"},
           Return(t)
    PROVE  QueueInv'
<1>0. PICK s \in Sides : s = Side(t)
  BY DEF Side, Sides
<1>1. Types
  BY DEF QueueInv
<1>2. /\ SameOthers(t) /\ pc'[t] = "idle" /\ pc' \in [Thread -> Labels]
      /\ step' \in [Thread -> Nat] /\ script' \in Scripts
      /\ out' \in [Thread -> Value \cup {NoValue}]
      /\ CallRight(t)' /\ LocalRight(t)'
  BY <1>1, ReturnFrame DEF QuietLocals
<1>3. Types'
  BY <1>1, <1>2 DEF Types, QuietFrame, QuietLocals
<1>4. Wants(s, t)' = Wants(s, t)
  BY <1>0, <1>2 DEF Wants, RemoveAll
<1> QED BY <1>0, <1>2, <1>3, <1>4, QuietStep DEF QuietFrame

LEMMA QuietComplete ==
    ASSUME QueueInv, WaiterTypes', NEW t \in Thread, QuietFrame(t),
           pc[t] \in {"empty", "seen", "broadcast"},
           Complete(t)
    PROVE  QueueInv'
<1>0. PICK s \in Sides : s = Side(t)
  BY DEF Side, Sides
<1>1. Types
  BY DEF QueueInv
<1>2. /\ my' \in [Thread -> Locals]
      /\ SameOthers(t) /\ pc'[t] \in {"idle", "mark"} /\ pc' \in [Thread -> Labels]
      /\ step' \in [Thread -> Nat] /\ script' \in Scripts
      /\ out' \in [Thread -> Value \cup {NoValue}]
      /\ Side(t)' = s \/ pc'[t] = "idle"
      /\ CallRight(t)' /\ LocalRight(t)'
      /\ Wants(s, t)' = IF op(t) = "removeAll" THEN my[t].again ELSE 0
  BY <1>0, CompleteFrame
<1>3. Types'
  BY <1>1, <1>2 DEF Types, QuietFrame
<1>4. Wants(s, t)' = Wants(s, t)
  BY <1>0, <1>2 DEF Wants, RemoveAll
<1> QED BY <1>0, <1>2, <1>3, <1>4, QuietStep DEF QuietFrame

LEMMA QuietUnchanged ==
    ASSUME QueueInv, NEW t \in Thread, UNCHANGED queue
    PROVE  QuietFrame(t)
BY DEF QuietFrame, QueueInv, Types, queue

LEMMA WaitersSame ==
    ASSUME QueueInv, UNCHANGED waiters
    PROVE  WaiterTypes'
BY DEF QueueInv, WaiterTypes, waiters

LEMMA LocalsSame ==
    ASSUME QueueInv, UNCHANGED my, NEW t \in Thread
    PROVE  QuietLocals(t)
BY DEF QuietLocals, QueueInv, Types

-----------------------------------------------------------------------------
(* The operations that change no count and no place *)

LEMMA RefundKeeps ==
    ASSUME QueueInv, NEW t \in Thread, refund(t)
    PROVE  QueueInv'
<1>1. /\ pc[t] \in {"waiting", "refund"} /\ Return(t)
      /\ UNCHANGED <<queue, waiters, my>>
  BY DEF refund, OnlySem, queue
<1> QED BY <1>1, QuietReturn, QuietUnchanged, WaitersSame, LocalsSame

LEMMA ReadWaiterCountKeeps ==
    ASSUME QueueInv, NEW t \in Thread, readWaiterCount(t)
    PROVE  QueueInv'
<1>1. /\ pc[t] = "count" /\ Goto(t, "empty") /\ UNCHANGED <<queue, waiters>>
      /\ my' = [my EXCEPT ![t].empty = d_emptyWaiterCount]
  BY DEF readWaiterCount
<1>2. QuietLocals(t)
  BY <1>1, ZenonT(30) DEF QueueInv, Types, WaiterTypes, Locals, QuietLocals
<1> QED BY <1>1, <1>2, QuietGoto, QuietUnchanged, WaitersSame DEF RemoveAll

LEMMA CheckEmptyKeeps ==
    ASSUME QueueInv, NEW t \in Thread, checkEmpty(t)
    PROVE  QueueInv'
<1>1. pc[t] = "empty" /\ UNCHANGED <<queue, waiters>>
  BY DEF checkEmpty
<1>2. CASE Goto(t, "seen") /\ UNCHANGED my
  BY <1>1, <1>2, QuietGoto, QuietUnchanged, WaitersSame, LocalsSame DEF RemoveAll
<1>3. CASE Complete(t)
  BY <1>1, <1>3, QuietComplete, QuietUnchanged, WaitersSame
<1> QED BY <1>2, <1>3 DEF checkEmpty

LEMMA UpdateSeenKeeps ==
    ASSUME QueueInv, NEW t \in Thread, updateEmptyCountSeen(t)
    PROVE  QueueInv'
<1>1. /\ pc[t] = "seen"
      /\ UNCHANGED <<queue, d_emptyWaiterCount, d_emptyMutex, notified>>
  BY DEF updateEmptyCountSeen
<1>2. CASE d_emptyCountSeen' = my[t].empty /\ Goto(t, "fence") /\ UNCHANGED my
  <2>1. my[t].empty \in 0 .. Circle - 1
    BY DEF QueueInv, Types, Locals
  <2>2. WaiterTypes'
    BY <1>1, <1>2, <2>1 DEF QueueInv, WaiterTypes
  <2> QED BY <1>1, <1>2, <2>2, QuietGoto, QuietUnchanged, LocalsSame DEF RemoveAll
<1>3. CASE Complete(t) /\ UNCHANGED d_emptyCountSeen
  <2>1. UNCHANGED waiters
    BY <1>1, <1>3 DEF waiters
  <2> QED BY <1>1, <1>3, <2>1, QuietComplete, QuietUnchanged, WaitersSame
<1> QED BY <1>2, <1>3 DEF updateEmptyCountSeen

LEMMA FenceKeeps ==
    ASSUME QueueInv, NEW t \in Thread, fence(t)
    PROVE  QueueInv'
<1>1. pc[t] = "fence" /\ Goto(t, "broadcast") /\ UNCHANGED <<queue, waiters, my>>
  BY DEF fence
<1> QED BY <1>1, QuietGoto, QuietUnchanged, WaitersSame, LocalsSame DEF RemoveAll

LEMMA BroadcastKeeps ==
    ASSUME QueueInv, NEW t \in Thread, broadcast(t)
    PROVE  QueueInv'
<1>1. /\ pc[t] = "broadcast" /\ Complete(t) /\ UNCHANGED queue
      /\ notified' = notified \cup {u \in Thread : pc[u] = "asleep"}
      /\ UNCHANGED <<d_emptyWaiterCount, d_emptyCountSeen, d_emptyMutex>>
  BY DEF broadcast
<1>2. WaiterTypes'
  BY <1>1 DEF QueueInv, WaiterTypes
<1> QED BY <1>1, <1>2, QuietComplete, QuietUnchanged

LEMMA WaitUntilEmptyKeeps ==
    ASSUME QueueInv, NEW t \in Thread, waitUntilEmpty(t)
    PROVE  QueueInv'
<1>1. /\ pc[t] = "idle" /\ step[t] < Len(script[t]) /\ op(t) = "waitUntilEmpty"
      /\ Goto(t, "state") /\ UNCHANGED queue
      /\ my' = [my EXCEPT ![t].empty = d_emptyWaiterCount]
      /\ d_emptyWaiterCount' = (d_emptyWaiterCount + 1) % Circle
      /\ UNCHANGED <<d_emptyCountSeen, d_emptyMutex, notified>>
  BY DEF waitUntilEmpty, Calling
<1>2. QuietLocals(t)
  BY <1>1, ZenonT(30) DEF QueueInv, Types, WaiterTypes, Locals, QuietLocals
<1>3. WaiterTypes'
  <2>1. Circle \in Nat /\ Circle > 0 /\ d_emptyWaiterCount \in Nat
    BY Constants DEF QueueInv, WaiterTypes
  <2>2. (d_emptyWaiterCount + 1) % Circle \in 0 .. Circle - 1
    BY <2>1
  <2> QED BY <1>1, <2>2 DEF QueueInv, WaiterTypes
<1> QED BY <1>1, <1>2, <1>3, QuietGoto, QuietUnchanged

LEMMA ReadDisabledStateKeeps ==
    ASSUME QueueInv, NEW t \in Thread, readDisabledState(t)
    PROVE  QueueInv'
<1>1. /\ pc[t] = "state" /\ UNCHANGED <<queue, waiters>>
      /\ my' = [my EXCEPT ![t].gen = sem["pop"].gen]
  BY DEF readDisabledState
<1>2. QuietLocals(t)
  <2>1. sem["pop"].gen \in Nat
    BY DEF QueueInv, Types, Sides
  <2> QED BY <1>1, <2>1, ZenonT(30) DEF QueueInv, Types, Locals, QuietLocals
<1>3. CASE Return(t)
  BY <1>1, <1>2, <1>3, QuietReturn, QuietUnchanged, WaitersSame
<1>4. CASE Goto(t, "peek")
  BY <1>1, <1>2, <1>4, QuietGoto, QuietUnchanged, WaitersSame DEF RemoveAll
<1> QED BY <1>3, <1>4 DEF readDisabledState

LEMMA PeekKeeps ==
    ASSUME QueueInv, NEW t \in Thread, peek(t)
    PROVE  QueueInv'
<1>1. pc[t] = "peek" /\ UNCHANGED <<queue, waiters, my>>
  BY DEF peek
<1>2. CASE Return(t)
  BY <1>1, <1>2, QuietReturn, QuietUnchanged, WaitersSame, LocalsSame
<1>3. CASE Goto(t, "lock")
  BY <1>1, <1>3, QuietGoto, QuietUnchanged, WaitersSame, LocalsSame DEF RemoveAll
<1> QED BY <1>2, <1>3 DEF peek

LEMMA DecideKeeps ==
    ASSUME QueueInv, NEW t \in Thread, decide(t)
    PROVE  QueueInv'
<1>1. /\ pc[t] \in {"lock", "asleep"} /\ UNCHANGED queue /\ UNCHANGED my
      /\ notified' = notified \ {t}
      /\ UNCHANGED <<d_emptyWaiterCount, d_emptyCountSeen>>
  BY DEF decide
<1>2. d_emptyMutex' = d_emptyMutex \/ d_emptyMutex' = t
  BY DEF decide
<1>3. WaiterTypes'
  BY <1>1, <1>2 DEF QueueInv, WaiterTypes
<1>4. CASE Return(t)
  BY <1>1, <1>3, <1>4, QuietReturn, QuietUnchanged, LocalsSame
<1>5. CASE Goto(t, "decided")
  BY <1>1, <1>3, <1>5, QuietGoto, QuietUnchanged, LocalsSame DEF RemoveAll
<1> QED BY <1>4, <1>5 DEF decide

LEMMA SleepKeeps ==
    ASSUME QueueInv, NEW t \in Thread, sleep(t)
    PROVE  QueueInv'
<1>1. /\ pc[t] = "decided" /\ Goto(t, "asleep") /\ d_emptyMutex' = None
      /\ UNCHANGED <<queue, d_emptyWaiterCount, d_emptyCountSeen, notified, my>>
  BY DEF sleep
<1>2. WaiterTypes'
  BY <1>1 DEF QueueInv, WaiterTypes
<1> QED BY <1>1, <1>2, QuietGoto, QuietUnchanged, LocalsSame DEF RemoveAll

\* The generation of a semaphore is no part of the accounts.
LEMMA NewGeneration ==
    ASSUME QueueInv, NEW t \in Thread,
           UNCHANGED <<count, d_pushIndex, d_popIndex, d_element>>,
           sem' = sem \/ sem' = [sem EXCEPT ![Side(t)].gen = @ + 1]
    PROVE  QuietFrame(t)
<1>1. sem \in [Sides -> [tokens : Nat, gen : Nat]] /\ Side(t) \in Sides
  BY ThreadTypes DEF QueueInv, Types
<1>2. CASE sem' = sem
  BY <1>1, <1>2 DEF QuietFrame
<1>3. CASE sem' = [sem EXCEPT ![Side(t)].gen = @ + 1]
  <2>1. PICK s \in Sides : s = Side(t)
    BY <1>1
  <2>2. sem' = [sem EXCEPT ![s] = [sem[s] EXCEPT !.gen = @ + 1]]
    BY <1>3, <2>1
  <2>3. sem[s] \in [tokens : Nat, gen : Nat]
    BY <1>1
  <2>4. /\ [sem[s] EXCEPT !.gen = @ + 1] \in [tokens : Nat, gen : Nat]
        /\ [sem[s] EXCEPT !.gen = @ + 1].tokens = sem[s].tokens
    BY <2>3
  <2> HIDE DEF QuietFrame
  <2>5. sem' \in [Sides -> [tokens : Nat, gen : Nat]]
    BY <1>1, <2>2, <2>4
  <2>6. \A q \in Sides : sem'[q].tokens = sem[q].tokens
    BY <1>1, <2>2, <2>4
  <2> QED BY <2>5, <2>6 DEF QuietFrame
<1> QED BY <1>2, <1>3

LEMMA DisableKeeps ==
    ASSUME QueueInv, NEW t \in Thread, disable(t)
    PROVE  QueueInv'
<1>1. /\ pc[t] = "idle" /\ step[t] < Len(script[t])
      /\ op(t) \in {"disablePopFront", "disablePushBack"}
      /\ Goto(t, "drain") /\ UNCHANGED <<waiters, my>>
      /\ UNCHANGED <<count, d_pushIndex, d_popIndex, d_element>>
  BY DEF disable, Calling, OnlySem
<1>2. sem' = sem \/ sem' = [sem EXCEPT ![Side(t)].gen = @ + 1]
  BY DEF disable
<1>3. QuietFrame(t)
  BY <1>1, <1>2, NewGeneration
<1>4. WaiterTypes'
  BY <1>1, WaitersSame
<1>5. QuietLocals(t)
  BY <1>1, LocalsSame
<1> QED BY <1>1, <1>3, <1>4, <1>5, QuietGoto DEF RemoveAll

LEMMA DrainKeeps ==
    ASSUME QueueInv, NEW t \in Thread, drain(t)
    PROVE  QueueInv'
<1>1. pc[t] = "drain" /\ UNCHANGED <<queue, waiters, my>>
  BY DEF drain, OnlySem, queue
<1>2. CASE op(t) = "disablePopFront" /\ Goto(t, "fence")
  BY <1>1, <1>2, QuietGoto, QuietUnchanged, WaitersSame, LocalsSame
<1>3. CASE Return(t)
  BY <1>1, <1>3, QuietReturn, QuietUnchanged, WaitersSame, LocalsSame
<1> QED BY <1>2, <1>3 DEF drain

LEMMA EnableKeeps ==
    ASSUME QueueInv, NEW t \in Thread, enable(t)
    PROVE  QueueInv'
<1>1. /\ pc[t] = "idle" /\ Return(t) /\ UNCHANGED <<waiters, my>>
      /\ UNCHANGED <<count, d_pushIndex, d_popIndex, d_element>>
  BY DEF enable, Calling, OnlySem
<1>2. sem' = sem \/ sem' = [sem EXCEPT ![Side(t)].gen = @ + 1]
  BY DEF enable
<1>3. QuietFrame(t)
  BY <1>1, <1>2, NewGeneration
<1>4. WaiterTypes'
  BY <1>1, WaitersSame
<1>5. QuietLocals(t)
  BY <1>1, LocalsSame
<1> QED BY <1>1, <1>3, <1>4, <1>5, QuietReturn

-----------------------------------------------------------------------------
(* The operations that take from a semaphore, count, and give *)

LEMMA ValueBelow ==
    ASSUME Types, NEW s \in Sides
    PROVE  getValueRaw(s) \in Int /\ getValueRaw(s) <= sem[s].tokens
<1> DEFINE W == {u \in Thread : pc[u] \in {"waiting", "refund"} /\ Side(u) = s}
<1>1. IsFiniteSet(W)
  BY Constants, FS_Subset
<1>2. Cardinality(W) \in Nat
  BY <1>1, FS_CardinalityType
<1>3. getValueRaw(s) = sem[s].tokens - Cardinality(W)
  BY DEF getValueRaw
<1>4. sem[s].tokens \in Nat
  BY DEF Types
<1> QED BY <1>2, <1>3, <1>4

LEMMA GiveTypes ==
    ASSUME Types, NEW s \in Sides, NEW n \in Int, sem[s].tokens + n >= 0, Give(s, n)
    PROVE  /\ sem' \in [Sides -> [tokens : Nat, gen : Nat]]
           /\ sem'[s].tokens = sem[s].tokens + n
           /\ \A q \in Sides \ {s} : sem'[q] = sem[q]
<1>1. sem[s] \in [tokens : Nat, gen : Nat] /\ sem \in [Sides -> [tokens : Nat, gen : Nat]]
  BY DEF Types
<1>2. sem[s].tokens \in Nat /\ sem[s].tokens + n \in Nat
  BY <1>1
<1>3. PICK new : new = [sem[s] EXCEPT !.tokens = @ + n]
  OBVIOUS
<1>4. new \in [tokens : Nat, gen : Nat] /\ new.tokens = sem[s].tokens + n
  BY <1>1, <1>2, <1>3
<1>5. sem' = [sem EXCEPT ![s] = new]
  BY <1>3 DEF Give
<1> QED BY <1>1, <1>4, <1>5

LEMMA CountTypes ==
    ASSUME Types, NEW s \in Sides, NEW c \in [started : Nat, finished : Nat],
           count' = [count EXCEPT ![s] = c]
    PROVE  /\ count' \in [Sides -> [started : Nat, finished : Nat]]
           /\ count'[s] = c
           /\ \A q \in Sides \ {s} : count'[q] = count[q]
BY DEF Types

LEMMA TakenTypes ==
    ASSUME Types, NEW t \in Thread, NEW n \in Nat,
           my' = [my EXCEPT ![t].num = n, ![t].again = 0]
    PROVE  /\ my' \in [Thread -> Locals] /\ my'[t].num = n /\ my'[t].again = 0
           /\ \A u \in Thread \ {t} : my'[u] = my[u]
BY ZenonT(30) DEF Types, Locals

\* Taking n from the semaphore of its side, a thread gets as many rights.
LEMMA TakeKeeps ==
    ASSUME QueueInv, NEW t \in Thread, NEW n \in Nat, n # 0,
           sem[Side(t)].tokens >= n,
           pc[t] \in {"idle", "waiting"},
           op(t) \in Pushes \cup Pops \cup {"removeAll"},
           op(t) # "removeAll" => n = 1,
           step[t] < Len(script[t]),
           Give(Side(t), -n), OnlySem, Goto(t, "mark"),
           my' = [my EXCEPT ![t].num = n, ![t].again = 0]
    PROVE  QueueInv'
<1>0. PICK s \in Sides : s = Side(t)
  BY DEF Side, Sides
<1>1. Types
  BY DEF QueueInv
<1> DEFINE o == Other(s)
<1>2. o \in Sides /\ o # s
  BY <1>0, <1>1, SumTypes
<1>3. /\ sem' \in [Sides -> [tokens : Nat, gen : Nat]]
      /\ sem'[s].tokens = sem[s].tokens + (-n)
      /\ \A q \in Sides \ {s} : sem'[q] = sem[q]
      /\ sem[s].tokens \in Nat
  <2>1. sem[s].tokens \in Nat /\ -n \in Int
    BY <1>0, <1>1 DEF Types
  <2>2. sem[s].tokens + (-n) >= 0
    BY <1>0, <2>1
  <2> QED BY <1>0, <1>1, <2>1, <2>2, GiveTypes
<1>4. /\ my' \in [Thread -> Locals] /\ my'[t].num = n /\ my'[t].again = 0
      /\ \A u \in Thread \ {t} : my'[u] = my[u]
  BY <1>0, <1>1, TakenTypes
<1>5. /\ SameOthers(t) /\ pc'[t] = "mark" /\ pc' \in [Thread -> Labels]
      /\ step' \in [Thread -> Nat] /\ script' \in Scripts
      /\ out' \in [Thread -> Value \cup {NoValue}]
      /\ op(t)' = op(t) /\ Side(t)' = s
      /\ step'[t] = step[t] /\ script' = script
  <2>1. "mark" \in Labels
    BY DEF Labels
  <2> QED BY <1>0, <1>1, <1>4, <2>1, GotoFrame
<1>6. UNCHANGED <<count, d_pushIndex, d_popIndex, d_element>> /\ WaiterTypes'
  BY WaitersSame DEF OnlySem
<1>7. Types'
  BY <1>0, <1>1, <1>3, <1>4, <1>5, <1>6 DEF Types
<1>8. CallRight(t)' /\ LocalRight(t)'
  BY <1>0, <1>4, <1>5 DEF CallRight, LocalRight
<1>9. SwapRight'
  BY <1>0, <1>5, <1>6, SwapKept DEF isQuiescentState
<1>10. /\ Wants(s, t) = 0 /\ Wants(s, t)' = n
       /\ Unfinished(s, t) = 0 /\ Holds(s, t) = 0 /\ Owes(s, t) = 0
       /\ Unfinished(s, t)' = 0 /\ Holds(s, t)' = 0 /\ Owes(s, t)' = 0
  BY <1>0, <1>4, <1>5 DEF Wants, Unfinished, Holds, Owes, RemoveAll
<1>11. Apart(o, t) /\ Apart(o, t)'
  BY <1>0, <1>1, <1>5, ApartBoth
<1>12. /\ sem[o].tokens \in Nat /\ sem'[o].tokens = sem[o].tokens
       /\ count[s].started \in Nat /\ count[s].finished \in Nat
       /\ count' = count
  BY <1>0, <1>1, <1>2, <1>3, <1>6 DEF Types
<1>13. Moves(s, t)
  <2>1. sem'[s].tokens + Wants(s, t)' = sem[s].tokens + Wants(s, t)
    BY <1>0, <1>3, <1>10
  <2> QED BY <1>0, <1>10, <1>11, <1>12, <2>1 DEF Moves
<1>14. SameFlags
  BY <1>0, <1>6 DEF SameFlags
<1>15. t \notin Open /\ pc'[t] \notin {"flag", "construct", "look"}
  BY <1>0, <1>5 DEF Open
<1> QED BY <1>0, <1>1, <1>5, <1>6, <1>7, <1>8, <1>9, <1>13, <1>14, <1>15, Balance

LEMMA TakeOne ==
    ASSUME QueueInv, NEW t \in Thread, sem[Side(t)].tokens >= 1,
           pc[t] \in {"idle", "waiting"}, op(t) \in Pushes \cup Pops,
           step[t] < Len(script[t]), Give(Side(t), -1), OnlySem, Goto(t, "mark"),
           my' = [my EXCEPT ![t].num = 1, ![t].again = 0]
    PROVE  QueueInv'
<1>1. PICK n \in Nat : n = 1
  OBVIOUS
<1>2. -1 = -n
  BY <1>1
<1>3. Give(Side(t), -n) /\ my' = [my EXCEPT ![t].num = n, ![t].again = 0]
  BY <1>1, <1>2
<1>4. n # 0 /\ sem[Side(t)].tokens >= n
  BY <1>1
<1>5. op(t) \in Pushes \cup Pops \cup {"removeAll"} /\ (op(t) # "removeAll" => n = 1)
  BY <1>1
<1> QED BY <1>3, <1>4, <1>5, TakeKeeps

LEMMA WaitKeeps ==
    ASSUME QueueInv, NEW t \in Thread, wait(t)
    PROVE  QueueInv'
<1>1. /\ pc[t] = "idle" /\ step[t] < Len(script[t]) /\ op(t) \in Pushes \cup Pops
      /\ OnlySem /\ Types /\ Side(t) \in Sides
  BY ThreadTypes DEF wait, Calling, QueueInv
<1>2. op(t) # "removeAll"
  BY <1>1 DEF Pushes, Pops
<1>3. CASE /\ getValueRaw(Side(t)) >= 1
           /\ Give(Side(t), -1)
           /\ my' = [my EXCEPT ![t].num = 1, ![t].again = 0]
           /\ Goto(t, "mark")
  <2>1. sem[Side(t)].tokens >= 1
    <3>1. /\ getValueRaw(Side(t)) \in Int /\ getValueRaw(Side(t)) <= sem[Side(t)].tokens
          /\ sem[Side(t)].tokens \in Nat
      BY <1>1, ValueBelow DEF Types
    <3> QED BY <1>3, <3>1
  <2> QED BY <1>1, <1>2, <1>3, <2>1, TakeOne
<1>4. CASE /\ my' = [my EXCEPT ![t].gen = sem[Side(t)].gen]
           /\ Goto(t, "refund") \/ Goto(t, "waiting")
           /\ UNCHANGED sem
  <2>0. PICK s \in Sides : s = Side(t)
    BY DEF Side, Sides
  <2>1. PICK p \in {"refund", "waiting"} : Goto(t, p)
    BY <1>4
  <2>2. /\ my' \in [Thread -> Locals] /\ \A u \in Thread \ {t} : my'[u] = my[u]
    <3>1. sem[Side(t)].gen \in Nat
      BY <1>1 DEF Types
    <3> QED BY <1>1, <1>4, <3>1, ZenonT(30) DEF Types, Locals
  <2>3. /\ SameOthers(t) /\ pc'[t] = p /\ pc' \in [Thread -> Labels]
        /\ step' \in [Thread -> Nat] /\ script' \in Scripts
        /\ out' \in [Thread -> Value \cup {NoValue}]
        /\ op(t)' = op(t) /\ Side(t)' = s
        /\ step'[t] = step[t] /\ script' = script
    <3>1. p \in Labels
      BY <2>1 DEF Labels
    <3> QED BY <1>1, <2>0, <2>1, <2>2, <3>1, GotoFrame
  <2>4. UNCHANGED <<sem, count, d_pushIndex, d_popIndex, d_element>> /\ WaiterTypes'
    BY <1>1, <1>4, WaitersSame DEF OnlySem
  <2>5. Types'
    BY <1>1, <2>2, <2>3, <2>4 DEF Types
  <2>6. CallRight(t)' /\ LocalRight(t)'
    BY <1>1, <2>1, <2>3 DEF CallRight, LocalRight
  <2>7. Wants(s, t)' = Wants(s, t)
    BY <1>1, <1>2, <2>0, <2>1, <2>3 DEF Wants
  <2> QED BY <1>1, <2>0, <2>1, <2>3, <2>4, <2>5, <2>6, <2>7, QuietStep
<1> QED BY <1>3, <1>4 DEF wait

LEMMA GrantKeeps ==
    ASSUME QueueInv, NEW t \in Thread, grant(t)
    PROVE  QueueInv'
<1>1. /\ pc[t] = "waiting" /\ sem[Side(t)].tokens >= 1 /\ Give(Side(t), -1)
      /\ my' = [my EXCEPT ![t].num = 1, ![t].again = 0]
      /\ Goto(t, "mark") /\ OnlySem
  BY DEF grant
<1>2. step[t] < Len(script[t]) /\ op(t) \in Pushes \cup Pops
  BY <1>1 DEF QueueInv, ThreadsRight, CallRight
<1> QED BY <1>1, <1>2, TakeOne

LEMMA RemoveAllKeeps ==
    ASSUME QueueInv, NEW t \in Thread, removeAll(t)
    PROVE  QueueInv'
<1>1. /\ pc[t] = "idle" /\ step[t] < Len(script[t]) /\ op(t) = "removeAll" /\ OnlySem
  BY DEF removeAll, Calling
<1>2. Types /\ Side(t) = "pop" /\ Side(t) \in Sides
  BY <1>1 DEF QueueInv, Side, Pushes, Sides
<1>3. CASE Return(t) /\ UNCHANGED <<sem, my>>
  <2>1. UNCHANGED <<queue, waiters, my>>
    BY <1>1, <1>3 DEF OnlySem, queue
  <2> QED BY <1>1, <1>3, <2>1, QuietReturn, QuietUnchanged, WaitersSame, LocalsSame
<1>4. CASE /\ getValueRaw("pop") > 0
           /\ Give("pop", -getValueRaw("pop"))
           /\ my' = [my EXCEPT ![t].num = getValueRaw("pop"), ![t].again = 0]
           /\ Goto(t, "mark")
  <2>1. PICK n : n = getValueRaw("pop")
    OBVIOUS
  <2>2. n \in Int /\ n <= sem["pop"].tokens /\ sem["pop"].tokens \in Nat
    BY <1>2, <2>1, ValueBelow DEF Types
  <2>3. n \in Nat /\ n # 0 /\ sem[Side(t)].tokens >= n
    BY <1>2, <1>4, <2>1, <2>2
  <2> QED BY <1>1, <1>2, <1>4, <2>1, <2>3, TakeKeeps
<1> QED BY <1>3, <1>4 DEF removeAll

LEMMA MarkStartedKeeps ==
    ASSUME QueueInv, NEW t \in Thread, markStartedOperation(t)
    PROVE  QueueInv'
<1>0. PICK s \in Sides : s = Side(t)
  BY DEF Side, Sides
<1>1. /\ pc[t] = "mark" /\ Goto(t, "index") /\ my' = my
      /\ count' = [count EXCEPT ![s].started = @ + my[t].num]
      /\ UNCHANGED <<sem, d_pushIndex, d_popIndex, d_element, waiters>>
  BY <1>0 DEF markStartedOperation, OnlyCount
<1>2. Types /\ my[t].num \in Nat /\ my[t].num # 0
      /\ CallRight(t) /\ LocalRight(t)
  BY <1>0, <1>1, ThreadTypes DEF QueueInv, ThreadsRight, LocalRight
<1> DEFINE o == Other(s)
           c == [count[s] EXCEPT !.started = @ + my[t].num]
<1>3. /\ c \in [started : Nat, finished : Nat] /\ c.finished = count[s].finished
      /\ c.started = count[s].started + my[t].num
      /\ count[s].started \in Nat /\ count[s].finished \in Nat
  <2>1. /\ count[s] \in [started : Nat, finished : Nat]
        /\ count[s].started \in Nat /\ count[s].finished \in Nat
    BY <1>2 DEF Types
  <2>2. c \in [started : Nat, finished : Nat]
    BY <1>2, <2>1
  <2> QED BY <1>2, <2>1, <2>2
<1>4. /\ count' \in [Sides -> [started : Nat, finished : Nat]]
      /\ count'[s] = c /\ \A q \in Sides \ {s} : count'[q] = count[q]
  BY <1>0, <1>1, <1>2, <1>3, CountTypes
<1> HIDE DEF c
<1>5. /\ SameOthers(t) /\ pc'[t] = "index" /\ pc' \in [Thread -> Labels]
      /\ step' \in [Thread -> Nat] /\ script' \in Scripts
      /\ out' \in [Thread -> Value \cup {NoValue}]
      /\ op(t)' = op(t) /\ Side(t)' = s
      /\ step'[t] = step[t] /\ script' = script
  <2>1. "index" \in Labels
    BY DEF Labels
  <2> QED BY <1>0, <1>1, <1>2, <2>1, GotoFrame
<1>6. Types' /\ WaiterTypes'
  BY <1>0, <1>1, <1>2, <1>4, <1>5, WaitersSame DEF Types
<1>7. CallRight(t)' /\ LocalRight(t)'
  BY <1>0, <1>1, <1>2, <1>5 DEF CallRight, LocalRight
<1>8. ~isQuiescentState(c)
  <2>1. /\ count[s].started = count[s].finished + AllUnfinished(s)
        /\ AllUnfinished(s) \in Nat
    BY <1>0, <1>2, SumTypes DEF QueueInv, Counted
  <2> QED BY <1>0, <1>2, <1>3, <2>1 DEF isQuiescentState
<1>9. SwapRight'
  <2>1. \A q \in Sides : \/ ~isQuiescentState(count[q])'
                         \/ count'[q] = count[q]
    BY <1>0, <1>4, <1>8 DEF isQuiescentState
  <2> QED BY <1>0, <1>1, <1>5, <2>1, SwapKept
<1>10. /\ Wants(s, t) = my[t].num /\ Wants(s, t)' = my[t].num
       /\ Unfinished(s, t) = 0 /\ Unfinished(s, t)' = my[t].num
       /\ Holds(s, t) = 0 /\ Owes(s, t) = 0
       /\ Holds(s, t)' = 0 /\ Owes(s, t)' = 0
  BY <1>0, <1>1, <1>5 DEF Wants, Unfinished, Holds, Owes
<1>11. Apart(o, t) /\ Apart(o, t)' /\ o \in Sides /\ o # s
  BY <1>0, <1>2, <1>5, ApartBoth, SumTypes
<1>12. Moves(s, t)
  <2>1. count'[o] = count[o] /\ sem' = sem
    BY <1>0, <1>1, <1>4, <1>11
  <2>2. count'[s].finished = count[s].finished
    BY <1>0, <1>3, <1>4
  <2>3. count'[s].started + count[s].finished + 0
          = count[s].started + count'[s].finished + my[t].num
    BY <1>0, <1>2, <1>3, <1>4
  <2> QED BY <1>0, <1>10, <1>11, <2>1, <2>2, <2>3 DEF Moves
<1>13. SameFlags
  BY <1>0, <1>1 DEF SameFlags
<1>14. t \notin Open /\ pc'[t] \notin {"flag", "construct", "look"}
  BY <1>0, <1>1, <1>5 DEF Open
<1> QED BY <1>0, <1>1, <1>2, <1>5, <1>6, <1>7, <1>9, <1>12, <1>13, <1>14, Balance

\* Who has an operation that is not finished finds its count not complete.
LEMMA NotComplete ==
    ASSUME QueueInv, NEW t \in Thread, NEW s \in Sides, Unfinished(s, t) # 0
    PROVE  count[s].started >= count[s].finished + Unfinished(s, t)
<1>1. /\ count[s].started = count[s].finished + AllUnfinished(s)
      /\ count[s].finished \in Nat /\ AllUnfinished(s) \in Nat
      /\ Unfinished(s, t) \in Nat /\ Unfinished(s, t) <= AllUnfinished(s)
  BY SumTypes, ShareTypes DEF QueueInv, Counted
<1> QED BY <1>1

LEMMA PushExceptionKeeps ==
    ASSUME QueueInv, NEW t \in Thread, pushExceptionComplete(t)
    PROVE  QueueInv'
<1> DEFINE c == [count["push"] EXCEPT !.started = @ - 1]
<1>1. /\ pc[t] = "fail" /\ count' = [count EXCEPT !["push"] = c]
      /\ my' = [my EXCEPT ![t].seen = c]
      /\ IF c.started # 0 /\ isQuiescentState(c) THEN Goto(t, "swap") ELSE Return(t)
      /\ UNCHANGED <<sem, d_pushIndex, d_popIndex, d_element, waiters>>
  BY DEF pushExceptionComplete, OnlyCount
<1>2. /\ Types /\ CallRight(t) /\ LocalRight(t) /\ op(t) \in Pushes
      /\ Side(t) = "push" /\ "push" \in Sides /\ my[t].num = 1
      /\ Other("push") = "pop" /\ "pop" \in Sides
  <2>1. CallRight(t) /\ LocalRight(t) /\ op(t) \in Pushes
    BY <1>1 DEF QueueInv, ThreadsRight, CallRight
  <2>2. my[t].num = 1
    BY <1>1, <2>1 DEF LocalRight, Pushes
  <2> QED BY <2>1, <2>2 DEF QueueInv, Side, Sides, Other
<1>3. Unfinished("push", t) = 1 /\ Holds("push", t) = 0 /\ Owes("push", t) = 0
      /\ Wants("push", t) = 0
  BY <1>1, <1>2 DEF Unfinished, Holds, Owes, Wants, RemoveAll
<1>4. /\ count["push"].started \in Nat /\ count["push"].finished \in Nat
      /\ count["push"].started >= 1
  <2>1. count["push"].started \in Nat /\ count["push"].finished \in Nat
    BY <1>2 DEF Types
  <2>2. count["push"].started >= count["push"].finished + 1
    BY <1>2, <1>3, NotComplete
  <2> QED BY <2>1, <2>2
<1>5. /\ c \in [started : Nat, finished : Nat]
      /\ c.finished = count["push"].finished /\ c.started = count["push"].started - 1
      /\ c.started = 0 /\ isQuiescentState(c) => c = NoCount
  BY <1>2, <1>4 DEF Types, isQuiescentState, NoCount
<1>6. /\ count' \in [Sides -> [started : Nat, finished : Nat]]
      /\ count'["push"] = c /\ \A q \in Sides \ {"push"} : count'[q] = count[q]
  BY <1>1, <1>2, <1>5, CountTypes
<1> HIDE DEF c
<1>7. /\ my' \in [Thread -> Locals] /\ my'[t].seen = c
      /\ my'[t].num = my[t].num /\ my'[t].index = my[t].index
      /\ \A u \in Thread \ {t} : my'[u] = my[u]
  BY <1>1, <1>2, <1>5, ZenonT(30) DEF Types, Locals
<1>8. WaiterTypes'
  BY <1>1, WaitersSame
<1>9. SameFlags
  BY <1>1 DEF SameFlags
<1>10. Node(my[t].index).unconstructed \/ t \notin Open
  BY <1>1 DEF Open
<1>11. /\ count'["push"].started + count["push"].finished + 1
            = count["push"].started + count'["push"].finished + 0
       /\ count'["push"].finished = count["push"].finished
  BY <1>4, <1>5, <1>6
<1>12. CASE c.started # 0 /\ isQuiescentState(c)
  <2>1. Goto(t, "swap") /\ "swap" \in Labels
    BY <1>1, <1>12 DEF Labels
  <2>2. /\ SameOthers(t) /\ pc'[t] = "swap" /\ pc' \in [Thread -> Labels]
        /\ step' \in [Thread -> Nat] /\ script' \in Scripts
        /\ out' \in [Thread -> Value \cup {NoValue}]
        /\ op(t)' = op(t) /\ Side(t)' = Side(t)
        /\ step'[t] = step[t] /\ script' = script
    BY <1>2, <1>7, <2>1, GotoFrame
  <2>3. Types'
    BY <1>1, <1>2, <1>6, <1>7, <2>2 DEF Types
  <2>4. CallRight(t)' /\ LocalRight(t)'
    BY <1>1, <1>2, <1>7, <1>12, <2>2 DEF CallRight, LocalRight, isQuiescentState
  <2>5. SwapRight'
    <3>1. \A q \in Sides : q # "push" => count'[q] = count[q]
      BY <1>6
    <3>2. pc'[t] = "swap" /\ Side(t)' = "push" /\ my'[t].seen = count'["push"]
      BY <1>2, <1>6, <1>7, <2>2
    <3> QED BY <1>1, <2>2, <3>1, <3>2, SwapKept
  <2>6. /\ Unfinished("push", t)' = 0 /\ Holds("push", t)' = 0 /\ Owes("push", t)' = 0
        /\ Wants("push", t)' = 0
    BY <1>2, <2>2 DEF Unfinished, Holds, Owes, Wants, RemoveAll, Pushes
  <2>7. Apart("pop", t) /\ Apart("pop", t)'
    BY <1>2, <2>2, ApartBoth
  <2>8. Moves("push", t)
    BY <1>1, <1>2, <1>3, <1>6, <1>11, <2>6, <2>7 DEF Moves
  <2> QED BY <1>1, <1>2, <1>8, <1>9, <1>10, <2>2, <2>3, <2>4, <2>5, <2>8, Balance
<1>13. CASE ~(c.started # 0 /\ isQuiescentState(c))
  <2>1. Return(t)
    BY <1>1, <1>13
  <2>2. /\ SameOthers(t) /\ pc'[t] = "idle" /\ pc' \in [Thread -> Labels]
        /\ step' \in [Thread -> Nat] /\ script' \in Scripts
        /\ out' \in [Thread -> Value \cup {NoValue}]
        /\ CallRight(t)' /\ LocalRight(t)'
    BY <1>2, <1>7, <2>1, ReturnFrame
  <2>3. Types'
    BY <1>1, <1>2, <1>6, <1>7, <2>2 DEF Types
  <2>5. SwapRight'
    <3>1. \A q \in Sides : q # "push" => count'[q] = count[q]
      BY <1>6
    <3>2. ~(isQuiescentState(count["push"])' /\ count'["push"] # NoCount)
      BY <1>5, <1>6, <1>13 DEF isQuiescentState
    <3> QED BY <1>1, <2>2, <3>1, <3>2, SwapKept
  <2>6. Apart("pop", t) /\ Apart("pop", t)' /\ Apart("push", t)'
    BY <1>2, <2>2, ApartBoth
  <2>8. Moves("push", t)
    BY <1>1, <1>2, <1>3, <1>6, <1>11, <2>6 DEF Moves, Apart
  <2> QED BY <1>1, <1>2, <1>8, <1>9, <1>10, <2>2, <2>3, <2>5, <2>8, Balance
<1> QED BY <1>12, <1>13

\* A pop at a node looks at that one.
LEMMA OneSkipped ==
    ASSUME QueueInv, NEW t \in Thread, pc[t] = "look", op(t) # "removeAll"
    PROVE  /\ op(t) \in Pops /\ Side(t) = "pop" /\ my[t].num = 1
           /\ my[t].index \in Nat
           /\ Wants("pop", t) = IF Node(my[t].index).unconstructed THEN 1 ELSE 0
           /\ Holds("pop", t) = 1 /\ Unfinished("pop", t) = 1 /\ Owes("pop", t) = 0
<1>1. op(t) \in Pops /\ Side(t) = "pop"
  BY DEF QueueInv, ThreadsRight, CallRight, Side, Pushes, Pops
<1>2. my[t].num = 1
  BY DEF QueueInv, ThreadsRight, LocalRight
<1>3. my[t].index \in Nat
  BY ThreadTypes DEF QueueInv
<1>4. Indices(t) = {my[t].index}
  BY <1>2, <1>3 DEF Indices
<1>5. Skipped(t) = IF Node(my[t].index).unconstructed THEN {my[t].index} ELSE {}
  BY <1>4 DEF Skipped
<1>6. Cardinality({my[t].index}) = 1 /\ Cardinality({}) = 0
  BY FS_Singleton, FS_EmptySet
<1>7. Wants("pop", t) = Cardinality(Skipped(t))
  BY <1>1 DEF Wants
<1> QED BY <1>1, <1>2, <1>3, <1>5, <1>6, <1>7 DEF Holds, Unfinished, Owes

LEMMA MarkReclaimedKeeps ==
    ASSUME QueueInv, NEW t \in Thread, markReclaimed(t)
    PROVE  QueueInv'
<1>1. /\ pc[t] = "look" /\ op(t) # "removeAll" /\ Node(my[t].index).unconstructed
      /\ count' = [count EXCEPT !["pop"].started = @ + 1, !["pop"].finished = @ + 1]
      /\ Goto(t, "index") /\ my' = my
      /\ UNCHANGED <<sem, d_pushIndex, d_popIndex, d_element, waiters>>
  BY DEF markReclaimed, OnlyCount
<1>2. /\ Types /\ CallRight(t) /\ LocalRight(t) /\ op(t) \in Pops
      /\ Side(t) = "pop" /\ "pop" \in Sides /\ my[t].num = 1
      /\ Other("pop") = "push" /\ "push" \in Sides
      /\ Wants("pop", t) = 1
      /\ Holds("pop", t) = 1 /\ Unfinished("pop", t) = 1 /\ Owes("pop", t) = 0
  BY <1>1, OneSkipped DEF QueueInv, ThreadsRight, Sides, Other
<1> DEFINE c == [started |-> count["pop"].started + 1, finished |-> count["pop"].finished + 1]
<1>3. /\ c \in [started : Nat, finished : Nat]
      /\ count["pop"].started \in Nat /\ count["pop"].finished \in Nat
      /\ count' = [count EXCEPT !["pop"] = c]
  <2>1. /\ count["pop"] \in [started : Nat, finished : Nat]
        /\ count["pop"].started \in Nat /\ count["pop"].finished \in Nat
    BY <1>2 DEF Types
  <2>2. PICK a \in Nat, b \in Nat : count["pop"] = [started |-> a, finished |-> b]
    BY <2>1
  <2>3. count["pop"].started = a /\ count["pop"].finished = b
    BY <2>2
  <2>4. [count["pop"] EXCEPT !.started = @ + 1] = [started |-> a + 1, finished |-> b]
    BY <2>2
  <2>5. PICK mid : mid = [count EXCEPT !["pop"].started = @ + 1]
    OBVIOUS
  <2>6. mid = [count EXCEPT !["pop"] = [started |-> a + 1, finished |-> b]]
    BY <2>4, <2>5
  <2>7. count' = [mid EXCEPT !["pop"].finished = @ + 1]
    BY <1>1, <2>5
  <2>8. mid["pop"] = [started |-> a + 1, finished |-> b] /\ mid \in [Sides -> [started : Nat, finished : Nat]]
    BY <1>2, <2>6 DEF Types
  <2>9. count' = [mid EXCEPT !["pop"] = c]
    <3>1. PICK m : m = mid["pop"]
      OBVIOUS
    <3>2. count' = [mid EXCEPT !["pop"] = [m EXCEPT !.finished = @ + 1]]
      BY <2>7, <3>1
    <3>3. [m EXCEPT !.finished = @ + 1] = [started |-> a + 1, finished |-> b + 1]
      BY <2>8, <3>1
    <3>4. c = [started |-> a + 1, finished |-> b + 1]
      BY <2>3
    <3> HIDE DEF c
    <3> QED BY <3>2, <3>3, <3>4
  <2>10. c \in [started : Nat, finished : Nat]
    BY <2>1
  <2> QED BY <1>2, <2>1, <2>6, <2>9, <2>10 DEF Types
<1>4. c.started = count["pop"].started + 1 /\ c.finished = count["pop"].finished + 1
  OBVIOUS
<1> HIDE DEF c
<1>5. /\ count' \in [Sides -> [started : Nat, finished : Nat]]
      /\ count'["pop"] = c /\ \A q \in Sides \ {"pop"} : count'[q] = count[q]
  BY <1>2, <1>3, CountTypes
<1>6. /\ SameOthers(t) /\ pc'[t] = "index" /\ pc' \in [Thread -> Labels]
      /\ step' \in [Thread -> Nat] /\ script' \in Scripts
      /\ out' \in [Thread -> Value \cup {NoValue}]
      /\ op(t)' = op(t) /\ Side(t)' = Side(t)
      /\ step'[t] = step[t] /\ script' = script
  <2>1. "index" \in Labels
    BY DEF Labels
  <2> QED BY <1>1, <1>2, <2>1, GotoFrame
<1>7. Types' /\ WaiterTypes'
  BY <1>1, <1>2, <1>5, <1>6, WaitersSame DEF Types
<1>8. CallRight(t)' /\ LocalRight(t)'
  BY <1>1, <1>2, <1>6 DEF CallRight, LocalRight
<1>9. SwapRight'
  <2>1. count["pop"].started >= count["pop"].finished + 1
    BY <1>2, NotComplete
  <2>2. ~isQuiescentState(count["pop"])'
    BY <1>3, <1>4, <1>5, <2>1 DEF isQuiescentState
  <2>3. \A q \in Sides : q # "pop" => count'[q] = count[q]
    BY <1>5
  <2> QED BY <1>1, <1>6, <2>2, <2>3, SwapKept
<1>10. /\ Unfinished("pop", t)' = 1 /\ Holds("pop", t)' = 0 /\ Owes("pop", t)' = 0
       /\ Wants("pop", t)' = 1
  BY <1>1, <1>2, <1>6 DEF Unfinished, Holds, Owes, Wants
<1>11. Apart("push", t) /\ Apart("push", t)'
  BY <1>2, <1>6, ApartBoth
<1>12. Moves("pop", t)
  <2>1. /\ count'["pop"].started = count["pop"].started + 1
        /\ count'["pop"].finished = count["pop"].finished + 1
    BY <1>4, <1>5
  <2>2. sem["push"].tokens \in Nat /\ sem' = sem
    BY <1>1, <1>2 DEF Types
  <2> QED BY <1>2, <1>3, <1>5, <1>10, <1>11, <2>1, <2>2 DEF Moves
<1>13. SameFlags
  BY <1>1 DEF SameFlags
<1>14. t \notin Open /\ pc'[t] \notin {"flag", "construct", "look"}
  BY <1>1, <1>6 DEF Open
<1> QED BY <1>1, <1>2, <1>6, <1>7, <1>8, <1>9, <1>12, <1>13, <1>14, Balance

LEMMA PopNodeKeeps ==
    ASSUME QueueInv, NEW t \in Thread, popNode(t)
    PROVE  QueueInv'
<1>1. /\ pc[t] = "look" /\ op(t) # "removeAll" /\ ~Node(my[t].index).unconstructed
      /\ d_element' = [d_element EXCEPT ![my[t].index % Capacity].val = NoValue]
      /\ out' = [out EXCEPT ![t] = IF NextCall(t).throws THEN @
                                                        ELSE Node(my[t].index).val]
      /\ pc' = [pc EXCEPT ![t] = "finish"]
      /\ UNCHANGED <<sem, count, d_pushIndex, d_popIndex, my, step, script, waiters>>
  BY DEF popNode, OnlyQueue
<1>2. /\ Types /\ CallRight(t) /\ LocalRight(t) /\ op(t) \in Pops
      /\ Side(t) = "pop" /\ "pop" \in Sides /\ my[t].num = 1
      /\ Other("pop") = "push" /\ "push" \in Sides
      /\ my[t].index \in Nat
      /\ Wants("pop", t) = 0
      /\ Holds("pop", t) = 1 /\ Unfinished("pop", t) = 1 /\ Owes("pop", t) = 0
  BY <1>1, OneSkipped DEF QueueInv, ThreadsRight, Sides, Other
<1>3. PICK i \in 0 .. Capacity - 1 : i = my[t].index % Capacity
  BY <1>2, Modulus
<1>4. d_element[i] \in [unconstructed : BOOLEAN, val : Value \cup {NoValue}]
  BY <1>2 DEF Types
<1>5. /\ d_element' \in [0 .. Capacity - 1 ->
                            [unconstructed : BOOLEAN, val : Value \cup {NoValue}]]
      /\ SameFlags
  <2>1. PICK new : new = [d_element[i] EXCEPT !.val = NoValue]
    OBVIOUS
  <2>2. /\ new \in [unconstructed : BOOLEAN, val : Value \cup {NoValue}]
        /\ new.unconstructed = d_element[i].unconstructed
    BY <1>4, <2>1
  <2>3. d_element' = [d_element EXCEPT ![i] = new]
    BY <1>1, <1>3, <2>1
  <2> QED BY <1>2, <2>2, <2>3 DEF Types, SameFlags
<1>6. out' \in [Thread -> Value \cup {NoValue}]
  <2>1. Node(my[t].index).val \in Value \cup {NoValue}
    BY <1>3, <1>4 DEF Node
  <2> QED BY <1>1, <1>2, <2>1 DEF Types
<1>7. /\ SameOthers(t) /\ pc'[t] = "finish" /\ pc' \in [Thread -> Labels]
      /\ op(t)' = op(t) /\ Side(t)' = Side(t)
  BY <1>1, <1>2, SameCall DEF SameOthers, Types, Labels
<1>8. Types' /\ WaiterTypes'
  BY <1>1, <1>2, <1>5, <1>6, <1>7, WaitersSame DEF Types
<1>9. CallRight(t)' /\ LocalRight(t)'
  BY <1>1, <1>2, <1>7 DEF CallRight, LocalRight
<1>10. SwapRight'
  BY <1>1, <1>7, SwapKept DEF isQuiescentState
<1>11. /\ Unfinished("pop", t)' = 1 /\ Holds("pop", t)' = 1 /\ Owes("pop", t)' = 0
       /\ Wants("pop", t)' = 0
  BY <1>1, <1>2, <1>7 DEF Unfinished, Holds, Owes, Wants, Pops
<1>12. Apart("push", t) /\ Apart("push", t)'
  BY <1>2, <1>7, ApartBoth
<1>13. Moves("pop", t)
  BY <1>1, <1>2, <1>11, <1>12 DEF Moves
<1>14. t \notin Open /\ pc'[t] \notin {"flag", "construct", "look"}
  BY <1>1, <1>7 DEF Open
<1> QED BY <1>1, <1>2, <1>5, <1>7, <1>8, <1>9, <1>10, <1>13, <1>14, Balance

LEMMA MarkFinishedKeeps ==
    ASSUME QueueInv, NEW t \in Thread, markFinishedOperation(t)
    PROVE  QueueInv'
<1>0. PICK s \in Sides : s = Side(t)
  BY DEF Side, Sides
<1> DEFINE o == Other(s)
           c == [count[s] EXCEPT !.finished = @ + my[t].num]
<1>1. /\ pc[t] = "finish" /\ count' = [count EXCEPT ![s] = c]
      /\ \/ /\ isQuiescentState(c) /\ my' = [my EXCEPT ![t].seen = c]
            /\ Goto(t, "swap")
         \/ ~isQuiescentState(c) /\ Complete(t)
      /\ UNCHANGED <<sem, d_pushIndex, d_popIndex, d_element, waiters>>
  BY <1>0 DEF markFinishedOperation, OnlyCount, Goto
<1>2. /\ Types /\ CallRight(t) /\ LocalRight(t) /\ s \in Sides /\ o \in Sides /\ o # s
      /\ my[t].num \in Nat /\ my[t].again \in Nat
  BY <1>0, ThreadTypes, SumTypes DEF QueueInv, ThreadsRight
<1>3. /\ Unfinished(s, t) = my[t].num /\ Holds(s, t) = my[t].num /\ Owes(s, t) = 0
      /\ Wants(s, t) = IF op(t) = "removeAll" THEN my[t].again ELSE 0
  BY <1>0, <1>1 DEF Unfinished, Holds, Owes, Wants, RemoveAll
<1>4. /\ c \in [started : Nat, finished : Nat]
      /\ c.finished = count[s].finished + my[t].num /\ c.started = count[s].started
      /\ count[s].started \in Nat /\ count[s].finished \in Nat
  <2>1. /\ count[s] \in [started : Nat, finished : Nat]
        /\ count[s].started \in Nat /\ count[s].finished \in Nat
    BY <1>2 DEF Types
  <2>2. c \in [started : Nat, finished : Nat]
    BY <1>2, <2>1
  <2> QED BY <1>2, <2>1, <2>2
<1>5. /\ count' \in [Sides -> [started : Nat, finished : Nat]]
      /\ count'[s] = c /\ \A q \in Sides \ {s} : count'[q] = count[q]
  BY <1>0, <1>1, <1>2, <1>4, CountTypes
<1> HIDE DEF c
<1>6. WaiterTypes' /\ SameFlags
  BY <1>0, <1>1, WaitersSame DEF SameFlags
<1>7. t \notin Open
  BY <1>0, <1>1 DEF Open
<1>8. /\ count'[s].started + count[s].finished + my[t].num
            = count[s].started + count'[s].finished + 0
      /\ count'[s].finished = count[s].finished + my[t].num
      /\ sem' = sem /\ sem[s].tokens \in Nat /\ sem[o].tokens \in Nat
  <2>1. sem' = sem /\ sem[s].tokens \in Nat /\ sem[o].tokens \in Nat
    BY <1>1, <1>2 DEF Types
  <2>2. /\ count'[s].finished = count[s].finished + my[t].num
        /\ count'[s].started = count[s].started
    BY <1>4, <1>5
  <2> QED BY <1>2, <1>4, <2>1, <2>2
<1>9. CASE isQuiescentState(c) /\ my' = [my EXCEPT ![t].seen = c] /\ Goto(t, "swap")
  <2>1. /\ my' \in [Thread -> Locals] /\ my'[t].seen = c
        /\ my'[t].again = my[t].again
        /\ \A u \in Thread \ {t} : my'[u] = my[u]
    BY <1>0, <1>2, <1>4, <1>9, ZenonT(30) DEF Types, Locals
  <2>2. /\ SameOthers(t) /\ pc'[t] = "swap" /\ pc' \in [Thread -> Labels]
        /\ step' \in [Thread -> Nat] /\ script' \in Scripts
        /\ out' \in [Thread -> Value \cup {NoValue}]
        /\ op(t)' = op(t) /\ Side(t)' = Side(t)
        /\ step'[t] = step[t] /\ script' = script
    <3>1. "swap" \in Labels
      BY DEF Labels
    <3> QED BY <1>0, <1>2, <1>9, <2>1, <3>1, GotoFrame
  <2>3. Types'
    BY <1>0, <1>1, <1>2, <1>5, <2>1, <2>2 DEF Types
  <2>4. CallRight(t)' /\ LocalRight(t)'
    BY <1>0, <1>1, <1>2, <1>9, <2>1, <2>2 DEF CallRight, LocalRight, isQuiescentState
  <2>5. SwapRight'
    <3>1. \A q \in Sides : q # s => count'[q] = count[q]
      BY <1>0, <1>5
    <3>2. pc'[t] = "swap" /\ Side(t)' = s /\ my'[t].seen = count'[s]
      BY <1>0, <1>5, <2>1, <2>2
    <3> QED BY <1>0, <1>1, <2>2, <3>1, <3>2, SwapKept
  <2>6. /\ Unfinished(s, t)' = 0 /\ Holds(s, t)' = 0 /\ Owes(s, t)' = 0
        /\ Wants(s, t)' = IF op(t) = "removeAll" THEN my[t].again ELSE 0
    BY <1>0, <2>1, <2>2 DEF Unfinished, Holds, Owes, Wants, RemoveAll
  <2>7. Apart(o, t) /\ Apart(o, t)'
    BY <1>0, <1>2, <2>2, ApartBoth
  <2>8. Moves(s, t)
    <3>1. count'[o] = count[o]
      BY <1>0, <1>2, <1>5
    <3>2. sem'[o].tokens + 0 + (0 + count'[s].finished)
             = sem[o].tokens + 0 + (my[t].num + count[s].finished)
      BY <1>0, <1>2, <1>4, <1>8
    <3> QED BY <1>0, <1>3, <1>8, <2>6, <2>7, <3>1, <3>2 DEF Moves
  <2> QED BY <1>0, <1>1, <1>2, <1>6, <1>7, <2>2, <2>3, <2>4, <2>5, <2>8, Balance
<1>10. CASE ~isQuiescentState(c) /\ Complete(t)
  <2>1. /\ my' \in [Thread -> Locals]
        /\ SameOthers(t) /\ pc'[t] \in {"idle", "mark"} /\ pc' \in [Thread -> Labels]
        /\ step' \in [Thread -> Nat] /\ script' \in Scripts
        /\ out' \in [Thread -> Value \cup {NoValue}]
        /\ Side(t)' = Side(t) \/ pc'[t] = "idle"
        /\ CallRight(t)' /\ LocalRight(t)'
        /\ Wants(s, t)' = IF op(t) = "removeAll" THEN my[t].again ELSE 0
    BY <1>0, <1>1, <1>10, CompleteFrame
  <2>2. Types'
    BY <1>0, <1>1, <1>2, <1>5, <2>1 DEF Types
  <2>3. SwapRight'
    <3>1. \A q \in Sides : q # s => count'[q] = count[q]
      BY <1>0, <1>5
    <3>2. ~isQuiescentState(count[s])'
      BY <1>0, <1>5, <1>10 DEF isQuiescentState
    <3> QED BY <1>0, <1>1, <2>1, <3>1, <3>2, SwapKept
  <2>4. Unfinished(s, t)' = 0 /\ Holds(s, t)' = 0 /\ Owes(s, t)' = 0
    BY <1>0, <2>1 DEF Unfinished, Holds, Owes
  <2>5. Apart(o, t) /\ Apart(o, t)'
    BY <1>0, <1>2, <2>1, ApartBoth
  <2>6. Moves(s, t)
    <3>1. count'[o] = count[o]
      BY <1>0, <1>2, <1>5
    <3>2. sem'[o].tokens + 0 + (0 + count'[s].finished)
             = sem[o].tokens + 0 + (my[t].num + count[s].finished)
      BY <1>0, <1>2, <1>4, <1>8
    <3> QED BY <1>0, <1>3, <1>8, <2>1, <2>4, <2>5, <3>1, <3>2 DEF Moves
  <2> QED BY <1>0, <1>1, <1>2, <1>6, <1>7, <2>1, <2>2, <2>3, <2>6, Balance
<1> QED BY <1>0, <1>1, <1>9, <1>10

LEMMA SwapCountKeeps ==
    ASSUME QueueInv, NEW t \in Thread, swapCount(t)
    PROVE  QueueInv'
<1>0. PICK s \in Sides : s = Side(t)
  BY DEF Side, Sides
<1> DEFINE o == Other(s)
<1>1. /\ pc[t] = "swap"
      /\ UNCHANGED <<sem, d_pushIndex, d_popIndex, d_element, waiters>>
      /\ \/ /\ count[s] = my[t].seen /\ count' = [count EXCEPT ![s] = NoCount]
            /\ Goto(t, "post") /\ UNCHANGED my
         \/ /\ count[s] # my[t].seen /\ UNCHANGED count
            /\ \/ op(t) = "removeAll" /\ Goto(t, "count") /\ UNCHANGED my
               \/ op(t) # "removeAll" /\ Complete(t)
  BY <1>0 DEF swapCount, OnlyCount
<1>2. /\ Types /\ CallRight(t) /\ LocalRight(t) /\ s \in Sides /\ o \in Sides /\ o # s
      /\ my[t].again \in Nat /\ Side(t) = s
      /\ op(t) \in Pushes \cup Pops \cup {"removeAll"}
  BY <1>0, <1>1, ThreadTypes, SumTypes DEF QueueInv, ThreadsRight, CallRight
<1>3. /\ Unfinished(s, t) = 0 /\ Holds(s, t) = 0 /\ Owes(s, t) = 0
      /\ Wants(s, t) = IF op(t) = "removeAll" THEN my[t].again ELSE 0
  BY <1>0, <1>1 DEF Unfinished, Holds, Owes, Wants, RemoveAll
<1>4. WaiterTypes' /\ SameFlags
  BY <1>0, <1>1, WaitersSame DEF SameFlags
<1>5. t \notin Open
  BY <1>0, <1>1 DEF Open
<1>6. /\ sem' = sem /\ sem[s].tokens \in Nat /\ sem[o].tokens \in Nat
      /\ count[s].started \in Nat /\ count[s].finished \in Nat
  BY <1>0, <1>1, <1>2 DEF Types
<1>7. CASE /\ count[s] = my[t].seen /\ count' = [count EXCEPT ![s] = NoCount]
           /\ Goto(t, "post") /\ UNCHANGED my
  <2>1. /\ SameOthers(t) /\ pc'[t] = "post" /\ pc' \in [Thread -> Labels]
        /\ step' \in [Thread -> Nat] /\ script' \in Scripts
        /\ out' \in [Thread -> Value \cup {NoValue}]
        /\ op(t)' = op(t) /\ Side(t)' = s
        /\ step'[t] = step[t] /\ script' = script
    <3>1. "post" \in Labels
      BY DEF Labels
    <3> QED BY <1>0, <1>2, <1>7, <3>1, GotoFrame
  <2>2. NoCount \in [started : Nat, finished : Nat] /\ NoCount.started = 0 /\ NoCount.finished = 0
    BY DEF NoCount
  <2>3. /\ count' \in [Sides -> [started : Nat, finished : Nat]]
        /\ count'[s] = NoCount /\ \A q \in Sides \ {s} : count'[q] = count[q]
    BY <1>0, <1>2, <1>7, <2>2, CountTypes
  <2>4. Types'
    BY <1>0, <1>1, <1>2, <1>7, <2>1, <2>3 DEF Types
  <2>5. CallRight(t)' /\ LocalRight(t)'
    BY <1>0, <1>1, <1>2, <1>7, <2>1 DEF CallRight, LocalRight
  <2>6. SwapRight'
    <3>1. \A q \in Sides : q # s => count'[q] = count[q]
      BY <1>0, <2>3
    <3> QED BY <1>0, <1>2, <2>1, <2>3, <3>1, SwapKept
  <2>7. my[t].seen.started = my[t].seen.finished
    BY <1>0, <1>1, <1>2 DEF LocalRight
  <2>8. /\ Unfinished(s, t)' = 0 /\ Holds(s, t)' = 0
        /\ Owes(s, t)' = count[s].started
        /\ Wants(s, t)' = IF op(t) = "removeAll" THEN my[t].again ELSE 0
    BY <1>0, <1>7, <2>1 DEF Unfinished, Holds, Owes, Wants, RemoveAll
  <2>9. Apart(o, t) /\ Apart(o, t)'
    BY <1>0, <1>2, <2>1, ApartBoth
  <2>10. AllUnfinished(s) = 0
    <3>1. count[s].started = count[s].finished + AllUnfinished(s) /\ AllUnfinished(s) \in Nat
      BY <1>0, <1>2, SumTypes DEF QueueInv, Counted
    <3> QED BY <1>0, <1>6, <1>7, <2>7, <3>1
  <2>11. Moves(s, t)
    <3>1. count'[o] = count[o]
      BY <1>0, <1>2, <2>3
    <3>2. sem'[o].tokens + count[s].started + (0 + count'[s].finished)
             = sem[o].tokens + 0 + (0 + count[s].finished)
      BY <1>0, <1>6, <1>7, <2>2, <2>3, <2>7
    <3>3. count'[s].started + count[s].finished + 0 = count[s].started + count'[s].finished + 0
      BY <1>0, <1>6, <1>7, <2>2, <2>3, <2>7
    <3> QED BY <1>0, <1>3, <1>6, <2>8, <2>9, <2>10, <3>1, <3>2, <3>3 DEF Moves
  <2> QED BY <1>0, <1>1, <1>2, <1>4, <1>5, <2>1, <2>4, <2>5, <2>6, <2>11, Balance
<1>8. CASE count[s] # my[t].seen /\ UNCHANGED count
  <2>1. PICK p \in {"idle", "mark", "count"} :
           /\ my' \in [Thread -> Locals] /\ pc'[t] = p
           /\ SameOthers(t) /\ pc' \in [Thread -> Labels]
           /\ step' \in [Thread -> Nat] /\ script' \in Scripts
           /\ out' \in [Thread -> Value \cup {NoValue}]
           /\ Side(t)' = s \/ pc'[t] = "idle"
           /\ CallRight(t)' /\ LocalRight(t)'
           /\ Wants(s, t)' = IF op(t) = "removeAll" THEN my[t].again ELSE 0
    <3>1. CASE op(t) = "removeAll" /\ Goto(t, "count") /\ UNCHANGED my
      <4>1. "count" \in Labels
        BY DEF Labels
      <4>2. /\ SameOthers(t) /\ pc'[t] = "count" /\ pc' \in [Thread -> Labels]
            /\ step' \in [Thread -> Nat] /\ script' \in Scripts
            /\ out' \in [Thread -> Value \cup {NoValue}]
            /\ op(t)' = op(t) /\ Side(t)' = s
            /\ step'[t] = step[t] /\ script' = script
        BY <1>0, <1>2, <3>1, <4>1, GotoFrame
      <4>3. CallRight(t)' /\ LocalRight(t)'
        BY <1>0, <1>1, <1>2, <4>2 DEF CallRight, LocalRight
      <4>4. Wants(s, t)' = my[t].again
        BY <1>0, <3>1, <4>2 DEF Wants, RemoveAll
      <4> QED BY <1>0, <1>2, <3>1, <4>2, <4>3, <4>4 DEF Types
    <3>2. CASE Complete(t)
      BY <1>0, <1>1, <1>2, <3>2, CompleteFrame
    <3> QED BY <1>0, <1>1, <1>8, <3>1, <3>2
  <2>2. Types'
    BY <1>0, <1>1, <1>2, <1>8, <2>1 DEF Types
  <2>3. SwapRight'
    BY <1>0, <1>2, <1>8, <2>1, SwapKept
  <2>4. Unfinished(s, t)' = 0 /\ Holds(s, t)' = 0 /\ Owes(s, t)' = 0
    BY <1>0, <2>1 DEF Unfinished, Holds, Owes
  <2>5. Apart(o, t) /\ Apart(o, t)'
    BY <1>0, <1>2, <2>1, ApartBoth
  <2>6. Moves(s, t)
    BY <1>0, <1>3, <1>6, <1>8, <2>1, <2>4, <2>5 DEF Moves
  <2>7. pc'[t] \notin {"flag", "construct", "look"}
    BY <1>0, <2>1
  <2> QED BY <1>0, <1>1, <1>2, <1>4, <1>5, <2>1, <2>2, <2>3, <2>6, <2>7, Balance
<1> QED BY <1>0, <1>1, <1>7, <1>8

LEMMA PostKeeps ==
    ASSUME QueueInv, NEW t \in Thread, post(t)
    PROVE  QueueInv'
<1>0. PICK s \in Sides : s = Side(t)
  BY DEF Side, Sides
<1> DEFINE o == Other(s)
<1>1. /\ pc[t] = "post" /\ Give(o, my[t].seen.started) /\ my' = my
      /\ UNCHANGED <<count, d_pushIndex, d_popIndex, d_element, waiters>>
      /\ IF s = "push" THEN Return(t) ELSE Goto(t, "count")
  BY <1>0 DEF post, OnlySem
<1>2. /\ Types /\ CallRight(t) /\ LocalRight(t) /\ s \in Sides /\ o \in Sides /\ o # s
      /\ my[t].again \in Nat /\ Side(t) = s /\ my[t].seen.started \in Nat
      /\ op(t) \in Pushes \cup Pops \cup {"removeAll"}
  BY <1>0, <1>1, ThreadTypes, SumTypes DEF QueueInv, ThreadsRight, CallRight
<1>3. /\ Unfinished(s, t) = 0 /\ Holds(s, t) = 0 /\ Owes(s, t) = my[t].seen.started
      /\ Wants(s, t) = IF op(t) = "removeAll" THEN my[t].again ELSE 0
  BY <1>0, <1>1 DEF Unfinished, Holds, Owes, Wants, RemoveAll
<1>4. op(t) = "removeAll" => s = "pop"
  BY <1>0 DEF Side, Pushes
<1>5. WaiterTypes' /\ SameFlags
  BY <1>0, <1>1, WaitersSame DEF SameFlags
<1>6. t \notin Open
  BY <1>0, <1>1 DEF Open
<1>7. /\ sem' \in [Sides -> [tokens : Nat, gen : Nat]]
      /\ sem'[o].tokens = sem[o].tokens + my[t].seen.started
      /\ sem'[s] = sem[s]
      /\ sem[s].tokens \in Nat /\ sem[o].tokens \in Nat
      /\ count' = count /\ count[s].started \in Nat /\ count[s].finished \in Nat
  <2>1. sem[s].tokens \in Nat /\ sem[o].tokens \in Nat
    BY <1>0, <1>2 DEF Types
  <2>2. sem[o].tokens + my[t].seen.started >= 0 /\ my[t].seen.started \in Int
    BY <1>0, <1>2, <2>1
  <2> QED BY <1>0, <1>1, <1>2, <2>1, <2>2, GiveTypes DEF Types
<1>8. PICK p \in {"idle", "count"} :
         /\ pc'[t] = p
         /\ SameOthers(t) /\ pc' \in [Thread -> Labels]
         /\ step' \in [Thread -> Nat] /\ script' \in Scripts
         /\ out' \in [Thread -> Value \cup {NoValue}]
         /\ Side(t)' = s \/ pc'[t] = "idle"
         /\ CallRight(t)' /\ LocalRight(t)'
         /\ Wants(s, t)' = IF op(t) = "removeAll" THEN my[t].again ELSE 0
  <2>1. CASE s = "push"
    <3>1. Return(t)
      BY <1>0, <1>1, <2>1
    <3>2. /\ pc'[t] = "idle"
          /\ SameOthers(t) /\ pc' \in [Thread -> Labels]
          /\ step' \in [Thread -> Nat] /\ script' \in Scripts
          /\ out' \in [Thread -> Value \cup {NoValue}]
          /\ CallRight(t)' /\ LocalRight(t)'
      BY <1>0, <1>1, <1>2, <3>1, ReturnFrame
    <3>3. Wants(s, t)' = 0
      BY <1>0, <3>2 DEF Wants
    <3> QED BY <1>0, <1>4, <2>1, <3>2, <3>3
  <2>2. CASE s # "push"
    <3>1. Goto(t, "count") /\ "count" \in Labels
      BY <1>0, <1>1, <2>2 DEF Labels
    <3>2. /\ SameOthers(t) /\ pc'[t] = "count" /\ pc' \in [Thread -> Labels]
          /\ step' \in [Thread -> Nat] /\ script' \in Scripts
          /\ out' \in [Thread -> Value \cup {NoValue}]
          /\ op(t)' = op(t) /\ Side(t)' = s
          /\ step'[t] = step[t] /\ script' = script
      BY <1>0, <1>1, <1>2, <3>1, GotoFrame
    <3>3. CallRight(t)' /\ LocalRight(t)'
      BY <1>0, <1>1, <1>2, <3>2 DEF CallRight, LocalRight
    <3>4. Wants(s, t)' = IF op(t) = "removeAll" THEN my[t].again ELSE 0
      BY <1>0, <1>1, <3>2 DEF Wants, RemoveAll
    <3> QED BY <1>0, <3>2, <3>3, <3>4
  <2> QED BY <1>0, <2>1, <2>2
<1>9. Types'
  BY <1>0, <1>1, <1>2, <1>7, <1>8 DEF Types
<1>10. SwapRight'
  BY <1>0, <1>1, <1>7, <1>8, SwapKept DEF isQuiescentState
<1>11. Unfinished(s, t)' = 0 /\ Holds(s, t)' = 0 /\ Owes(s, t)' = 0
  BY <1>0, <1>8 DEF Unfinished, Holds, Owes
<1>12. Apart(o, t) /\ Apart(o, t)'
  BY <1>0, <1>2, <1>8, ApartBoth
<1>13. Moves(s, t)
  <2>1. sem'[o].tokens + 0 = sem[o].tokens + my[t].seen.started
    BY <1>0, <1>2, <1>7
  <2>2. sem'[o].tokens + 0 + (0 + count'[s].finished)
          = sem[o].tokens + my[t].seen.started + (0 + count[s].finished)
    BY <1>0, <2>1, <1>7
  <2> QED BY <1>0, <1>3, <1>7, <1>8, <1>11, <1>12, <2>1, <2>2 DEF Moves
<1>14. pc'[t] \notin {"flag", "construct", "look"}
  BY <1>0, <1>8
<1> QED BY <1>0, <1>1, <1>2, <1>5, <1>6, <1>8, <1>9, <1>10, <1>13, <1>14, Balance

LEMMA DestroyAllKeeps ==
    ASSUME QueueInv, NEW t \in Thread, destroyAll(t)
    PROVE  QueueInv'
<1> DEFINE nodes == {i % Capacity : i \in my[t].index .. my[t].index + my[t].num - 1}
           live  == {i \in nodes : ~d_element[i].unconstructed}
           full  == Indices(t) \ Skipped(t)
           new   == [i \in DOMAIN d_element |->
                        IF i \in live THEN [d_element[i] EXCEPT !.val = NoValue]
                                      ELSE d_element[i]]
<1>1. /\ pc[t] = "look" /\ op(t) = "removeAll"
      /\ d_element' = new
      /\ my' = [my EXCEPT ![t].again = my[t].num - Cardinality(live)]
      /\ Goto(t, "finish")
      /\ UNCHANGED <<sem, count, d_pushIndex, d_popIndex, waiters>>
  BY DEF destroyAll, OnlyQueue
<1>2. /\ Types /\ CallRight(t) /\ LocalRight(t)
      /\ Side(t) = "pop" /\ "pop" \in Sides /\ "push" \in Sides /\ Other("pop") = "push"
  BY <1>1 DEF QueueInv, ThreadsRight, Side, Pushes, Sides, Other
<1>3. /\ my[t].index \in Nat /\ my[t].num \in Nat
      /\ Indices(t) \subseteq Nat /\ IsFiniteSet(Indices(t))
      /\ Cardinality(Indices(t)) = my[t].num
      /\ IsFiniteSet(Skipped(t)) /\ Cardinality(Skipped(t)) \in Nat
  BY <1>2, ThreadTypes
<1>4. \A i \in Indices(t), k \in Indices(t) : i < k => i % Capacity # k % Capacity
  <2>1. my[t].index + my[t].num <= my[t].index + Capacity
    <3>1. /\ my[t].index + my[t].num <= d_popIndex /\ d_popIndex <= d_pushIndex
          /\ Rights("push") + d_pushIndex <= my[t].index + Capacity
      BY <1>1 DEF QueueInv, PlacesRight, RingRight
    <3>2. Rights("push") \in Nat /\ d_pushIndex \in Nat /\ d_popIndex \in Nat
      BY <1>2, SumTypes DEF Types
    <3>3. Capacity \in Nat
      BY Constants
    <3>4. my[t].index + Capacity \in Nat /\ my[t].index + my[t].num \in Nat
      BY <1>3, <3>3
    <3>5. d_pushIndex <= my[t].index + Capacity
      BY <3>1, <3>2, <3>4
    <3> QED BY <3>1, <3>2, <3>4, <3>5
  <2>2. \A i \in Indices(t) : i \in Nat /\ my[t].index <= i /\ i < my[t].index + my[t].num
    BY <1>3 DEF Indices
  <2> TAKE i \in Indices(t), k \in Indices(t)
  <2> HAVE i < k
  <2>3. i \in Nat /\ k \in Nat /\ k < i + Capacity
    BY <1>3, <2>1, <2>2, Constants
  <2> QED BY <2>3, NoCollision
<1>5. Cardinality(live) = Cardinality(full) /\ live \subseteq 0 .. Capacity - 1
  <2> DEFINE f == [i \in full |-> i % Capacity]
  <2>1. nodes = {i % Capacity : i \in Indices(t)}
    BY DEF Indices
  <2>2. \A i \in Indices(t) : i \in full <=> ~d_element[i % Capacity].unconstructed
    BY DEF Skipped, Node
  <2>3. full \subseteq Indices(t)
    OBVIOUS
  <2>4. live = {i % Capacity : i \in full}
    BY <2>1, <2>2, <2>3
  <2>5. \A i \in full, k \in full : f[i] = f[k] => i = k
    <3>1. \A i \in full : i \in Nat /\ i \in Indices(t)
      BY <1>3, <2>3
    <3> SUFFICES ASSUME NEW i \in full, NEW k \in full, f[i] = f[k], i # k
                 PROVE  FALSE
      OBVIOUS
    <3>2. i % Capacity = k % Capacity
      OBVIOUS
    <3>3. i < k \/ k < i
      BY <3>1
    <3> QED BY <1>4, <3>1, <3>2, <3>3
  <2>6. f \in Bijection(full, live)
    <3> HIDE DEF full, live
    <3>1. \A i \in full : f[i] = i % Capacity
      OBVIOUS
    <3>2. f \in [full -> live] /\ \A j \in live : \E i \in full : f[i] = j
      BY <2>4, <3>1
    <3> HIDE DEF f
    <3>3. f \in Surjection(full, live)
      BY <3>2 DEF Surjection
    <3>4. f \in Injection(full, live)
      BY <2>5, <3>2 DEF Injection, IsInjective
    <3> QED BY <3>3, <3>4 DEF Bijection
  <2>7. IsFiniteSet(full)
    BY <1>3, <2>3, FS_Subset
  <2>8. \A i \in full : i % Capacity \in 0 .. Capacity - 1
    BY <1>3, <2>3, Modulus
  <2> HIDE DEF f, full, live
  <2>9. ExistsBijection(full, live)
    BY <2>6 DEF ExistsBijection
  <2>10. Cardinality(live) = Cardinality(full)
    BY <2>7, <2>9, FS_Bijection
  <2>11. live \subseteq 0 .. Capacity - 1
    BY <2>4, <2>8
  <2> QED BY <2>10, <2>11
<1>6. my[t].num - Cardinality(live) = Cardinality(Skipped(t))
  <2>1. Skipped(t) \subseteq Indices(t) /\ Indices(t) \cap Skipped(t) = Skipped(t)
    BY DEF Skipped
  <2>2. Cardinality(full) = Cardinality(Indices(t)) - Cardinality(Indices(t) \cap Skipped(t))
    BY <1>3, FS_Difference
  <2> HIDE DEF full, live
  <2>3. Cardinality(full) = my[t].num - Cardinality(Skipped(t))
    BY <1>3, <2>1, <2>2
  <2> QED BY <1>3, <1>5, <2>3
<1> HIDE DEF full, live, nodes
<1>7. /\ my' \in [Thread -> Locals] /\ my'[t].again = Cardinality(Skipped(t))
      /\ my'[t].num = my[t].num
      /\ \A u \in Thread \ {t} : my'[u] = my[u]
  BY <1>1, <1>2, <1>3, <1>6, ZenonT(30) DEF Types, Locals
<1>8. /\ d_element' \in [0 .. Capacity - 1 ->
                            [unconstructed : BOOLEAN, val : Value \cup {NoValue}]]
      /\ SameFlags
  <2>1. d_element \in [0 .. Capacity - 1 ->
                            [unconstructed : BOOLEAN, val : Value \cup {NoValue}]]
    BY <1>2 DEF Types
  <2>2. \A i \in 0 .. Capacity - 1 :
           /\ [d_element[i] EXCEPT !.val = NoValue] \in
                 [unconstructed : BOOLEAN, val : Value \cup {NoValue}]
           /\ [d_element[i] EXCEPT !.val = NoValue].unconstructed
                 = d_element[i].unconstructed
    BY <2>1
  <2>3. /\ DOMAIN d_element' = 0 .. Capacity - 1
        /\ \A i \in 0 .. Capacity - 1 :
              d_element'[i] = IF i \in live THEN [d_element[i] EXCEPT !.val = NoValue]
                                            ELSE d_element[i]
    BY <1>1, <2>1
  <2>4. d_element' \in [0 .. Capacity - 1 ->
                            [unconstructed : BOOLEAN, val : Value \cup {NoValue}]]
    BY <1>1, <2>1, <2>2
  <2> QED BY <2>2, <2>3, <2>4 DEF SameFlags
<1> HIDE DEF new
<1>9. /\ SameOthers(t) /\ pc'[t] = "finish" /\ pc' \in [Thread -> Labels]
      /\ step' \in [Thread -> Nat] /\ script' \in Scripts
      /\ out' \in [Thread -> Value \cup {NoValue}]
      /\ op(t)' = op(t) /\ Side(t)' = Side(t)
      /\ step'[t] = step[t] /\ script' = script
  <2>1. "finish" \in Labels
    BY DEF Labels
  <2> QED BY <1>1, <1>2, <1>7, <2>1, GotoFrame
<1>10. Types' /\ WaiterTypes'
  BY <1>1, <1>2, <1>7, <1>8, <1>9, WaitersSame DEF Types
<1>11. CallRight(t)' /\ LocalRight(t)'
  BY <1>1, <1>2, <1>7, <1>9 DEF CallRight, LocalRight
<1>12. SwapRight'
  BY <1>1, <1>9, SwapKept DEF isQuiescentState
<1>13. /\ Unfinished("pop", t) = my[t].num /\ Holds("pop", t) = my[t].num
       /\ Owes("pop", t) = 0 /\ Wants("pop", t) = Cardinality(Skipped(t))
  BY <1>1, <1>2 DEF Unfinished, Holds, Owes, Wants
<1>14. /\ Unfinished("pop", t)' = my[t].num /\ Holds("pop", t)' = my[t].num
       /\ Owes("pop", t)' = 0 /\ Wants("pop", t)' = Cardinality(Skipped(t))
  BY <1>1, <1>2, <1>7, <1>9 DEF Unfinished, Holds, Owes, Wants, RemoveAll
<1>15. Apart("push", t) /\ Apart("push", t)'
  BY <1>2, <1>9, ApartBoth
<1>16. Moves("pop", t)
  BY <1>1, <1>2, <1>13, <1>14, <1>15 DEF Moves
<1>17. t \notin Open /\ pc'[t] \notin {"flag", "construct", "look"}
  BY <1>1, <1>9 DEF Open
<1> QED BY <1>1, <1>2, <1>8, <1>9, <1>10, <1>11, <1>12, <1>16, <1>17, Balance

-----------------------------------------------------------------------------
(* The operations that take a place, or fill it *)

\* What these do to the accounts: they neither count nor give.
LEMMA Accounts ==
    ASSUME QueueInv, Types', NEW t \in Thread, SameOthers(t),
           \A u \in Thread \ {t} : pc[u] = "look" => Skipped(u)' = Skipped(u),
           NEW s \in Sides, s = Side(t), Side(t)' = s, UNCHANGED <<sem, count>>,
           Owes(s, t) = 0, Owes(s, t)' = 0, Unfinished(s, t)' = Unfinished(s, t)
    PROVE  /\ Rights(s)' = Rights(s) - Wants(s, t) + Wants(s, t)'
           /\ Done(s)' = Done(s) - Holds(s, t) + Holds(s, t)'
           /\ Rights(Other(s))' = Rights(Other(s)) /\ Done(Other(s))' = Done(Other(s))
           /\ \A q \in Sides : Rights(q) \in Nat /\ Done(q) \in Nat
           /\ Wants(s, t) \in Nat /\ Wants(s, t)' \in Nat
           /\ Holds(s, t) \in Nat /\ Holds(s, t)' \in Nat
           /\ Wants(s, t) <= Rights(s) /\ Holds(s, t) <= Done(s)
           /\ Counted'
<1> DEFINE o == Other(s)
<1>1. Types /\ o \in Sides /\ o # s /\ Other(o) = s
  BY SumTypes DEF QueueInv
<1>2. Apart(o, t) /\ Apart(o, t)'
  BY <1>1, ApartBoth
<1>3. \A q \in Sides :
         /\ AllUnfinished(q)' = AllUnfinished(q) - Unfinished(q, t) + Unfinished(q, t)'
         /\ AllWanted(q)' = AllWanted(q) - Wants(q, t) + Wants(q, t)'
         /\ AllHeld(q)' = AllHeld(q) - Holds(q, t) + Holds(q, t)'
         /\ AllOwed(q)' = AllOwed(q) - Owes(q, t) + Owes(q, t)'
  BY <1>1, Deltas
<1>4. \A q \in Sides :
         /\ AllUnfinished(q) \in Nat /\ AllWanted(q) \in Nat
         /\ AllHeld(q) \in Nat /\ AllOwed(q) \in Nat
         /\ sem[q].tokens \in Nat /\ count[q].finished \in Nat
         /\ Rights(q) \in Nat /\ Done(q) \in Nat
         /\ Unfinished(q, t) \in Nat /\ Wants(q, t) \in Nat /\ Holds(q, t) \in Nat
         /\ Wants(q, t)' \in Nat /\ Holds(q, t)' \in Nat
         /\ Wants(q, t) <= AllWanted(q) /\ Holds(q, t) <= AllHeld(q)
  BY <1>1, SumTypes, ShareTypes, ShareTypesNext
<1>5. /\ AllWanted(o)' = AllWanted(o) /\ AllHeld(o)' = AllHeld(o)
      /\ AllUnfinished(o)' = AllUnfinished(o)
  BY <1>1, <1>2, <1>3, <1>4 DEF Apart
<1>6. AllOwed(o)' = AllOwed(o)
  BY <1>1, <1>2, <1>3, <1>4 DEF Apart
<1>7. AllOwed(s)' = AllOwed(s) /\ AllUnfinished(s)' = AllUnfinished(s)
  BY <1>3, <1>4
<1>8. /\ Rights(s) = sem[s].tokens + AllWanted(s) + AllOwed(o)
      /\ Rights(s)' = sem[s].tokens + AllWanted(s)' + AllOwed(o)
      /\ Done(s) = AllHeld(s) + count[s].finished
      /\ Done(s)' = AllHeld(s)' + count[s].finished
      /\ Rights(o) = sem[o].tokens + AllWanted(o) + AllOwed(s)
      /\ Rights(o)' = sem[o].tokens + AllWanted(o) + AllOwed(s)
      /\ Done(o) = AllHeld(o) + count[o].finished
      /\ Done(o)' = AllHeld(o) + count[o].finished
  BY <1>1, <1>5, <1>6, <1>7 DEF Rights, Done
<1>9. Rights(s)' = Rights(s) - Wants(s, t) + Wants(s, t)' /\ Wants(s, t) <= Rights(s)
  <2>1. AllWanted(s)' = AllWanted(s) - Wants(s, t) + Wants(s, t)'
    BY <1>3
  <2>2. /\ AllWanted(s) \in Nat /\ sem[s].tokens \in Nat /\ AllOwed(o) \in Nat
        /\ Wants(s, t) \in Nat /\ Wants(s, t)' \in Nat /\ Wants(s, t) <= AllWanted(s)
    BY <1>1, <1>4
  <2>3. AllWanted(s)' \in Int
    BY <2>1, <2>2
  <2> QED BY <1>8, <2>1, <2>2, <2>3
<1>10. Done(s)' = Done(s) - Holds(s, t) + Holds(s, t)' /\ Holds(s, t) <= Done(s)
  <2>1. AllHeld(s)' = AllHeld(s) - Holds(s, t) + Holds(s, t)'
    BY <1>3
  <2>2. /\ AllHeld(s) \in Nat /\ count[s].finished \in Nat
        /\ Holds(s, t) \in Nat /\ Holds(s, t)' \in Nat /\ Holds(s, t) <= AllHeld(s)
    BY <1>4
  <2>3. AllHeld(s)' \in Int
    BY <2>1, <2>2
  <2> QED BY <1>8, <2>1, <2>2, <2>3
<1>11. Counted'
  <2>1. \A q \in Sides : q = s \/ q = o
    BY DEF Sides, Other
  <2>2. \A q \in Sides : AllUnfinished(q)' = AllUnfinished(q)
    BY <1>5, <1>7, <2>1
  <2> QED BY <2>2 DEF QueueInv, Counted
<1> QED BY <1>4, <1>8, <1>9, <1>10, <1>11

\* The other threads stay right if their nodes stay as they are.
LEMMA OthersRight ==
    ASSUME QueueInv, NEW t \in Thread, SameOthers(t),
           \A u \in Thread \ {t} : pc[u] = "construct" =>
              d_element'[my[u].index % Capacity].unconstructed
                = d_element[my[u].index % Capacity].unconstructed,
           CallRight(t)', LocalRight(t)'
    PROVE  ThreadsRight'
<1>1. ASSUME NEW u \in Thread \ {t} PROVE CallRight(u)' /\ LocalRight(u)'
  <2>1. pc'[u] = pc[u] /\ my'[u] = my[u] /\ op(u)' = op(u) /\ CallRight(u)' = CallRight(u)
    BY OtherThread DEF SameOthers
  <2>2. CallRight(u) /\ LocalRight(u)
    BY DEF QueueInv, ThreadsRight
  <2> QED BY <2>1, <2>2 DEF LocalRight, Node
<1> QED BY <1>1 DEF ThreadsRight

LEMMA PushIndexKeeps ==
    ASSUME QueueInv, NEW t \in Thread, pushIndex(t)
    PROVE  QueueInv'
<1>1. /\ pc[t] = "index" /\ Side(t) = "push"
      /\ my' = [my EXCEPT ![t].index = d_pushIndex]
      /\ d_pushIndex' = d_pushIndex + 1
      /\ Goto(t, "flag")
      /\ UNCHANGED <<sem, count, d_popIndex, d_element, waiters>>
  BY DEF pushIndex, OnlyQueue
<1>2. /\ Types /\ CallRight(t) /\ LocalRight(t) /\ op(t) \in Pushes /\ op(t) # "removeAll"
      /\ "push" \in Sides /\ Other("push") = "pop" /\ my[t].num = 1
      /\ d_pushIndex \in Nat /\ d_popIndex \in Nat /\ d_popIndex <= d_pushIndex
  <2>1. CallRight(t) /\ LocalRight(t)
    BY DEF QueueInv, ThreadsRight
  <2>2. op(t) \in Pushes /\ op(t) # "removeAll"
    BY <1>1, <2>1 DEF CallRight, Side, Pops, Pushes
  <2>3. my[t].num = 1
    BY <1>1, <2>1, <2>2 DEF LocalRight
  <2> QED BY <2>1, <2>2, <2>3 DEF QueueInv, Types, PlacesRight, Sides, Other
<1>3. /\ my' \in [Thread -> Locals] /\ my'[t].index = d_pushIndex /\ my'[t].num = 1
      /\ \A u \in Thread \ {t} : my'[u] = my[u]
  BY <1>1, <1>2, ZenonT(30) DEF Types, Locals
<1>4. /\ SameOthers(t) /\ pc'[t] = "flag" /\ pc' \in [Thread -> Labels]
      /\ step' \in [Thread -> Nat] /\ script' \in Scripts
      /\ out' \in [Thread -> Value \cup {NoValue}]
      /\ op(t)' = op(t) /\ Side(t)' = "push"
      /\ step'[t] = step[t] /\ script' = script
  <2>1. "flag" \in Labels
    BY DEF Labels
  <2> QED BY <1>1, <1>2, <1>3, <2>1, GotoFrame
<1>5. Types' /\ WaiterTypes'
  <2>1. d_pushIndex' \in Nat
    BY <1>1, <1>2
  <2> QED BY <1>1, <1>2, <1>3, <1>4, <2>1, WaitersSame DEF Types
<1>6. CallRight(t)' /\ LocalRight(t)'
  BY <1>1, <1>2, <1>3, <1>4 DEF CallRight, LocalRight
<1>7. ThreadsRight'
  BY <1>1, <1>4, <1>6, OthersRight
<1>8. SwapRight'
  BY <1>1, <1>4, SwapKept DEF isQuiescentState
<1>9. \A u \in Thread \ {t} : pc[u] = "look" => Skipped(u)' = Skipped(u)
  BY <1>1, <1>3 DEF Skipped, Indices, Node
<1>10. /\ Wants("push", t) = 1 /\ Holds("push", t) = 0 /\ Owes("push", t) = 0
       /\ Unfinished("push", t) = 1
       /\ Wants("push", t)' = 0 /\ Holds("push", t)' = 0 /\ Owes("push", t)' = 0
       /\ Unfinished("push", t)' = 1
  BY <1>1, <1>2, <1>3, <1>4 DEF Wants, Holds, Owes, Unfinished
<1>11. /\ Rights("push")' = Rights("push") - 1 /\ Done("push")' = Done("push")
       /\ Rights("pop")' = Rights("pop") /\ Done("pop")' = Done("pop")
       /\ Rights("push") \in Nat /\ Done("push") \in Nat
       /\ Rights("pop") \in Nat /\ Done("pop") \in Nat
       /\ Rights("push") >= 1 /\ Counted'
  <2>1. /\ Rights("push")' = Rights("push") - 1 + 0 /\ Done("push")' = Done("push") - 0 + 0
        /\ Rights("pop")' = Rights("pop") /\ Done("pop")' = Done("pop")
        /\ \A q \in Sides : Rights(q) \in Nat /\ Done(q) \in Nat
        /\ 1 <= Rights("push") /\ Counted'
    BY <1>1, <1>2, <1>4, <1>5, <1>9, <1>10, Accounts
  <2> QED BY <2>1 DEF Sides
<1>12. Places' = Places \cup {d_pushIndex} /\ d_pushIndex \notin Places /\ Places \subseteq Nat
  BY <1>1, <1>2 DEF Places
<1>13. /\ Open' = Open \cup {t} /\ t \notin Open
       /\ \A u \in Open : u # t /\ u \in Thread /\ my'[u] = my[u] /\ my[u].index \in Places
  BY <1>1, <1>3, <1>4 DEF Open, SameOthers, QueueInv, PlacesRight
<1>14. Filled' = Filled
  <2>1. ASSUME NEW i \in Places PROVE i \in Filled' <=> i \in Filled
    <3>1. Node(i)' = Node(i) /\ i # d_pushIndex
      BY <1>1, <1>12 DEF Node
    <3>2. (\A u \in Open' : my'[u].index # i) <=> (\A u \in Open : my[u].index # i)
      BY <1>3, <1>13, <3>1
    <3> QED BY <1>12, <3>1, <3>2 DEF Filled
  <2>2. d_pushIndex \notin Filled'
    BY <1>3, <1>13 DEF Filled
  <2>3. Filled \subseteq Places /\ Filled' \subseteq Places'
    BY DEF Filled
  <2> QED BY <1>12, <2>1, <2>2, <2>3
<1>15. PlacesRight'
  <2>1. ASSUME NEW u \in Open', NEW v \in Open', my'[v].index = my'[u].index PROVE v = u
    BY <1>3, <1>12, <1>13, <2>1 DEF QueueInv, PlacesRight
  <2>2. \A u \in Open' : my'[u].index \in Places'
    BY <1>3, <1>12, <1>13
  <2>3. \A u \in Thread : pc'[u] = "look" => my'[u].index + my'[u].num <= d_popIndex'
    BY <1>1, <1>4 DEF SameOthers, QueueInv, PlacesRight
  <2> QED BY <1>1, <1>2, <2>1, <2>2, <2>3 DEF PlacesRight
<1>16. PlacesCounted' /\ ValuesCounted'
  <2>1. /\ Capacity = Rights("push") + (d_pushIndex - d_popIndex) + Done("pop")
        /\ Cardinality(Filled) = Rights("pop") + Done("push")
    BY DEF QueueInv, PlacesCounted, ValuesCounted
  <2>2. Capacity = Rights("push")' + ((d_pushIndex + 1) - d_popIndex) + Done("pop")'
    BY <1>2, <1>11, <2>1
  <2>3. Cardinality(Filled') = Rights("pop")' + Done("push")'
    BY <1>11, <1>14, <2>1
  <2> QED BY <1>1, <2>2, <2>3 DEF PlacesCounted, ValuesCounted
<1>17. RingRight'
  <2>1. SUFFICES ASSUME NEW u \in Thread, pc'[u] = "look"
                 PROVE  Rights("push")' + d_pushIndex' <= my'[u].index + Capacity
    BY DEF RingRight
  <2>2. pc[u] = "look" /\ my'[u] = my[u] /\ my[u].index \in Nat
    BY <1>2, <1>4, <2>1, ThreadTypes DEF SameOthers
  <2>3. Rights("push") + d_pushIndex <= my[u].index + Capacity
    BY <2>2 DEF QueueInv, RingRight
  <2>4. Rights("push")' + (d_pushIndex + 1) = Rights("push") + d_pushIndex
    BY <1>2, <1>11
  <2> QED BY <1>1, <2>2, <2>3, <2>4
<1>18. OrderRight'
  <2>1. SUFFICES ASSUME NEW u \in Open'
                 PROVE  Rights("pop")' <= Cardinality(Before(my[u].index)')
    BY DEF OrderRight
  <2>2. CASE u = t
    <3>1. Before(my[u].index)' = Filled
      <4>1. \A i \in Filled : i < d_pushIndex
        BY <1>2 DEF Filled, Places
      <4> QED BY <1>3, <1>14, <2>2, <4>1 DEF Before
    <3>2. Cardinality(Filled) = Rights("pop") + Done("push")
      BY DEF QueueInv, ValuesCounted
    <3> QED BY <1>11, <3>1, <3>2
  <2>3. CASE u # t
    <3>1. u \in Open /\ my'[u] = my[u]
      BY <1>13, <2>3
    <3>2. Before(my[u].index)' = Before(my[u].index)
      BY <1>14, <3>1 DEF Before
    <3> QED BY <1>11, <3>1, <3>2 DEF QueueInv, OrderRight
  <2> QED BY <2>2, <2>3
<1> QED BY <1>5, <1>7, <1>8, <1>11, <1>15, <1>16, <1>17, <1>18 DEF QueueInv

\* Where a value is constructed no other push is, and no pop looks.
LEMMA Alone ==
    ASSUME QueueInv, NEW t \in Open
    PROVE  /\ my[t].index \in Nat /\ my[t].index \in Places
           /\ \A i \in Places \ {my[t].index} : i % Capacity # my[t].index % Capacity
           /\ \A u \in Thread : pc[u] = "look" =>
                 \A i \in Indices(u) : i % Capacity # my[t].index % Capacity
<1>1. /\ Types /\ t \in Thread /\ my[t].index \in Nat /\ my[t].index \in Places
      /\ d_popIndex \in Nat /\ d_pushIndex \in Nat
      /\ Rights("push") \in Nat /\ Done("pop") \in Nat
      /\ Capacity = Rights("push") + (d_pushIndex - d_popIndex) + Done("pop")
  BY OpenTypes, SumTypes DEF QueueInv, Types, Open, Sides, PlacesCounted
<1>0. Capacity \in Nat /\ Capacity > 0
  BY Constants
<1>2. d_popIndex <= my[t].index /\ my[t].index < d_pushIndex
  BY <1>1 DEF Places
<1>3. d_pushIndex <= d_popIndex + Capacity
  BY <1>0, <1>1
<1>4. ASSUME NEW i \in Places \ {my[t].index} PROVE i % Capacity # my[t].index % Capacity
  <2>1. i \in Nat /\ d_popIndex <= i /\ i < d_pushIndex
    BY <1>1 DEF Places
  <2>2. i < my[t].index \/ my[t].index < i
    BY <1>1, <2>1
  <2>3. PICK k \in Nat : k = my[t].index
    BY <1>1
  <2>4. d_popIndex <= k /\ k < d_pushIndex
    BY <1>2, <2>3
  <2>5. i < k + Capacity /\ k < i + Capacity
    BY <1>0, <1>1, <1>3, <2>1, <2>4
  <2> QED BY <2>1, <2>2, <2>3, <2>5, NoCollision
<1>5. ASSUME NEW u \in Thread, pc[u] = "look", NEW i \in Indices(u)
      PROVE  i % Capacity # my[t].index % Capacity
  <2>1. /\ my[u].index \in Nat /\ my[u].num \in Nat /\ i \in Nat
        /\ my[u].index <= i /\ i < my[u].index + my[u].num
    <3>1. my[u].index \in Nat /\ my[u].num \in Nat /\ Indices(u) \subseteq Nat
      BY <1>1, ThreadTypes
    <3> QED BY <3>1 DEF Indices
  <2>2. /\ my[u].index + my[u].num <= d_popIndex
        /\ Rights("push") + d_pushIndex <= my[u].index + Capacity
    BY <1>5 DEF QueueInv, PlacesRight, RingRight
  <2>3. i < my[t].index
    BY <1>1, <1>2, <2>1, <2>2
  <2>4. my[t].index < i + Capacity
    <3>1. PICK k \in Nat, n \in Nat : k = my[t].index /\ n = my[u].index
      BY <1>1, <2>1
    <3>2. d_pushIndex <= n + Capacity
      BY <1>0, <1>1, <2>2, <3>1
    <3>3. k < d_pushIndex /\ n <= i
      BY <1>2, <2>1, <3>1
    <3>4. k < i + Capacity
      BY <1>0, <1>1, <2>1, <3>2, <3>3
    <3> QED BY <3>1, <3>4
  <2> QED BY <1>1, <2>1, <2>3, <2>4, NoCollision
<1> QED BY <1>1, <1>4, <1>5

LEMMA SetFlagKeeps ==
    ASSUME QueueInv, NEW t \in Thread, setIsUnconstructed(t)
    PROVE  QueueInv'
<1>1. /\ pc[t] = "flag" /\ t \in Open
      /\ d_element' = [d_element EXCEPT ![my[t].index % Capacity].unconstructed = TRUE]
      /\ Goto(t, "construct") /\ my' = my
      /\ UNCHANGED <<sem, count, d_pushIndex, d_popIndex, waiters>>
  BY DEF setIsUnconstructed, OnlyQueue, Open
<1>2. /\ Types /\ CallRight(t) /\ LocalRight(t) /\ op(t) \in Pushes /\ op(t) # "removeAll"
      /\ Side(t) = "push" /\ "push" \in Sides /\ Other("push") = "pop" /\ my[t].num = 1
      /\ d_pushIndex \in Nat /\ d_popIndex \in Nat
  <2>1. CallRight(t) /\ LocalRight(t)
    BY DEF QueueInv, ThreadsRight
  <2>2. op(t) \in Pushes /\ op(t) # "removeAll"
    BY <1>1, <2>1 DEF CallRight, Pushes
  <2>3. my[t].num = 1
    BY <1>1, <2>1, <2>2 DEF LocalRight
  <2> QED BY <2>1, <2>2, <2>3 DEF QueueInv, Types, Side, Sides, Other
<1>3. PICK k \in Nat, j \in 0 .. Capacity - 1 : k = my[t].index /\ j = my[t].index % Capacity
  BY <1>1, Alone, Modulus
<1>4. /\ d_element' \in [0 .. Capacity - 1 ->
                            [unconstructed : BOOLEAN, val : Value \cup {NoValue}]]
      /\ d_element'[j].unconstructed
      /\ \A i \in 0 .. Capacity - 1 : i # j => d_element'[i] = d_element[i]
  <2>1. PICK new : new = [d_element[j] EXCEPT !.unconstructed = TRUE]
    OBVIOUS
  <2>2. /\ new \in [unconstructed : BOOLEAN, val : Value \cup {NoValue}]
        /\ new.unconstructed
    BY <1>2, <2>1 DEF Types
  <2>3. d_element' = [d_element EXCEPT ![j] = new]
    BY <1>1, <1>3, <2>1
  <2> QED BY <1>2, <2>2, <2>3 DEF Types
<1>5. \A i \in Nat : i % Capacity # j => d_element'[i % Capacity] = d_element[i % Capacity]
  BY <1>4, Modulus
<1>6. /\ SameOthers(t) /\ pc'[t] = "construct" /\ pc' \in [Thread -> Labels]
      /\ step' \in [Thread -> Nat] /\ script' \in Scripts
      /\ out' \in [Thread -> Value \cup {NoValue}]
      /\ op(t)' = op(t) /\ Side(t)' = "push"
      /\ step'[t] = step[t] /\ script' = script
  <2>1. "construct" \in Labels
    BY DEF Labels
  <2> QED BY <1>1, <1>2, <2>1, GotoFrame
<1>7. Types' /\ WaiterTypes'
  BY <1>1, <1>2, <1>4, <1>6, WaitersSame DEF Types
<1>8. CallRight(t)'
  BY <1>1, <1>2, <1>6 DEF CallRight
<1>9. LocalRight(t)'
  BY <1>1, <1>2, <1>3, <1>4, <1>6 DEF LocalRight, Node
<1>10. ThreadsRight'
  <2>1. ASSUME NEW u \in Thread \ {t}, pc[u] = "construct"
        PROVE  d_element'[my[u].index % Capacity].unconstructed
                 = d_element[my[u].index % Capacity].unconstructed
    <3>1. u \in Open /\ my[u].index \in Nat /\ my[u].index \in Places
      BY <2>1, OpenTypes DEF Open
    <3>2. my[u].index # my[t].index
      BY <1>1, <3>1 DEF QueueInv, PlacesRight
    <3>3. my[u].index % Capacity # j
      BY <1>1, <1>3, <3>1, <3>2, Alone
    <3> QED BY <1>5, <3>1, <3>3
  <2> QED BY <1>6, <1>8, <1>9, <2>1, OthersRight
<1>11. SwapRight'
  BY <1>1, <1>6, SwapKept DEF isQuiescentState
<1>12. \A u \in Thread \ {t} : pc[u] = "look" => Skipped(u)' = Skipped(u)
  <2>1. ASSUME NEW u \in Thread \ {t}, pc[u] = "look" PROVE Skipped(u)' = Skipped(u)
    <3>1. Indices(u)' = Indices(u) /\ Indices(u) \subseteq Nat
      BY <1>1, <1>2, ThreadTypes DEF Indices
    <3>2. \A i \in Indices(u) : d_element'[i % Capacity] = d_element[i % Capacity]
      BY <1>1, <1>3, <1>5, <2>1, <3>1, Alone
    <3> QED BY <3>1, <3>2 DEF Skipped, Node
  <2> QED BY <2>1
<1>13. /\ Wants("push", t) = 0 /\ Holds("push", t) = 0 /\ Owes("push", t) = 0
       /\ Unfinished("push", t) = 1
       /\ Wants("push", t)' = 0 /\ Holds("push", t)' = 0 /\ Owes("push", t)' = 0
       /\ Unfinished("push", t)' = 1
  BY <1>1, <1>2, <1>6 DEF Wants, Holds, Owes, Unfinished, RemoveAll
<1>14. /\ Rights("push")' = Rights("push") /\ Done("push")' = Done("push")
       /\ Rights("pop")' = Rights("pop") /\ Done("pop")' = Done("pop") /\ Counted'
  <2>1. /\ Rights("push")' = Rights("push") - 0 + 0 /\ Done("push")' = Done("push") - 0 + 0
        /\ Rights("pop")' = Rights("pop") /\ Done("pop")' = Done("pop")
        /\ \A q \in Sides : Rights(q) \in Nat /\ Done(q) \in Nat
        /\ Counted'
    BY <1>1, <1>2, <1>6, <1>7, <1>12, <1>13, Accounts
  <2> QED BY <1>2, <2>1
<1>15. Places' = Places /\ Places \subseteq Nat
  BY <1>1, <1>2 DEF Places
<1>16. Open' = Open
  BY <1>1, <1>6 DEF Open, SameOthers
<1>17. Filled' = Filled
  <2>1. ASSUME NEW i \in Places PROVE i \in Filled' <=> i \in Filled
    <3>1. CASE i = k
      BY <1>1, <1>3, <1>16, <3>1 DEF Filled
    <3>2. CASE i # k
      <4>1. i \in Nat /\ i % Capacity # j
        BY <1>1, <1>3, <1>15, <3>2, Alone
      <4>2. d_element'[i % Capacity] = d_element[i % Capacity]
        BY <1>5, <4>1
      <4> QED BY <1>1, <1>15, <1>16, <4>2 DEF Filled, Node
    <3> QED BY <3>1, <3>2
  <2> QED BY <1>15, <2>1 DEF Filled
<1>18. PlacesRight'
  BY <1>1, <1>6, <1>15, <1>16 DEF QueueInv, PlacesRight, SameOthers
<1>19. PlacesCounted' /\ ValuesCounted'
  BY <1>1, <1>14, <1>17 DEF QueueInv, PlacesCounted, ValuesCounted
<1>20. RingRight'
  BY <1>1, <1>6, <1>14 DEF QueueInv, RingRight, SameOthers
<1>21. OrderRight'
  <2>1. ASSUME NEW u \in Open
        PROVE  Rights("pop")' <= Cardinality(Before(my[u].index)')
    <3>1. Before(my[u].index)' = Before(my[u].index)
      BY <1>1, <1>17 DEF Before
    <3> QED BY <1>14, <3>1 DEF QueueInv, OrderRight
  <2> QED BY <1>16, <2>1 DEF OrderRight
<1> QED BY <1>7, <1>10, <1>11, <1>14, <1>18, <1>19, <1>20, <1>21 DEF QueueInv

LEMMA CallTypes ==
    ASSUME Types, NEW t \in Thread, step[t] < Len(script[t]), op(t) \in Pushes
    PROVE  NextCall(t).val \in Value
<1>1. script[t] \in Seq(Calls) /\ step[t] \in Nat
  BY Constants DEF Types
<1>2. step[t] + 1 \in 1 .. Len(script[t])
  BY <1>1
<1>3. NextCall(t) \in Calls
  BY <1>1, <1>2 DEF NextCall
<1>4. \A c \in Calls : c.op \in Pushes => c.val \in Value
  <2>1. ASSUME NEW o \in Pops \cup OtherCalls, NEW b \in BOOLEAN
        PROVE  Call(o, NoValue, b).op \notin Pushes
    BY DEF Call, Pops, OtherCalls, Pushes
  <2>2. ASSUME NEW o \in Pushes, NEW v \in Value, NEW b \in BOOLEAN
        PROVE  Call(o, v, b).val \in Value
    BY DEF Call
  <2> QED BY <2>1, <2>2 DEF Calls
<1> QED BY <1>3, <1>4 DEF op

LEMMA PlacesFinite ==
    ASSUME Types
    PROVE  /\ IsFiniteSet(Places) /\ Filled \subseteq Places /\ IsFiniteSet(Filled)
           /\ Cardinality(Filled) \in Nat
           /\ d_popIndex <= d_pushIndex => Cardinality(Filled) <= d_pushIndex - d_popIndex
           /\ \A k \in Nat : /\ IsFiniteSet(Before(k)) /\ Cardinality(Before(k)) \in Nat
                             /\ Before(k) \subseteq d_popIndex .. k - 1
<1>1. d_popIndex \in Nat /\ d_pushIndex \in Nat
  BY DEF Types
<1>2. IsFiniteSet(Places)
  <2>1. d_popIndex \in Int /\ d_pushIndex - 1 \in Int
    BY <1>1
  <2> QED BY <2>1, FS_Interval DEF Places
<1>3. Filled \subseteq Places /\ IsFiniteSet(Filled) /\ Cardinality(Filled) \in Nat
  BY <1>2, FS_Subset, FS_CardinalityType DEF Filled
<1>4. ASSUME d_popIndex <= d_pushIndex
      PROVE  Cardinality(Filled) <= d_pushIndex - d_popIndex
  <2>1. PICK n \in Nat : n = d_pushIndex - d_popIndex
    BY <1>1, <1>4
  <2>2. d_popIndex + n - 1 = d_pushIndex - 1
    BY <1>1, <2>1
  <2>3. Filled \in SUBSET (d_popIndex .. d_popIndex + n - 1)
    BY <1>3, <2>2 DEF Places
  <2> QED BY <1>1, <2>1, <2>3, RangeSize
<1>5. ASSUME NEW k \in Nat
      PROVE  /\ IsFiniteSet(Before(k)) /\ Cardinality(Before(k)) \in Nat
             /\ Before(k) \subseteq d_popIndex .. k - 1
  <2>1. Before(k) \subseteq Filled
    BY DEF Before
  <2>2. ASSUME NEW i \in Before(k) PROVE i \in d_popIndex .. k - 1
    <3>1. i \in d_popIndex .. d_pushIndex - 1 /\ i < k
      BY <1>3 DEF Before, Places
    <3>2. i \in Int /\ d_popIndex <= i /\ i <= k - 1
      BY <1>1, <3>1
    <3> QED BY <1>1, <3>2
  <2> QED BY <1>3, <2>1, <2>2, FS_Subset, FS_CardinalityType
<1> QED BY <1>2, <1>3, <1>4, <1>5

LEMMA ThrowKeeps ==
    ASSUME QueueInv, NEW t \in Thread, pc[t] = "construct", Goto(t, "fail"),
           UNCHANGED <<sem, count, d_pushIndex, d_popIndex, d_element, my, waiters>>
    PROVE  QueueInv'
<1>1. /\ Types /\ CallRight(t) /\ LocalRight(t) /\ op(t) \in Pushes
      /\ Side(t) = "push" /\ "push" \in Sides /\ Other("push") = "pop" /\ my[t].num = 1
      /\ Node(my[t].index).unconstructed
  <2>1. CallRight(t) /\ LocalRight(t)
    BY DEF QueueInv, ThreadsRight
  <2>2. op(t) \in Pushes /\ op(t) # "removeAll"
    BY <2>1 DEF CallRight, Pushes
  <2>3. my[t].num = 1 /\ Node(my[t].index).unconstructed
    BY <2>1, <2>2 DEF LocalRight
  <2> QED BY <2>1, <2>2, <2>3 DEF QueueInv, Side, Sides, Other
<1>2. /\ SameOthers(t) /\ pc'[t] = "fail" /\ pc' \in [Thread -> Labels]
      /\ step' \in [Thread -> Nat] /\ script' \in Scripts
      /\ out' \in [Thread -> Value \cup {NoValue}]
      /\ op(t)' = op(t) /\ Side(t)' = "push"
      /\ step'[t] = step[t] /\ script' = script
  <2>1. "fail" \in Labels
    BY DEF Labels
  <2> QED BY <1>1, <2>1, GotoFrame
<1>3. Types' /\ WaiterTypes'
  BY <1>1, <1>2, WaitersSame DEF Types
<1>4. CallRight(t)' /\ LocalRight(t)'
  BY <1>1, <1>2 DEF CallRight, LocalRight
<1>5. SwapRight'
  BY <1>2, SwapKept DEF isQuiescentState
<1>6. /\ Wants("push", t) = 0 /\ Holds("push", t) = 0 /\ Owes("push", t) = 0
      /\ Unfinished("push", t) = 1
      /\ Wants("push", t)' = 0 /\ Holds("push", t)' = 0 /\ Owes("push", t)' = 0
      /\ Unfinished("push", t)' = 1
  BY <1>1, <1>2 DEF Wants, Holds, Owes, Unfinished, RemoveAll
<1>7. Apart("pop", t) /\ Apart("pop", t)'
  BY <1>1, <1>2, ApartBoth
<1>8. Moves("push", t)
  BY <1>1, <1>6, <1>7 DEF Moves
<1>9. SameFlags /\ pc'[t] \notin {"flag", "construct", "look"}
  BY <1>2 DEF SameFlags
<1> QED BY <1>1, <1>2, <1>3, <1>4, <1>5, <1>8, <1>9, Balance

LEMMA ConstructKeeps ==
    ASSUME QueueInv, NEW t \in Thread, construct(t)
    PROVE  QueueInv'
<1>1. /\ pc[t] = "construct" /\ t \in Open /\ my' = my
      /\ UNCHANGED <<sem, count, d_pushIndex, d_popIndex, waiters>>
  BY DEF construct, OnlyQueue, Open
<1>2. CASE Goto(t, "fail") /\ UNCHANGED d_element
  BY <1>1, <1>2, ThrowKeeps
<1>3. CASE /\ d_element' = [d_element EXCEPT ![my[t].index % Capacity] =
                               [unconstructed |-> FALSE, val |-> NextCall(t).val]]
           /\ Goto(t, "finish")
  <2>1. /\ Types /\ CallRight(t) /\ LocalRight(t) /\ op(t) \in Pushes /\ op(t) # "removeAll"
        /\ Side(t) = "push" /\ "push" \in Sides /\ Other("push") = "pop" /\ my[t].num = 1
        /\ d_pushIndex \in Nat /\ d_popIndex \in Nat
        /\ NextCall(t).val \in Value
    <3>1. CallRight(t) /\ LocalRight(t)
      BY DEF QueueInv, ThreadsRight
    <3>2. op(t) \in Pushes /\ op(t) # "removeAll" /\ step[t] < Len(script[t])
      BY <1>1, <3>1 DEF CallRight, Pushes
    <3>3. my[t].num = 1
      BY <1>1, <3>1, <3>2 DEF LocalRight
    <3>4. NextCall(t).val \in Value
      BY <3>2, CallTypes DEF QueueInv
    <3> QED BY <3>1, <3>2, <3>3, <3>4 DEF QueueInv, Types, Side, Sides, Other
  <2>2. PICK k \in Nat, j \in 0 .. Capacity - 1 : k = my[t].index /\ j = my[t].index % Capacity
    BY <1>1, Alone, Modulus
  <2>3. /\ d_element' \in [0 .. Capacity - 1 ->
                              [unconstructed : BOOLEAN, val : Value \cup {NoValue}]]
        /\ ~d_element'[j].unconstructed
        /\ \A i \in 0 .. Capacity - 1 : i # j => d_element'[i] = d_element[i]
    BY <1>3, <2>1, <2>2 DEF Types
  <2>4. \A i \in Nat : i % Capacity # j => d_element'[i % Capacity] = d_element[i % Capacity]
    BY <2>3, Modulus
  <2>5. /\ SameOthers(t) /\ pc'[t] = "finish" /\ pc' \in [Thread -> Labels]
        /\ step' \in [Thread -> Nat] /\ script' \in Scripts
        /\ out' \in [Thread -> Value \cup {NoValue}]
        /\ op(t)' = op(t) /\ Side(t)' = "push"
        /\ step'[t] = step[t] /\ script' = script
    <3>1. "finish" \in Labels
      BY DEF Labels
    <3> QED BY <1>1, <1>3, <2>1, <3>1, GotoFrame
  <2>6. Types' /\ WaiterTypes'
    BY <1>1, <2>1, <2>3, <2>5, WaitersSame DEF Types
  <2>7. CallRight(t)' /\ LocalRight(t)'
    BY <1>1, <2>1, <2>5 DEF CallRight, LocalRight
  <2>8. ThreadsRight'
    <3>1. ASSUME NEW u \in Thread \ {t}, pc[u] = "construct"
          PROVE  d_element'[my[u].index % Capacity].unconstructed
                   = d_element[my[u].index % Capacity].unconstructed
      <4>1. u \in Open /\ my[u].index \in Nat /\ my[u].index \in Places
        BY <3>1, OpenTypes DEF Open
      <4>2. my[u].index # my[t].index
        BY <1>1, <4>1 DEF QueueInv, PlacesRight
      <4>3. my[u].index % Capacity # j
        BY <1>1, <2>2, <4>1, <4>2, Alone
      <4> QED BY <2>4, <4>1, <4>3
    <3> QED BY <2>5, <2>7, <3>1, OthersRight
  <2>9. SwapRight'
    BY <1>1, <2>5, SwapKept DEF isQuiescentState
  <2>10. \A u \in Thread \ {t} : pc[u] = "look" => Skipped(u)' = Skipped(u)
    <3>1. ASSUME NEW u \in Thread \ {t}, pc[u] = "look" PROVE Skipped(u)' = Skipped(u)
      <4>1. Indices(u)' = Indices(u) /\ Indices(u) \subseteq Nat
        BY <1>1, <2>1, ThreadTypes DEF Indices
      <4>2. \A i \in Indices(u) : d_element'[i % Capacity] = d_element[i % Capacity]
        BY <1>1, <2>2, <2>4, <3>1, <4>1, Alone
      <4> QED BY <4>1, <4>2 DEF Skipped, Node
    <3> QED BY <3>1
  <2>11. /\ Wants("push", t) = 0 /\ Holds("push", t) = 0 /\ Owes("push", t) = 0
         /\ Unfinished("push", t) = 1
         /\ Wants("push", t)' = 0 /\ Holds("push", t)' = 1 /\ Owes("push", t)' = 0
         /\ Unfinished("push", t)' = 1
    BY <1>1, <2>1, <2>5 DEF Wants, Holds, Owes, Unfinished, RemoveAll
  <2>12. /\ Rights("push")' = Rights("push") /\ Done("push")' = Done("push") + 1
         /\ Rights("pop")' = Rights("pop") /\ Done("pop")' = Done("pop") /\ Counted'
         /\ Rights("pop") \in Nat /\ Done("push") \in Nat
    <3>1. /\ Rights("push")' = Rights("push") - 0 + 0 /\ Done("push")' = Done("push") - 0 + 1
          /\ Rights("pop")' = Rights("pop") /\ Done("pop")' = Done("pop")
          /\ \A q \in Sides : Rights(q) \in Nat /\ Done(q) \in Nat
          /\ Counted'
      BY <1>1, <2>1, <2>5, <2>6, <2>10, <2>11, Accounts
    <3> QED BY <3>1 DEF Sides
  <2>13. Places' = Places /\ Places \subseteq Nat /\ k \in Places
    BY <1>1, <2>1, <2>2, Alone DEF Places
  <2>14. Open' = Open \ {t} /\ \A u \in Open : my[u].index = k => u = t
    BY <1>1, <2>2, <2>5 DEF Open, SameOthers, QueueInv, PlacesRight
  <2>15. Filled' = Filled \cup {k} /\ k \notin Filled
    <3>1. ASSUME NEW i \in Places, i # k PROVE i \in Filled' <=> i \in Filled
      <4>1. i \in Nat /\ i % Capacity # j
        BY <1>1, <2>2, <2>13, <3>1, Alone
      <4>2. d_element'[i % Capacity] = d_element[i % Capacity]
        BY <2>4, <4>1
      <4>3. (\A u \in Open' : my[u].index # i) <=> (\A u \in Open : my[u].index # i)
        BY <2>2, <2>14, <3>1
      <4> QED BY <1>1, <2>13, <4>2, <4>3 DEF Filled, Node
    <3>2. k \in Filled'
      BY <1>1, <2>2, <2>3, <2>13, <2>14 DEF Filled, Node
    <3>3. k \notin Filled
      BY <1>1, <2>2 DEF Filled
    <3>4. Filled \subseteq Places /\ Filled' \subseteq Places'
      BY DEF Filled
    <3> QED BY <2>13, <3>1, <3>2, <3>3, <3>4
  <2>16. PlacesRight'
    BY <1>1, <2>5, <2>13, <2>14 DEF QueueInv, PlacesRight, SameOthers
  <2>17. PlacesCounted' /\ ValuesCounted'
    <3>1. PlacesCounted'
      BY <1>1, <2>12 DEF QueueInv, PlacesCounted
    <3>2. Cardinality(Filled) = Rights("pop") + Done("push")
      BY DEF QueueInv, ValuesCounted
    <3>3. Cardinality(Filled') = Cardinality(Filled) + 1
      BY <2>1, <2>15, PlacesFinite, FS_AddElement
    <3>4. Cardinality(Filled') = Rights("pop")' + Done("push")'
      BY <2>12, <3>2, <3>3
    <3> QED BY <3>1, <3>4 DEF ValuesCounted
  <2>18. RingRight'
    BY <1>1, <2>5, <2>12 DEF QueueInv, RingRight, SameOthers
  <2>19. OrderRight'
    <3>1. ASSUME NEW u \in Open'
          PROVE  Rights("pop")' <= Cardinality(Before(my[u].index)')
      <4>1. u \in Open /\ u \in Thread /\ my[u].index \in Nat
        BY <2>14, OpenTypes DEF Open
      <4>2. PICK i \in Nat : i = my[u].index
        BY <4>1
      <4>3. Before(i) \subseteq Before(i)'
        BY <2>15 DEF Before
      <4>4. IsFiniteSet(Filled')
        BY <2>1, <2>15, PlacesFinite, FS_AddElement
      <4>5. IsFiniteSet(Before(i)')
        <5>1. Before(i)' \subseteq Filled'
          BY DEF Before
        <5> QED BY <4>4, <5>1, FS_Subset
      <4>6. /\ Cardinality(Before(i)) <= Cardinality(Before(i)')
            /\ Cardinality(Before(i)) \in Nat /\ Cardinality(Before(i)') \in Nat
        BY <2>1, <4>3, <4>5, PlacesFinite, FS_Subset, FS_CardinalityType
      <4>7. Rights("pop") <= Cardinality(Before(i))
        BY <4>1, <4>2 DEF QueueInv, OrderRight
      <4>8. Rights("pop")' <= Cardinality(Before(i)')
        BY <2>12, <4>6, <4>7
      <4>9. Before(my[u].index)' = Before(i)'
        BY <1>1, <4>2 DEF Before
      <4> QED BY <4>8, <4>9
    <3> QED BY <3>1 DEF OrderRight
  <2> QED BY <2>6, <2>8, <2>9, <2>12, <2>16, <2>17, <2>18, <2>19 DEF QueueInv
<1> QED BY <1>2, <1>3 DEF construct

LEMMA PopIndexKeeps ==
    ASSUME QueueInv, NEW t \in Thread, popIndex(t)
    PROVE  QueueInv'
<1>1. /\ pc[t] = "index" /\ Side(t) = "pop"
      /\ my' = [my EXCEPT ![t].index = d_popIndex]
      /\ d_popIndex' = d_popIndex + my[t].num
      /\ Goto(t, "look")
      /\ UNCHANGED <<sem, count, d_pushIndex, d_element, waiters>>
  BY DEF popIndex, OnlyQueue
<1>2. PICK n \in Nat, i0 \in Nat : n = my[t].num /\ i0 = d_popIndex
  BY ThreadTypes DEF QueueInv, Types
<1>3. /\ Types /\ CallRight(t) /\ LocalRight(t) /\ op(t) \in Pops \cup {"removeAll"}
      /\ "pop" \in Sides /\ Other("pop") = "push" /\ "push" \in Sides
      /\ d_pushIndex \in Nat /\ i0 <= d_pushIndex
  <2>1. CallRight(t) /\ LocalRight(t)
    BY DEF QueueInv, ThreadsRight
  <2>2. op(t) \in Pops \cup {"removeAll"}
    BY <1>1, <2>1 DEF CallRight, Side
  <2> QED BY <1>2, <2>1, <2>2 DEF QueueInv, Types, PlacesRight, Sides, Other
<1> DEFINE T == i0 .. i0 + n - 1
           skip == {i \in T : Node(i).unconstructed}
<1>4. /\ my' \in [Thread -> Locals] /\ my'[t].index = i0 /\ my'[t].num = n
      /\ \A u \in Thread \ {t} : my'[u] = my[u]
  BY <1>1, <1>2, <1>3, ZenonT(30) DEF Types, Locals
<1>5. /\ SameOthers(t) /\ pc'[t] = "look" /\ pc' \in [Thread -> Labels]
      /\ step' \in [Thread -> Nat] /\ script' \in Scripts
      /\ out' \in [Thread -> Value \cup {NoValue}]
      /\ op(t)' = op(t) /\ Side(t)' = "pop"
      /\ step'[t] = step[t] /\ script' = script
  <2>1. "look" \in Labels
    BY DEF Labels
  <2> QED BY <1>1, <1>3, <1>4, <2>1, GotoFrame
<1>6. Types' /\ WaiterTypes'
  <2>1. d_popIndex' \in Nat
    BY <1>1, <1>2
  <2> QED BY <1>1, <1>3, <1>4, <1>5, <2>1, WaitersSame DEF Types
<1>7. CallRight(t)' /\ LocalRight(t)'
  BY <1>1, <1>2, <1>3, <1>4, <1>5 DEF CallRight, LocalRight
<1>8. ThreadsRight'
  BY <1>1, <1>5, <1>7, OthersRight
<1>9. SwapRight'
  BY <1>1, <1>5, SwapKept DEF isQuiescentState
<1>10. \A u \in Thread \ {t} : pc[u] = "look" => Skipped(u)' = Skipped(u)
  BY <1>1, <1>4 DEF Skipped, Indices, Node
<1>11. Skipped(t)' = skip
  BY <1>1, <1>4 DEF Skipped, Indices, Node
<1>12. /\ IsFiniteSet(T) /\ Cardinality(T) = n
       /\ Cardinality(skip) \in Nat /\ Cardinality(skip) <= n /\ IsFiniteSet(skip)
       /\ T \subseteq Nat
  <2>1. i0 \in Int /\ i0 + n - 1 \in Int
    OBVIOUS
  <2>2. IsFiniteSet(T) /\ Cardinality(T) = IF i0 > i0 + n - 1 THEN 0 ELSE (i0 + n - 1) - i0 + 1
    BY <2>1, FS_Interval
  <2>3. Cardinality(T) = n
    BY <2>2
  <2>4. skip \in SUBSET T
    OBVIOUS
  <2>5. IsFiniteSet(skip) /\ Cardinality(skip) \in Nat /\ Cardinality(skip) <= n
    BY <2>2, <2>4, RangeSize, FS_Subset
  <2> QED BY <2>2, <2>3, <2>5
<1> HIDE DEF skip
<1>13. /\ Wants("pop", t) = n /\ Holds("pop", t) = 0 /\ Owes("pop", t) = 0
       /\ Unfinished("pop", t) = n
       /\ Wants("pop", t)' = Cardinality(skip) /\ Holds("pop", t)' = n
       /\ Owes("pop", t)' = 0 /\ Unfinished("pop", t)' = n
  BY <1>1, <1>2, <1>4, <1>5, <1>11 DEF Wants, Holds, Owes, Unfinished
<1>14. /\ Rights("pop")' = Rights("pop") - n + Cardinality(skip)
       /\ Done("pop")' = Done("pop") + n
       /\ Rights("push")' = Rights("push") /\ Done("push")' = Done("push")
       /\ Rights("push") \in Nat /\ Done("push") \in Nat
       /\ Rights("pop") \in Nat /\ Done("pop") \in Nat
       /\ n <= Rights("pop") /\ Counted'
  <2>1. /\ Rights("pop")' = Rights("pop") - n + Cardinality(skip)
        /\ Done("pop")' = Done("pop") - 0 + n
        /\ Rights("push")' = Rights("push") /\ Done("push")' = Done("push")
        /\ \A q \in Sides : Rights(q) \in Nat /\ Done(q) \in Nat
        /\ n <= Rights("pop") /\ Counted'
    BY <1>1, <1>3, <1>5, <1>6, <1>10, <1>13, Accounts
  <2>2. /\ Rights("push") \in Nat /\ Done("push") \in Nat
        /\ Rights("pop") \in Nat /\ Done("pop") \in Nat
    BY <1>3, <2>1
  <2>3. Done("pop") - 0 + n = Done("pop") + n
    BY <2>2
  <2> QED BY <2>1, <2>2, <2>3
<1>15. /\ Capacity = Rights("push") + (d_pushIndex - i0) + Done("pop")
       /\ Cardinality(Filled) = Rights("pop") + Done("push")
       /\ Cardinality(Filled) \in Nat /\ Cardinality(Filled) <= d_pushIndex - i0
  BY <1>2, <1>3, PlacesFinite DEF QueueInv, PlacesCounted, ValuesCounted
<1>16. i0 + n <= d_pushIndex
  <2>1. n <= Cardinality(Filled)
    BY <1>14, <1>15
  <2> QED BY <1>3, <1>15, <2>1
<1>17. /\ Places = i0 .. d_pushIndex - 1 /\ Places' = (i0 + n) .. d_pushIndex - 1
       /\ T \subseteq Places /\ Places' = Places \ T
  <2>1. Places = i0 .. d_pushIndex - 1 /\ Places' = (i0 + n) .. d_pushIndex - 1
    BY <1>1, <1>2 DEF Places
  <2>2. T \subseteq i0 .. d_pushIndex - 1
    BY <1>3, <1>16
  <2>3. (i0 + n) .. d_pushIndex - 1 = (i0 .. d_pushIndex - 1) \ T
    BY <1>3, <1>16
  <2> QED BY <2>1, <2>2, <2>3
<1>18. /\ Open' = Open /\ t \notin Open
       /\ \A u \in Open : /\ u \in Thread /\ my'[u] = my[u] /\ my[u].index \in Nat
                          /\ i0 + n <= my[u].index /\ my[u].index \in Places'
  <2>1. Open' = Open /\ t \notin Open /\ \A u \in Open : u \in Thread /\ my'[u] = my[u]
    BY <1>1, <1>4, <1>5 DEF Open, SameOthers
  <2>2. ASSUME NEW u \in Open
        PROVE  my[u].index \in Nat /\ i0 + n <= my[u].index /\ my[u].index \in Places'
    <3>1. PICK k \in Nat : k = my[u].index
      BY <2>1, OpenTypes
    <3>2. k \in Places
      BY <2>1, <3>1, OpenTypes
    <3>3. i0 <= k /\ k <= d_pushIndex - 1
      BY <1>3, <1>17, <3>2
    <3>4. PICK m \in Nat : m = k - i0
      BY <3>3
    <3>5. Before(k) \in SUBSET (i0 .. i0 + m - 1)
      <4>1. i0 + m - 1 = k - 1
        BY <3>4
      <4> QED BY <1>2, <1>3, <4>1, PlacesFinite
    <3>6. Cardinality(Before(k)) \in Nat /\ Cardinality(Before(k)) <= m
      BY <3>5, RangeSize
    <3>7. Rights("pop") <= Cardinality(Before(k))
      BY <3>1 DEF QueueInv, OrderRight
    <3>8. i0 + n <= k
      BY <1>14, <3>4, <3>6, <3>7
    <3>9. k \in Places'
      BY <1>3, <1>17, <3>3, <3>8
    <3> QED BY <3>1, <3>8, <3>9
  <2> QED BY <2>1, <2>2
<1>19. Filled' = Filled \ T /\ Filled \cap T = T \ skip
  <2>1. ASSUME NEW i \in Places' PROVE i \in Filled' <=> i \in Filled
    BY <1>1, <1>17, <1>18 DEF Filled, Node
  <2>2. ASSUME NEW i \in T PROVE i \in Filled <=> ~Node(i).unconstructed
    <3>1. \A u \in Open : my[u].index # i
      BY <1>18
    <3> QED BY <1>17, <3>1 DEF Filled
  <2>3. Filled \subseteq Places /\ Filled' \subseteq Places'
    BY DEF Filled
  <2>4. Filled' = Filled \ T
    BY <1>17, <2>1, <2>3
  <2>5. Filled \cap T = T \ skip
    BY <2>2 DEF skip
  <2> QED BY <2>4, <2>5
<1>20. Cardinality(T \ skip) = n - Cardinality(skip)
  <2>1. T \cap skip = skip
    BY DEF skip
  <2>2. Cardinality(T \ skip) = Cardinality(T) - Cardinality(T \cap skip)
    BY <1>12, FS_Difference
  <2> HIDE DEF T
  <2> QED BY <1>12, <2>1, <2>2
<1> HIDE DEF T
<1>21. \A u \in Open : Cardinality(Before(my[u].index)') =
                          Cardinality(Before(my[u].index)) - (n - Cardinality(skip))
  <2>1. SUFFICES ASSUME NEW u \in Open, NEW k \in Nat, k = my[u].index
                 PROVE  Cardinality(Before(k)') =
                           Cardinality(Before(k)) - (n - Cardinality(skip))
    BY <1>18 DEF Before
  <2>2. Before(k)' = Before(k) \ T
    BY <1>19 DEF Before
  <2>3. Before(k) \cap T = T \ skip
    <3>1. \A i \in T : i < k
      BY <1>18, <2>1 DEF T
    <3> QED BY <1>19, <3>1 DEF Before
  <2>4. Cardinality(Before(k) \ T) = Cardinality(Before(k)) - Cardinality(Before(k) \cap T)
    BY <1>3, PlacesFinite, FS_Difference
  <2> QED BY <1>20, <2>2, <2>3, <2>4
<1>22. Cardinality(Filled') = Cardinality(Filled) - (n - Cardinality(skip))
  <2>1. Cardinality(Filled \ T) = Cardinality(Filled) - Cardinality(Filled \cap T)
    BY <1>3, PlacesFinite, FS_Difference
  <2> QED BY <1>19, <1>20, <2>1
<1>23. PlacesRight'
  <2>1. \A u \in Open' : my'[u].index \in Places'
    BY <1>18
  <2>2. \A u \in Open', v \in Open' : my'[v].index = my'[u].index => v = u
    BY <1>18 DEF QueueInv, PlacesRight
  <2>3. ASSUME NEW u \in Thread, pc'[u] = "look"
        PROVE  my'[u].index + my'[u].num <= d_popIndex'
    <3>1. CASE u = t
      BY <1>1, <1>2, <1>4, <3>1
    <3>2. CASE u # t
      <4>1. pc[u] = "look" /\ my'[u] = my[u] /\ my[u].index \in Nat /\ my[u].num \in Nat
        BY <1>3, <1>5, <2>3, <3>2, ThreadTypes DEF SameOthers
      <4>2. my[u].index + my[u].num <= i0
        BY <1>2, <4>1 DEF QueueInv, PlacesRight
      <4> QED BY <1>1, <1>2, <4>1, <4>2
    <3> QED BY <3>1, <3>2
  <2>4. d_popIndex' <= d_pushIndex'
    BY <1>1, <1>2, <1>16
  <2> QED BY <2>1, <2>2, <2>3, <2>4 DEF PlacesRight
<1>24. PlacesCounted' /\ ValuesCounted'
  <2>1. Capacity = Rights("push")' + (d_pushIndex - (i0 + n)) + Done("pop")'
    BY <1>3, <1>14, <1>15
  <2>2. Cardinality(Filled') = Rights("pop")' + Done("push")'
    BY <1>12, <1>14, <1>15, <1>22
  <2> QED BY <1>1, <1>2, <2>1, <2>2 DEF PlacesCounted, ValuesCounted
<1>25. RingRight'
  <2>1. SUFFICES ASSUME NEW u \in Thread, pc'[u] = "look"
                 PROVE  Rights("push")' + d_pushIndex' <= my'[u].index + Capacity
    BY DEF RingRight
  <2>2. CASE u = t
    <3>1. Rights("push") + d_pushIndex <= i0 + Capacity
      <4>1. Capacity \in Nat
        BY Constants
      <4> QED BY <1>3, <1>14, <1>15, <4>1
    <3> QED BY <1>1, <1>4, <1>14, <2>2, <3>1
  <2>3. CASE u # t
    <3>1. pc[u] = "look" /\ my'[u] = my[u]
      BY <1>5, <2>1, <2>3 DEF SameOthers
    <3> QED BY <1>1, <1>14, <3>1 DEF QueueInv, RingRight
  <2> QED BY <2>2, <2>3
<1>26. OrderRight'
  <2>1. ASSUME NEW u \in Open
        PROVE  Rights("pop")' <= Cardinality(Before(my[u].index)')
    <3>1. PICK k \in Nat : k = my[u].index
      BY <1>18
    <3>2. Rights("pop") <= Cardinality(Before(my[u].index))
      BY DEF QueueInv, OrderRight
    <3>3. Cardinality(Before(my[u].index)) \in Nat
      BY <1>3, <3>1, PlacesFinite
    <3> QED BY <1>12, <1>14, <1>21, <3>2, <3>3
  <2> QED BY <1>18, <2>1 DEF OrderRight
<1> QED BY <1>6, <1>8, <1>9, <1>14, <1>23, <1>24, <1>25, <1>26 DEF QueueInv

LEMMA WakeKeeps ==
    ASSUME QueueInv, NEW t \in Thread, wakeSpuriously(t)
    PROVE  QueueInv'
<1>0. PICK s \in Sides : s = Side(t)
  BY DEF Side, Sides
<1>1. /\ pc[t] = "asleep" /\ notified' = notified \cup {t}
      /\ UNCHANGED <<queue, d_emptyWaiterCount, d_emptyCountSeen, d_emptyMutex,
                     pc, step, script, my, out>>
  BY DEF wakeSpuriously
<1>2. Types' /\ WaiterTypes'
  BY <1>1 DEF QueueInv, Types, WaiterTypes, queue
<1>3. op(t)' = op(t) /\ Side(t)' = s /\ SameOthers(t)
  BY <1>0, <1>1, SameCall DEF SameOthers
<1>4. CallRight(t)' /\ LocalRight(t)'
  BY <1>1 DEF QueueInv, ThreadsRight, CallRight, LocalRight
<1>5. Wants(s, t)' = Wants(s, t)
  BY <1>1, <1>3 DEF Wants, RemoveAll
<1> QED BY <1>0, <1>1, <1>2, <1>3, <1>4, <1>5, QuietStep DEF queue

LEMMA StutterKeeps ==
    ASSUME QueueInv, UNCHANGED vars
    PROVE  QueueInv'
<1>1. UNCHANGED <<sem, count, d_pushIndex, d_popIndex, d_element>> /\ UNCHANGED waiters
      /\ UNCHANGED <<pc, step, script, my, out>>
  BY DEF vars, queue
<1>2. Types' /\ WaiterTypes'
  BY <1>1 DEF QueueInv, Types, WaiterTypes, waiters
<1>3. /\ Open' = Open /\ Places' = Places /\ Filled' = Filled
      /\ \A t \in Thread : op(t)' = op(t) /\ Side(t)' = Side(t) /\ Skipped(t)' = Skipped(t)
      /\ \A t \in Thread : CallRight(t)' = CallRight(t) /\ LocalRight(t)' = LocalRight(t)
  <2>1. Open' = Open /\ Places' = Places /\ Filled' = Filled
    BY <1>1 DEF Open, Places, Filled, Node
  <2>2. \A t \in Thread : op(t)' = op(t) /\ Side(t)' = Side(t)
    BY <1>1, SameCall
  <2>3. \A t \in Thread : Skipped(t)' = Skipped(t)
    BY <1>1 DEF Skipped, Indices, Node
  <2>4. \A t \in Thread : CallRight(t)' = CallRight(t) /\ LocalRight(t)' = LocalRight(t)
    BY <1>1, <2>2 DEF CallRight, LocalRight, Node
  <2> QED BY <2>1, <2>2, <2>3, <2>4
<1>4. \A s \in Sides, t \in Thread :
         /\ Unfinished(s, t)' = Unfinished(s, t) /\ Wants(s, t)' = Wants(s, t)
         /\ Holds(s, t)' = Holds(s, t) /\ Owes(s, t)' = Owes(s, t)
  BY <1>1, <1>3 DEF Unfinished, Wants, Holds, Owes
<1>5. \A s \in Sides : /\ AllUnfinished(s)' = AllUnfinished(s)
                       /\ AllWanted(s)' = AllWanted(s)
                       /\ AllHeld(s)' = AllHeld(s) /\ AllOwed(s)' = AllOwed(s)
  <2> TAKE s \in Sides
  <2>1. /\ [t \in Thread |-> Unfinished(s, t)'] = [t \in Thread |-> Unfinished(s, t)]
        /\ [t \in Thread |-> Wants(s, t)'] = [t \in Thread |-> Wants(s, t)]
        /\ [t \in Thread |-> Holds(s, t)'] = [t \in Thread |-> Holds(s, t)]
        /\ [t \in Thread |-> Owes(s, t)'] = [t \in Thread |-> Owes(s, t)]
    BY <1>4
  <2> QED BY <2>1 DEF AllUnfinished, AllWanted, AllHeld, AllOwed
<1>6. \A s \in Sides : Rights(s)' = Rights(s) /\ Done(s)' = Done(s)
  <2>1. \A s \in Sides : Other(s) \in Sides
    BY DEF Sides, Other
  <2> QED BY <1>1, <1>5, <2>1 DEF Rights, Done
<1>7. \A k : Before(k)' = Before(k)
  BY <1>3 DEF Before
<1>8. ThreadsRight' /\ PlacesRight' /\ Counted'
  BY <1>1, <1>3, <1>5 DEF QueueInv, ThreadsRight, PlacesRight, Counted
<1>9. PlacesCounted' /\ ValuesCounted' /\ RingRight'
  BY <1>1, <1>3, <1>6 DEF QueueInv, PlacesCounted, ValuesCounted, RingRight, Sides
<1>10. OrderRight'
  <2>1. \A u \in Open : Before(my[u].index)' = Before(my[u].index)
    BY <1>1, <1>3 DEF Before
  <2> QED BY <1>3, <1>6, <2>1 DEF QueueInv, OrderRight, Sides
<1>11. SwapRight'
  BY <1>1, <1>3 DEF QueueInv, SwapRight, isQuiescentState
<1> QED BY <1>2, <1>8, <1>9, <1>10, <1>11 DEF QueueInv

LEMMA NextKeeps ==
    ASSUME QueueInv, [Next]_vars
    PROVE  QueueInv'
<1>1. CASE UNCHANGED vars
  BY <1>1, StutterKeeps
<1>2. ASSUME NEW t \in Thread, Own(t) PROVE QueueInv'
  <2>1. CASE \/ wait(t) \/ refund(t) \/ grant(t) \/ removeAll(t)
             \/ markStartedOperation(t) \/ pushIndex(t) \/ setIsUnconstructed(t)
             \/ construct(t) \/ pushExceptionComplete(t) \/ popIndex(t)
    BY <2>1, WaitKeeps, RefundKeeps, GrantKeeps, RemoveAllKeeps, MarkStartedKeeps,
       PushIndexKeeps, SetFlagKeeps, ConstructKeeps, PushExceptionKeeps, PopIndexKeeps
  <2>2. CASE \/ markReclaimed(t) \/ popNode(t) \/ destroyAll(t)
             \/ markFinishedOperation(t) \/ swapCount(t) \/ post(t)
             \/ readWaiterCount(t) \/ checkEmpty(t) \/ updateEmptyCountSeen(t)
    BY <2>2, MarkReclaimedKeeps, PopNodeKeeps, DestroyAllKeeps, MarkFinishedKeeps,
       SwapCountKeeps, PostKeeps, ReadWaiterCountKeeps, CheckEmptyKeeps, UpdateSeenKeeps
  <2>3. CASE \/ fence(t) \/ broadcast(t) \/ waitUntilEmpty(t) \/ readDisabledState(t)
             \/ peek(t) \/ decide(t) \/ sleep(t) \/ disable(t) \/ drain(t) \/ enable(t)
    BY <2>3, FenceKeeps, BroadcastKeeps, WaitUntilEmptyKeeps, ReadDisabledStateKeeps,
       PeekKeeps, DecideKeeps, SleepKeeps, DisableKeeps, DrainKeeps, EnableKeeps
  <2> QED BY <1>2, <2>1, <2>2, <2>3 DEF Own
<1>3. ASSUME NEW t \in Thread, wakeSpuriously(t) PROVE QueueInv'
  BY <1>3, WakeKeeps
<1> QED BY <1>1, <1>2, <1>3 DEF Next

-----------------------------------------------------------------------------
(* The beginning, and what follows *)

LEMMA NothingShared ==
    ASSUME NEW s \in Sides,
           \A t \in Thread : /\ Unfinished(s, t) = 0 /\ Wants(s, t) = 0
                             /\ Holds(s, t) = 0 /\ Owes(s, t) = 0
    PROVE  AllUnfinished(s) = 0 /\ AllWanted(s) = 0 /\ AllHeld(s) = 0 /\ AllOwed(s) = 0
<1>1. PICK zero : zero = [t \in Thread |-> 0]
  OBVIOUS
<1>2. zero \in [Thread -> Nat] /\ \A t \in Thread : zero[t] = 0
  BY <1>1
<1>3. SumOf(zero) = 0
  BY <1>2, SumZero
<1>4. /\ [t \in Thread |-> Unfinished(s, t)] = zero /\ [t \in Thread |-> Wants(s, t)] = zero
      /\ [t \in Thread |-> Holds(s, t)] = zero /\ [t \in Thread |-> Owes(s, t)] = zero
  BY <1>1
<1> QED BY <1>3, <1>4 DEF AllUnfinished, AllWanted, AllHeld, AllOwed

LEMMA InitHolds == Init => QueueInv
<1> SUFFICES ASSUME Init PROVE QueueInv
  OBVIOUS
<1>0. Capacity \in Nat /\ Capacity >= 2 /\ Circle \in Nat /\ Circle > 0
  BY Constants
<1>1. \A t \in Thread : pc[t] = "idle"
  BY DEF Init
<1>2. Types
  <2>1. /\ sem \in [Sides -> [tokens : Nat, gen : Nat]]
        /\ count \in [Sides -> [started : Nat, finished : Nat]]
    BY <1>0 DEF Init, NoCount
  <2>2. d_pushIndex \in Nat /\ d_popIndex \in Nat
    BY DEF Init
  <2>3. d_element \in [0 .. Capacity - 1 ->
                         [unconstructed : BOOLEAN, val : Value \cup {NoValue}]]
    BY DEF Init
  <2>4. my \in [Thread -> Locals]
    BY <1>0 DEF Init, Locals, NoCount
  <2>5. /\ script \in Scripts /\ step \in [Thread -> Nat]
        /\ out \in [Thread -> Value \cup {NoValue}] /\ pc \in [Thread -> Labels]
    BY DEF Init, Labels
  <2> QED BY <2>1, <2>2, <2>3, <2>4, <2>5 DEF Types
<1>3. WaiterTypes
  BY <1>0 DEF Init, WaiterTypes
<1>4. ThreadsRight
  BY <1>1 DEF ThreadsRight, CallRight, LocalRight
<1>5. Open = {} /\ Places = {} /\ Filled = {}
  BY <1>1 DEF Init, Open, Places, Filled
<1>6. PlacesRight
  BY <1>1, <1>5 DEF Init, PlacesRight
<1>7. \A s \in Sides : AllUnfinished(s) = 0 /\ AllWanted(s) = 0 /\ AllHeld(s) = 0 /\ AllOwed(s) = 0
  <2>1. \A s \in Sides, t \in Thread : /\ Unfinished(s, t) = 0 /\ Wants(s, t) = 0
                                       /\ Holds(s, t) = 0 /\ Owes(s, t) = 0
    BY <1>1 DEF Unfinished, Wants, Holds, Owes
  <2> QED BY <2>1, NothingShared
<1>8. /\ \A s \in Sides : count[s] = NoCount /\ count[s].started = 0 /\ count[s].finished = 0
      /\ sem["push"].tokens = Capacity /\ sem["pop"].tokens = 0
      /\ "push" \in Sides /\ "pop" \in Sides
      /\ Other("push") = "pop" /\ Other("pop") = "push"
  BY DEF Init, Sides, Other, NoCount
<1>9. /\ Rights("push") = Capacity /\ Rights("pop") = 0
      /\ Done("push") = 0 /\ Done("pop") = 0
  BY <1>0, <1>7, <1>8 DEF Rights, Done
<1>10. Counted
  BY <1>7, <1>8 DEF Counted
<1>11. PlacesCounted /\ ValuesCounted
  BY <1>0, <1>5, <1>9, FS_EmptySet DEF Init, PlacesCounted, ValuesCounted
<1>12. RingRight /\ OrderRight
  BY <1>1, <1>5 DEF RingRight, OrderRight
<1>13. SwapRight
  BY <1>8 DEF SwapRight
<1> QED BY <1>2, <1>3, <1>4, <1>6, <1>10, <1>11, <1>12, <1>13 DEF QueueInv

LEMMA TypesFollow == QueueInv => TypeOK
<1> SUFFICES ASSUME QueueInv PROVE TypeOK
  OBVIOUS
<1>1. Types /\ WaiterTypes
  BY DEF QueueInv
<1>2. /\ Rights("push") \in Nat /\ Rights("pop") \in Nat
      /\ Done("push") \in Nat /\ Done("pop") \in Nat
      /\ sem["push"].tokens <= Rights("push") /\ sem["pop"].tokens <= Rights("pop")
      /\ sem["push"].tokens \in Nat /\ sem["pop"].tokens \in Nat
  <2>1. \A s \in Sides : /\ AllWanted(s) \in Nat /\ AllOwed(s) \in Nat
                         /\ Rights(s) \in Nat /\ Done(s) \in Nat
                         /\ sem[s].tokens \in Nat /\ Other(s) \in Sides
    BY <1>1, SumTypes
  <2>2. \A s \in Sides : sem[s].tokens <= Rights(s)
    BY <2>1 DEF Rights
  <2> QED BY <2>1, <2>2 DEF Sides
<1>3. Capacity \in Nat /\ d_pushIndex \in Nat /\ d_popIndex \in Nat /\ d_popIndex <= d_pushIndex
  BY Constants DEF QueueInv, Types, PlacesRight
<1>4. Capacity = Rights("push") + (d_pushIndex - d_popIndex) + Done("pop")
  BY DEF QueueInv, PlacesCounted
<1>5. sem["push"].tokens <= Capacity
  BY <1>2, <1>3, <1>4
<1>6. sem["pop"].tokens <= Capacity
  <2>1. Cardinality(Filled) = Rights("pop") + Done("push")
    BY DEF QueueInv, ValuesCounted
  <2>2. Cardinality(Filled) <= d_pushIndex - d_popIndex
    BY <1>1, <1>3, PlacesFinite
  <2>3. d_pushIndex - d_popIndex <= Capacity
    BY <1>2, <1>3, <1>4
  <2> QED BY <1>2, <1>3, <2>1, <2>2, <2>3
<1>7. sem \in [Sides -> [tokens : 0 .. Capacity, gen : Nat]]
  <2>1. \A s \in Sides : /\ sem[s] \in [tokens : Nat, gen : Nat]
                         /\ sem[s].tokens \in 0 .. Capacity
    BY <1>1, <1>2, <1>3, <1>5, <1>6 DEF Types, Sides
  <2>2. \A s \in Sides : sem[s] \in [tokens : 0 .. Capacity, gen : Nat]
    BY <2>1
  <2> QED BY <1>1, <2>2 DEF Types
<1> QED BY <1>1, <1>7 DEF Types, WaiterTypes, TypeOK, Labels

LEMMA RestFollows == QueueInv => CountsAtRest
<1> SUFFICES ASSUME QueueInv, \A t \in Thread : pc[t] \in {"idle", "waiting", "asleep"}
             PROVE  /\ \A s \in Sides : count[s] = NoCount
                    /\ sem["pop"].tokens = Cardinality(Live)
                    /\ sem["push"].tokens = Capacity - Cardinality(Places)
  BY DEF CountsAtRest
<1>1. \A s \in Sides, t \in Thread : /\ Unfinished(s, t) = 0 /\ Wants(s, t) = 0
                                     /\ Holds(s, t) = 0 /\ Owes(s, t) = 0
  BY DEF Unfinished, Wants, Holds, Owes, RemoveAll
<1>2. \A s \in Sides : AllUnfinished(s) = 0 /\ AllWanted(s) = 0 /\ AllHeld(s) = 0 /\ AllOwed(s) = 0
  BY <1>1, NothingShared
<1>3. \A s \in Sides : count[s].started \in Nat /\ count[s].finished \in Nat
                       /\ sem[s].tokens \in Nat /\ Other(s) \in Sides
  BY SumTypes DEF QueueInv
<1>4. ASSUME NEW s \in Sides PROVE count[s] = NoCount
  <2>1. count[s].started = count[s].finished
    BY <1>2, <1>3 DEF QueueInv, Counted
  <2> QED BY <2>1 DEF QueueInv, SwapRight, isQuiescentState
<1>5. \A s \in Sides : Rights(s) = sem[s].tokens /\ Done(s) = 0
  BY <1>2, <1>3, <1>4 DEF Rights, Done, NoCount
<1>6. "push" \in Sides /\ "pop" \in Sides
  BY DEF Sides
<1>7. Filled = Live
  BY DEF Filled, Live, Open
<1>8. Cardinality(Places) = d_pushIndex - d_popIndex
  <2>1. d_pushIndex \in Nat /\ d_popIndex \in Nat /\ d_popIndex <= d_pushIndex
    BY DEF QueueInv, Types, PlacesRight
  <2>2. d_popIndex \in Int /\ d_pushIndex - 1 \in Int
    BY <2>1
  <2>3. Cardinality(Places) =
           IF d_popIndex > d_pushIndex - 1 THEN 0 ELSE (d_pushIndex - 1) - d_popIndex + 1
    BY <2>2, FS_Interval DEF Places
  <2> QED BY <2>1, <2>3
<1>9. sem["pop"].tokens = Cardinality(Live)
  BY <1>3, <1>5, <1>6, <1>7 DEF QueueInv, ValuesCounted
<1>10. sem["push"].tokens = Capacity - Cardinality(Places)
  <2>1. Capacity = sem["push"].tokens + (d_pushIndex - d_popIndex) + 0
    BY <1>5, <1>6 DEF QueueInv, PlacesCounted
  <2>2. d_pushIndex \in Nat /\ d_popIndex \in Nat /\ sem["push"].tokens \in Nat
    BY <1>3, <1>6 DEF QueueInv, Types
  <2> QED BY <1>8, <2>1, <2>2
<1> QED BY <1>4, <1>9, <1>10

\* The accounts of places and values balance in every state.
THEOREM AccountsBalance == Spec => []QueueInv
<1>1. Init => QueueInv
  BY InitHolds
<1>2. QueueInv /\ [Next]_vars => QueueInv'
  BY NextKeeps
<1> QED BY <1>1, <1>2, PTL DEF Spec

\* Whatever operations met, and whichever of them posted for the others: when none
\* is under way, no place and no value has been posted twice or not at all.
THEOREM ConsistentHolds == Spec => []Consistent
<1>1. QueueInv => Consistent
  BY TypesFollow, RestFollows DEF Consistent
<1> QED BY <1>1, AccountsBalance, PTL

-----------------------------------------------------------------------------
(* The queue implements a bounded FIFO *)

\* What itemsBar has for a place, and outBar for a thread.
Pending(k) == {t \in Thread : pc[t] \in {"flag", "construct"} /\ my[t].index = k}

Item(k) ==
    IF Pending(k) # {} THEN Writing(CHOOSE t \in Pending(k) : TRUE)
    ELSE [by |-> None, val |-> IF Node(k).unconstructed THEN NoValue ELSE Node(k).val]

Got(t) ==
    IF /\ pc[t] = "look" /\ op(t) # "removeAll"
       /\ ~NextCall(t).throws
       /\ ~Node(my[t].index).unconstructed
    THEN Node(my[t].index).val ELSE out[t]

ItemValues == [by : Thread \cup {None}, val : Value \cup {NoValue}]

\* A place that is filled holds a value.
ValuesThere == \A i \in Filled : Node(i).val \in Value

\* Two pops look at different places.
LooksApart ==
    \A t, u \in Thread : pc[t] = "look" /\ pc[u] = "look" /\ t # u =>
        \/ my[t].index + my[t].num <= my[u].index
        \/ my[u].index + my[u].num <= my[t].index

\* Only a pop that has completed has taken a value.
OutRight ==
    \A t \in Thread : out[t] # NoValue => op(t) \in Pops /\ pc[t] \in RemoveAll

FifoInv == QueueInv /\ ValuesThere /\ LooksApart /\ OutRight

-----------------------------------------------------------------------------
(* Sequences that differ in a step *)

LEMMA Slid ==
    ASSUME NEW S, NEW s \in Seq(S), NEW r \in Seq(S), NEW m \in 1 .. Len(s),
           Len(r) = Len(s) - m, \A i \in 1 .. Len(r) : r[i] = s[i + m]
    PROVE  r = SubSeq(s, m + 1, Len(s)) /\ (m = 1 => r = Tail(s))
<1>1. Len(s) \in Nat /\ m \in Nat /\ \A i \in 1 .. Len(s) : s[i] \in S
  BY LenProperties, ElementOfSeq
<1> DEFINE u == SubSeq(s, m + 1, Len(s))
<1>2. /\ u \in Seq(S)
      /\ Len(u) = IF m + 1 <= Len(s) THEN Len(s) - (m + 1) + 1 ELSE 0
      /\ \A i \in 1 .. Len(s) - (m + 1) + 1 : u[i] = s[(m + 1) + i - 1]
  <2>1. m + 1 \in Int /\ Len(s) \in Int /\ \A i \in m + 1 .. Len(s) : s[i] \in S
    BY <1>1
  <2> HIDE DEF u
  <2> QED BY <2>1, SubSeqProperties DEF u
<1> HIDE DEF u
<1>3. Len(u) = Len(r)
  BY <1>1, <1>2
<1>4. ASSUME NEW i \in 1 .. Len(r) PROVE r[i] = u[i]
  <2>1. i \in 1 .. Len(s) - (m + 1) + 1 /\ (m + 1) + i - 1 = i + m
    BY <1>1
  <2> QED BY <1>2, <2>1
<1>5. r = u
  BY <1>2, <1>3, <1>4, SeqEqual
<1>6. m = 1 => r = Tail(s)
  <2>1. s # <<>>
    BY <1>1, EmptySeq
  <2>2. Tail(s) = SubSeq(s, 2, Len(s))
    BY <2>1, TailIsSubSeq
  <2> QED BY <1>5, <2>2 DEF u
<1> QED BY <1>5, <1>6 DEF u

LEMMA Grown ==
    ASSUME NEW S, NEW s \in Seq(S), NEW r \in Seq(S), NEW e \in S,
           Len(r) = Len(s) + 1, r[Len(r)] = e, \A i \in 1 .. Len(s) : r[i] = s[i]
    PROVE  r = Append(s, e)
<1>1. Len(s) \in Nat
  BY LenProperties
<1>2. /\ Append(s, e) \in Seq(S) /\ Len(Append(s, e)) = Len(s) + 1
      /\ \A i \in 1 .. Len(s) : Append(s, e)[i] = s[i]
      /\ Append(s, e)[Len(s) + 1] = e
  BY AppendProperties
<1>3. ASSUME NEW i \in 1 .. Len(r) PROVE r[i] = Append(s, e)[i]
  <2>1. i \in 1 .. Len(s) \/ i = Len(s) + 1
    BY <1>1
  <2> QED BY <1>2, <2>1
<1> QED BY <1>2, <1>3, SeqEqual

LEMMA Changed ==
    ASSUME NEW S, NEW s \in Seq(S), NEW r \in Seq(S), NEW j \in 1 .. Len(s), NEW e \in S,
           Len(r) = Len(s), r[j] = e, \A i \in 1 .. Len(s) : i # j => r[i] = s[i]
    PROVE  r = [s EXCEPT ![j] = e]
<1>1. /\ [s EXCEPT ![j] = e] \in Seq(S) /\ Len([s EXCEPT ![j] = e]) = Len(s)
      /\ \A i \in 1 .. Len(s) : [s EXCEPT ![j] = e][i] = IF i = j THEN e ELSE s[i]
  BY ExceptSeq
<1>2. \A i \in 1 .. Len(r) : r[i] = [s EXCEPT ![j] = e][i]
  BY <1>1
<1> QED BY <1>1, <1>2, SeqEqual

-----------------------------------------------------------------------------
(* The items *)

LEMMA Bars ==
    /\ itemsBar = [i \in 1 .. d_pushIndex - d_popIndex |-> Item(d_popIndex + i - 1)]
    /\ outBar = [t \in Thread |-> Got(t)]
BY DEF itemsBar, outBar, Item, Pending, Got

LEMMA PendingOne ==
    ASSUME QueueInv
    PROVE  /\ \A k \in Nat : Pending(k) = {t \in Open : my[t].index = k}
           /\ \A t \in Open : /\ Pending(my[t].index) = {t}
                              /\ Item(my[t].index) = Writing(t)
<1>1. \A k \in Nat : Pending(k) = {t \in Open : my[t].index = k}
  BY DEF Pending, Open
<1>2. ASSUME NEW t \in Open
      PROVE  Pending(my[t].index) = {t} /\ Item(my[t].index) = Writing(t)
  <2>1. Pending(my[t].index) = {t}
    BY DEF Pending, Open, QueueInv, PlacesRight
  <2>2. (CHOOSE u \in {t} : TRUE) = t
    OBVIOUS
  <2> QED BY <2>1, <2>2 DEF Item
<1> QED BY <1>1, <1>2

LEMMA ItemTypes ==
    ASSUME Types, NEW k \in Nat
    PROVE  Item(k) \in ItemValues
<1>1. CASE Pending(k) # {}
  <2>1. (CHOOSE t \in Pending(k) : TRUE) \in Thread
    BY <1>1 DEF Pending
  <2> QED BY <1>1, <2>1 DEF Item, Writing, ItemValues
<1>2. CASE Pending(k) = {}
  <2>1. Node(k).val \in Value \cup {NoValue}
    BY Modulus DEF Node, Types
  <2> QED BY <1>2, <2>1 DEF Item, ItemValues
<1> QED BY <1>1, <1>2

LEMMA ItemTypesNext ==
    ASSUME Types', NEW k \in Nat
    PROVE  Item(k)' \in ItemValues
<1>1. CASE Pending(k)' # {}
  <2>1. (CHOOSE t \in Pending(k)' : TRUE) \in Thread
    BY <1>1 DEF Pending
  <2> QED BY <1>1, <2>1 DEF Item, Writing, ItemValues
<1>2. CASE Pending(k)' = {}
  <2>1. Node(k)'.val \in Value \cup {NoValue}
    BY Modulus DEF Node, Types
  <2> QED BY <1>2, <2>1 DEF Item, ItemValues
<1> QED BY <1>1, <1>2

LEMMA ItemsAre ==
    ASSUME QueueInv
    PROVE  /\ itemsBar \in Seq(ItemValues)
           /\ Len(itemsBar) = d_pushIndex - d_popIndex
           /\ \A i \in 1 .. d_pushIndex - d_popIndex : itemsBar[i] = Item(d_popIndex + i - 1)
<1>1. PICK n \in Nat : n = d_pushIndex - d_popIndex
  BY DEF QueueInv, Types, PlacesRight
<1>2. Types /\ d_popIndex \in Nat
  BY DEF QueueInv, Types
<1>3. \A i \in 1 .. n : d_popIndex + i - 1 \in Nat
  BY <1>2
<1>4. \A i \in 1 .. n : Item(d_popIndex + i - 1) \in ItemValues
  BY <1>2, <1>3, ItemTypes
<1>5. itemsBar = [i \in 1 .. n |-> Item(d_popIndex + i - 1)]
  BY <1>1, Bars
<1>6. itemsBar \in [1 .. n -> ItemValues]
  BY <1>4, <1>5
<1>7. itemsBar \in Seq(ItemValues)
  BY <1>6, SeqDef
<1>8. Len(itemsBar) = n
  BY <1>6, <1>7
<1> QED BY <1>1, <1>5, <1>7, <1>8

LEMMA ItemsAreNext ==
    ASSUME QueueInv', NEW p \in Nat, NEW q \in Nat, d_popIndex' = p, d_pushIndex' = q
    PROVE  /\ itemsBar' \in Seq(ItemValues)
           /\ q - p \in Nat /\ Len(itemsBar') = q - p
           /\ \A i \in 1 .. q - p : itemsBar'[i] = Item(p + i - 1)'
<1>1. PICK n \in Nat : n = q - p
  <2>1. d_popIndex' <= d_pushIndex'
    BY DEF QueueInv, PlacesRight
  <2> QED BY <2>1
<1>2. Types'
  BY DEF QueueInv
<1>3. \A i \in 1 .. n : p + i - 1 \in Nat
  OBVIOUS
<1>4. \A i \in 1 .. n : Item(p + i - 1)' \in ItemValues
  BY <1>2, <1>3, ItemTypesNext
<1>5. itemsBar' = [i \in 1 .. n |-> Item(p + i - 1)']
  <2>1. (itemsBar = [i \in 1 .. d_pushIndex - d_popIndex |-> Item(d_popIndex + i - 1)])'
    BY Bars, PTL
  <2>2. itemsBar' = [i \in 1 .. d_pushIndex' - d_popIndex' |-> Item(d_popIndex + i - 1)']
    BY <2>1
  <2> QED BY <1>1, <2>2 DEF Item, Pending, Node
<1>6. itemsBar' \in [1 .. n -> ItemValues]
  BY <1>4, <1>5
<1>7. itemsBar' \in Seq(ItemValues)
  BY <1>6, SeqDef
<1>8. Len(itemsBar') = n
  BY <1>6, <1>7
<1> QED BY <1>1, <1>5, <1>7, <1>8

\* The items stay as they are with the indices, the pushes and the nodes that are
\* constructed.
LEMMA ItemsSame ==
    ASSUME QueueInv, QueueInv', UNCHANGED <<d_pushIndex, d_popIndex>>,
           Open' = Open, \A u \in Open : my'[u].index = my[u].index,
           \A i \in Places : Pending(i) = {} => Node(i)' = Node(i)
    PROVE  itemsBar' = itemsBar
<1>1. PICK p \in Nat, q \in Nat : d_popIndex' = p /\ d_pushIndex' = q
                                  /\ p = d_popIndex /\ q = d_pushIndex
  BY DEF QueueInv, Types
<1>2. ASSUME NEW k \in Places, k \in Nat PROVE Item(k)' = Item(k)
  <2>1. Pending(k)' = Pending(k)
    <3>1. ASSUME NEW u \in Thread
          PROVE  /\ (pc'[u] \in {"flag", "construct"}) <=> (pc[u] \in {"flag", "construct"})
                 /\ pc[u] \in {"flag", "construct"} => my'[u].index = my[u].index
      BY DEF Open
    <3> QED BY <3>1 DEF Pending
  <2> QED BY <1>2, <2>1 DEF Item
<1>3. /\ itemsBar \in Seq(ItemValues) /\ Len(itemsBar) = q - p
      /\ \A i \in 1 .. q - p : itemsBar[i] = Item(p + i - 1)
  BY <1>1, ItemsAre
<1>4. /\ itemsBar' \in Seq(ItemValues) /\ Len(itemsBar') = q - p
      /\ \A i \in 1 .. q - p : itemsBar'[i] = Item(p + i - 1)'
  BY <1>1, ItemsAreNext
<1>5. \A i \in 1 .. q - p : p + i - 1 \in Places /\ p + i - 1 \in Nat
  BY <1>1 DEF Places
<1>6. \A i \in 1 .. Len(itemsBar') : itemsBar'[i] = itemsBar[i]
  BY <1>2, <1>3, <1>4, <1>5
<1> QED BY <1>3, <1>4, <1>6, SeqEqual

\* So does what another thread has taken, unless its node changes.
LEMMA GotSame ==
    ASSUME NEW t \in Thread, SameOthers(t), NEW u \in Thread \ {t}, out'[u] = out[u],
           pc[u] = "look" => Node(my[u].index)' = Node(my[u].index)
    PROVE  Got(u)' = Got(u)
<1>1. /\ pc'[u] = pc[u] /\ my'[u] = my[u]
      /\ NextCall(u)' = NextCall(u) /\ op(u)' = op(u)
  BY OtherThread DEF SameOthers
<1> QED BY <1>1 DEF Got

LEMMA LookKept ==
    ASSUME FifoInv, NEW t \in Thread, SameOthers(t),
           pc'[t] = "look" => pc[t] = "look" /\ my'[t].index = my[t].index
                              /\ my'[t].num = my[t].num
    PROVE  LooksApart'
<1>1. \A u \in Thread : pc'[u] = "look" =>
         pc[u] = "look" /\ my'[u].index = my[u].index /\ my'[u].num = my[u].num
  BY DEF SameOthers
<1> QED BY <1>1 DEF FifoInv, LooksApart

LEMMA OutKept ==
    ASSUME FifoInv, NEW t \in Thread, SameOthers(t),
           \A u \in Thread \ {t} : out'[u] = out[u],
           out'[t] # NoValue => op(t)' \in Pops /\ pc'[t] \in RemoveAll
    PROVE  OutRight'
<1>1. \A u \in Thread \ {t} : pc'[u] = pc[u] /\ op(u)' = op(u)
  BY OtherThread DEF SameOthers
<1> QED BY <1>1 DEF FifoInv, OutRight

LEMMA OutBars ==
    outBar = [t \in Thread |-> Got(t)] /\ outBar' = [t \in Thread |-> Got(t)']
<1>1. (outBar = [t \in Thread |-> Got(t)])'
  BY Bars, PTL
<1> QED BY <1>1, Bars

\* A step that only ends a call, or leaves the queue and what was taken alone.
Quietly(t) ==
    /\ SameOthers(t)
    /\ UNCHANGED <<d_pushIndex, d_popIndex, d_element>>
    /\ pc[t] \notin {"flag", "construct", "look"}
    /\ pc'[t] \notin {"flag", "construct", "look"}
    /\ \/ out' = [out EXCEPT ![t] = NoValue]
       \/ /\ out' = out
          /\ pc[t] \in RemoveAll /\ op(t) \in Pops => pc'[t] \in RemoveAll /\ op(t)' = op(t)

FifoStep == [Fifo!Next]_<<itemsBar, outBar>>

LEMMA QuietFifo ==
    ASSUME FifoInv, QueueInv', NEW t \in Thread, Quietly(t)
    PROVE  FifoInv' /\ FifoStep
<1>1. /\ QueueInv /\ Types /\ Open' = Open /\ \A u \in Open : my'[u] = my[u]
      /\ \A u \in Thread \ {t} : out'[u] = out[u]
  BY DEF FifoInv, QueueInv, Open, Quietly, SameOthers, Types
<1>2. itemsBar' = itemsBar
  BY <1>1, ItemsSame DEF Quietly, Node
<1>3. ValuesThere'
  <2>1. Places' = Places
    BY DEF Quietly, Places
  <2>2. Filled' = Filled
    BY <1>1, <2>1 DEF Filled, Quietly, Node
  <2> QED BY <2>2 DEF FifoInv, ValuesThere, Quietly, Node
<1>4. LooksApart'
  BY LookKept DEF Quietly
<1>5. OutRight'
  <2>1. out'[t] # NoValue => op(t)' \in Pops /\ pc'[t] \in RemoveAll
    BY <1>1 DEF Quietly, FifoInv, OutRight, Types
  <2> QED BY <1>1, <2>1, OutKept DEF Quietly
<1>7. /\ \A u \in Thread \ {t} : Got(u)' = Got(u)
      /\ Got(t) = out[t] /\ Got(t)' = out'[t]
  <2>1. ASSUME NEW u \in Thread \ {t} PROVE Got(u)' = Got(u)
    <3>1. my'[u] = my[u] /\ d_element' = d_element
      BY DEF Quietly, SameOthers
    <3> QED BY <1>1, <3>1, GotSame DEF Quietly, Node
  <2> QED BY <2>1 DEF Got, Quietly
<1>8. outBar = [u \in Thread |-> Got(u)] /\ outBar' = [u \in Thread |-> Got(u)']
  BY OutBars
<1>9. CASE out'[t] = out[t]
  <2>1. outBar' = outBar
    BY <1>7, <1>8, <1>9
  <2> QED BY <1>2, <1>3, <1>4, <1>5, <2>1 DEF FifoInv, FifoStep
<1>10. CASE out'[t] = NoValue
  <2>1. outBar' = [outBar EXCEPT ![t] = NoValue]
    BY <1>7, <1>8, <1>10
  <2>2. Fifo!Forget(t)
    BY <1>2, <2>1 DEF Fifo!Forget
  <2> QED BY <1>3, <1>4, <1>5, <2>2 DEF FifoInv, FifoStep, Fifo!Next
<1> QED BY <1>1, <1>9, <1>10 DEF Quietly, Types

\* How a quiet step looks: it goes on, returns, or completes.
LEMMA QuietGo ==
    ASSUME FifoInv, NEW t \in Thread, NEW p \in Labels, Goto(t, p),
           \A u \in Thread \ {t} : my'[u] = my[u],
           UNCHANGED <<d_pushIndex, d_popIndex, d_element>>,
           pc[t] \notin {"flag", "construct", "look"}, p \notin {"flag", "construct", "look"},
           pc[t] \in RemoveAll /\ op(t) \in Pops => p \in RemoveAll
    PROVE  Quietly(t)
<1>1. Types
  BY DEF FifoInv, QueueInv
<1>2. SameOthers(t) /\ pc'[t] = p /\ op(t)' = op(t) /\ out' = out
  BY <1>1, GotoFrame DEF Goto
<1> QED BY <1>2 DEF Quietly

LEMMA QuietEnd ==
    ASSUME FifoInv, NEW t \in Thread, Return(t),
           \A u \in Thread \ {t} : my'[u] = my[u],
           UNCHANGED <<d_pushIndex, d_popIndex, d_element>>,
           pc[t] \notin {"flag", "construct", "look"}
    PROVE  Quietly(t)
<1>1. Types
  BY DEF FifoInv, QueueInv
<1>2. SameOthers(t) /\ pc'[t] = "idle" /\ out' = [out EXCEPT ![t] = NoValue]
  BY <1>1, ReturnFrame DEF Return
<1> QED BY <1>2 DEF Quietly

LEMMA QuietDone ==
    ASSUME FifoInv, NEW t \in Thread, Complete(t),
           UNCHANGED <<d_pushIndex, d_popIndex, d_element>>, pc[t] \in RemoveAll
    PROVE  Quietly(t)
<1>1. CASE op(t) = "removeAll" /\ my[t].again > 0
  <2>1. my' = [my EXCEPT ![t].num = my[t].again, ![t].again = 0] /\ Goto(t, "mark")
    BY <1>1 DEF Complete
  <2>2. \A u \in Thread \ {t} : my'[u] = my[u]
    BY <2>1 DEF FifoInv, QueueInv, Types
  <2>3. op(t) \notin Pops
    BY <1>1 DEF Pops
  <2> QED BY <2>1, <2>2, <2>3, QuietGo DEF Labels, RemoveAll
<1>2. CASE ~(op(t) = "removeAll" /\ my[t].again > 0)
  BY <1>2, QuietEnd DEF Complete, RemoveAll
<1> QED BY <1>1, <1>2

LEMMA TakingQuiet ==
    ASSUME FifoInv, NEW t \in Thread,
           wait(t) \/ refund(t) \/ grant(t) \/ removeAll(t) \/ markStartedOperation(t)
    PROVE  Quietly(t)
<1>0. Types
  BY DEF FifoInv, QueueInv
<1>1. CASE wait(t)
  <2>1. PICK p \in {"mark", "refund", "waiting"} : Goto(t, p)
    BY <1>1 DEF wait
  <2>2. /\ pc[t] = "idle" /\ \A u \in Thread \ {t} : my'[u] = my[u]
        /\ UNCHANGED <<d_pushIndex, d_popIndex, d_element>>
    BY <1>0, <1>1 DEF wait, Calling, OnlySem, Types
  <2> QED BY <2>1, <2>2, QuietGo DEF Labels, RemoveAll
<1>2. CASE refund(t)
  <2>1. Return(t) /\ my' = my /\ UNCHANGED <<d_pushIndex, d_popIndex, d_element>>
        /\ pc[t] \in {"refund", "waiting"}
    BY <1>2 DEF refund, OnlySem
  <2> QED BY <2>1, QuietEnd
<1>3. CASE grant(t)
  <2>1. /\ Goto(t, "mark") /\ pc[t] = "waiting" /\ \A u \in Thread \ {t} : my'[u] = my[u]
        /\ UNCHANGED <<d_pushIndex, d_popIndex, d_element>>
    BY <1>0, <1>3 DEF grant, OnlySem, Types
  <2> QED BY <2>1, QuietGo DEF Labels, RemoveAll
<1>4. CASE removeAll(t)
  <2>1. /\ pc[t] = "idle" /\ \A u \in Thread \ {t} : my'[u] = my[u]
        /\ UNCHANGED <<d_pushIndex, d_popIndex, d_element>>
        /\ Return(t) \/ Goto(t, "mark")
    BY <1>0, <1>4 DEF removeAll, Calling, OnlySem, Types
  <2> QED BY <2>1, QuietGo, QuietEnd DEF Labels, RemoveAll
<1>5. CASE markStartedOperation(t)
  <2>1. /\ pc[t] = "mark" /\ my' = my /\ Goto(t, "index")
        /\ UNCHANGED <<d_pushIndex, d_popIndex, d_element>>
    BY <1>5 DEF markStartedOperation, OnlyCount
  <2> QED BY <2>1, QuietGo DEF Labels, RemoveAll
<1> QED BY <1>1, <1>2, <1>3, <1>4, <1>5

LEMMA CompletingQuiet ==
    ASSUME FifoInv, NEW t \in Thread,
           \/ pushExceptionComplete(t) \/ markFinishedOperation(t)
           \/ swapCount(t) \/ post(t)
    PROVE  Quietly(t)
<1>0. Types /\ UNCHANGED <<d_pushIndex, d_popIndex, d_element>>
  BY DEF FifoInv, QueueInv, pushExceptionComplete, markFinishedOperation, swapCount, post,
     OnlyCount, OnlySem
<1>1. CASE pushExceptionComplete(t)
  <2>1. /\ pc[t] = "fail" /\ \A u \in Thread \ {t} : my'[u] = my[u]
        /\ Return(t) \/ Goto(t, "swap")
    BY <1>0, <1>1 DEF pushExceptionComplete, Types
  <2> QED BY <1>0, <2>1, QuietGo, QuietEnd DEF Labels, RemoveAll
<1>2. CASE markFinishedOperation(t)
  <2>1. pc[t] = "finish" /\ pc[t] \in RemoveAll
    BY <1>2 DEF markFinishedOperation, RemoveAll
  <2>2. CASE Complete(t)
    BY <1>0, <2>1, <2>2, QuietDone
  <2>3. CASE ~Complete(t)
    <3>1. Goto(t, "swap") /\ \A u \in Thread \ {t} : my'[u] = my[u]
      BY <1>0, <1>2, <2>3 DEF markFinishedOperation, Goto, Types
    <3> QED BY <1>0, <2>1, <3>1, QuietGo DEF Labels, RemoveAll
  <2> QED BY <2>2, <2>3
<1>3. CASE swapCount(t)
  <2>1. pc[t] = "swap" /\ pc[t] \in RemoveAll
    BY <1>3 DEF swapCount, RemoveAll
  <2>2. CASE Complete(t)
    BY <1>0, <2>1, <2>2, QuietDone
  <2>3. CASE ~Complete(t)
    <3>1. (Goto(t, "post") \/ Goto(t, "count")) /\ my' = my
      BY <1>3, <2>3 DEF swapCount
    <3> QED BY <1>0, <2>1, <3>1, QuietGo DEF Labels, RemoveAll
  <2> QED BY <2>2, <2>3
<1>4. CASE post(t)
  <2>1. pc[t] = "post" /\ my' = my /\ (Return(t) \/ Goto(t, "count"))
    BY <1>4 DEF post
  <2> QED BY <1>0, <2>1, QuietGo, QuietEnd DEF Labels, RemoveAll
<1> QED BY <1>1, <1>2, <1>3, <1>4

LEMMA TellingQuiet ==
    ASSUME FifoInv, NEW t \in Thread,
           \/ readWaiterCount(t) \/ checkEmpty(t) \/ updateEmptyCountSeen(t)
           \/ fence(t) \/ broadcast(t)
    PROVE  Quietly(t)
<1>0. Types /\ UNCHANGED <<d_pushIndex, d_popIndex, d_element>>
  BY DEF FifoInv, QueueInv, readWaiterCount, checkEmpty, updateEmptyCountSeen, fence,
     broadcast, queue
<1>1. pc[t] \in {"count", "empty", "seen", "fence", "broadcast"} /\ pc[t] \in RemoveAll
  BY DEF readWaiterCount, checkEmpty, updateEmptyCountSeen, fence, broadcast, RemoveAll
<1>2. CASE Complete(t)
  BY <1>0, <1>1, <1>2, QuietDone
<1>3. CASE ~Complete(t)
  <2>1. PICK p \in {"empty", "seen", "fence", "broadcast"} : Goto(t, p)
    BY <1>3 DEF readWaiterCount, checkEmpty, updateEmptyCountSeen, fence, broadcast
  <2>2. \A u \in Thread \ {t} : my'[u] = my[u]
    BY <1>0, <1>3 DEF readWaiterCount, checkEmpty, updateEmptyCountSeen, fence, broadcast,
       Types
  <2> QED BY <1>0, <1>1, <2>1, <2>2, QuietGo DEF Labels, RemoveAll
<1> QED BY <1>2, <1>3

LEMMA WaitingQuiet ==
    ASSUME FifoInv, NEW t \in Thread,
           \/ waitUntilEmpty(t) \/ readDisabledState(t) \/ peek(t) \/ decide(t) \/ sleep(t)
           \/ disable(t) \/ drain(t) \/ enable(t)
    PROVE  Quietly(t)
<1>0. Types /\ UNCHANGED <<d_pushIndex, d_popIndex, d_element>>
  BY DEF FifoInv, QueueInv, waitUntilEmpty, readDisabledState, peek, decide, sleep, disable,
     drain, enable, queue, OnlySem
<1>1. pc[t] \in {"idle", "state", "peek", "lock", "asleep", "decided", "drain"}
  BY DEF waitUntilEmpty, readDisabledState, peek, decide, sleep, disable, drain, enable,
     Calling
<1>2. \A u \in Thread \ {t} : my'[u] = my[u]
  BY <1>0 DEF waitUntilEmpty, readDisabledState, peek, decide, sleep, disable, drain, enable,
     Types
<1>3. \/ Return(t)
      \/ \E p \in {"state", "peek", "lock", "decided", "asleep", "drain", "fence"} : Goto(t, p)
  BY DEF waitUntilEmpty, readDisabledState, peek, decide, sleep, disable, drain, enable
<1>4. CASE Return(t)
  BY <1>0, <1>1, <1>2, <1>4, QuietEnd
<1>5. ASSUME NEW p \in {"state", "peek", "lock", "decided", "asleep", "drain", "fence"},
             Goto(t, p)
      PROVE  Quietly(t)
  BY <1>0, <1>1, <1>2, <1>5, QuietGo DEF Labels, RemoveAll
<1> QED BY <1>3, <1>4, <1>5

LEMMA WakeQuiet ==
    ASSUME FifoInv, NEW t \in Thread, wakeSpuriously(t)
    PROVE  Quietly(t)
<1>1. pc[t] = "asleep" /\ UNCHANGED <<queue, pc, step, script, my, out>>
  BY DEF wakeSpuriously
<1> QED BY <1>1 DEF Quietly, SameOthers, queue, RemoveAll

\* Where a pop looks no place is, and no other pop looks.
LEMMA LookAlone ==
    ASSUME FifoInv, NEW t \in Thread, pc[t] = "look", NEW i \in Indices(t)
    PROVE  /\ i \in Nat
           /\ \A k \in Places : k \in Nat /\ k % Capacity # i % Capacity
           /\ \A u \in Thread \ {t} : pc[u] = "look" =>
                 /\ my[u].index \in Nat
                 /\ my[u].index % Capacity # i % Capacity
<1>1. /\ QueueInv /\ Types /\ d_popIndex \in Nat /\ d_pushIndex \in Nat
      /\ Rights("push") \in Nat /\ Capacity \in Nat
  BY SumTypes, Constants DEF FifoInv, QueueInv, Types, Sides
<1>2. ASSUME NEW u \in Thread, pc[u] = "look", NEW k \in Indices(u)
      PROVE  /\ k \in Nat /\ k < d_popIndex /\ d_popIndex <= d_pushIndex
             /\ d_pushIndex <= k + Capacity
  <2>1. PICK n \in Nat, m \in Nat : n = my[u].index /\ m = my[u].num
    BY <1>1, ThreadTypes
  <2>2. k \in Nat /\ n <= k /\ k < n + m
    <3>1. k \in n .. n + m - 1
      BY <2>1 DEF Indices
    <3> QED BY <3>1
  <2>3. n + m <= d_popIndex /\ d_popIndex <= d_pushIndex
        /\ Rights("push") + d_pushIndex <= n + Capacity
    BY <1>1, <1>2, <2>1 DEF QueueInv, PlacesRight, RingRight
  <2> QED BY <1>1, <2>2, <2>3
<1>3. /\ i \in Nat /\ i < d_popIndex /\ d_pushIndex <= i + Capacity
  BY <1>2
<1>4. ASSUME NEW k \in Places PROVE k \in Nat /\ k % Capacity # i % Capacity
  <2>1. k \in Nat /\ d_popIndex <= k /\ k < d_pushIndex
    BY <1>1 DEF Places
  <2>2. i < k /\ k < i + Capacity
    BY <1>1, <1>3, <2>1
  <2> QED BY <1>3, <2>1, <2>2, NoCollision
<1>5. ASSUME NEW u \in Thread \ {t}, pc[u] = "look"
      PROVE  my[u].index \in Nat /\ my[u].index % Capacity # i % Capacity
  <2>1. PICK n \in Nat, m \in Nat : n = my[u].index /\ m = my[u].num
    BY <1>1, ThreadTypes
  <2>2. PICK n1 \in Nat, m1 \in Nat : n1 = my[t].index /\ m1 = my[t].num
    BY <1>1, ThreadTypes
  <2>3. m # 0
    BY <1>1, <1>5, <2>1 DEF QueueInv, ThreadsRight, LocalRight
  <2>4. n \in Indices(u)
    BY <2>1, <2>3 DEF Indices
  <2>5. n < d_popIndex /\ d_popIndex <= d_pushIndex /\ d_pushIndex <= n + Capacity
    BY <1>2, <1>5, <2>4
  <2>6. n1 <= i /\ i < n1 + m1
    <3>1. i \in n1 .. n1 + m1 - 1
      BY <2>2 DEF Indices
    <3> QED BY <1>3, <3>1
  <2>7. n + m <= n1 \/ n1 + m1 <= n
    BY <1>5, <2>1, <2>2 DEF FifoInv, LooksApart
  <2>8. n < i \/ i < n
    BY <1>3, <2>3, <2>6, <2>7
  <2>9. n < i + Capacity /\ i < n + Capacity
    BY <1>1, <1>3, <2>5
  <2>10. n % Capacity # i % Capacity
    BY <1>3, <2>8, <2>9, NoCollision
  <2> QED BY <2>1, <2>10
<1> QED BY <1>3, <1>4, <1>5

\* A step that leaves alone what the others look at and what is in the places.
LEMMA SettledFifo ==
    ASSUME FifoInv, QueueInv', NEW t \in Thread, SameOthers(t),
           UNCHANGED <<d_pushIndex, d_popIndex>>,
           Open' = Open, \A u \in Open : my'[u].index = my[u].index,
           \A i \in Places : Pending(i) = {} => Node(i)' = Node(i),
           \A u \in Thread \ {t} : pc[u] = "look" =>
              Node(my[u].index)' = Node(my[u].index),
           \A u \in Thread \ {t} : out'[u] = out[u],
           pc'[t] # "look",
           out'[t] # NoValue => op(t)' \in Pops /\ pc'[t] \in RemoveAll,
           Got(t)' = Got(t)
    PROVE  FifoInv' /\ FifoStep
<1>1. QueueInv /\ Places' = Places /\ Places \subseteq Nat
  BY DEF FifoInv, Places, QueueInv, Types
<1>2. itemsBar' = itemsBar
  BY <1>1, ItemsSame
<1>3. ValuesThere'
  <2>1. SUFFICES ASSUME NEW i \in Filled' PROVE Node(i)'.val \in Value
    BY DEF ValuesThere
  <2>2. i \in Places /\ ~Node(i)'.unconstructed /\ \A u \in Open : my[u].index # i
    BY <1>1, <2>1 DEF Filled
  <2>3. Pending(i) = {}
    BY <1>1, <2>2, PendingOne
  <2>4. Node(i)' = Node(i)
    BY <2>2, <2>3
  <2>5. i \in Filled
    BY <2>2, <2>4 DEF Filled
  <2> QED BY <2>4, <2>5 DEF FifoInv, ValuesThere
<1>4. LooksApart'
  BY LookKept
<1>5. OutRight'
  BY OutKept
<1>6. outBar' = outBar
  <2>1. \A u \in Thread \ {t} : Got(u)' = Got(u)
    BY GotSame
  <2> QED BY <2>1, OutBars
<1> QED BY <1>2, <1>3, <1>4, <1>5, <1>6 DEF FifoInv, FifoStep

LEMMA MarkReclaimedFifo ==
    ASSUME FifoInv, QueueInv', NEW t \in Thread, markReclaimed(t)
    PROVE  FifoInv' /\ FifoStep
<1>1. /\ pc[t] = "look" /\ Node(my[t].index).unconstructed
      /\ Goto(t, "index") /\ my' = my
      /\ UNCHANGED <<d_pushIndex, d_popIndex, d_element>>
  BY DEF markReclaimed, OnlyCount
<1>2. SameOthers(t) /\ pc'[t] = "index" /\ out' = out
  BY <1>1, GotoFrame DEF FifoInv, QueueInv, Labels, Goto
<1>3. out[t] = NoValue
  BY <1>1 DEF FifoInv, OutRight, RemoveAll
<1>4. Got(t)' = Got(t)
  BY <1>1, <1>2 DEF Got
<1>5. Open' = Open
  BY <1>1, <1>2 DEF Open, SameOthers
<1> QED BY <1>1, <1>2, <1>3, <1>4, <1>5, SettledFifo DEF Node

LEMMA SetFlagFifo ==
    ASSUME FifoInv, QueueInv', NEW t \in Thread, setIsUnconstructed(t)
    PROVE  FifoInv' /\ FifoStep
<1>1. /\ pc[t] = "flag" /\ t \in Open /\ QueueInv /\ Types
      /\ d_element' = [d_element EXCEPT ![my[t].index % Capacity].unconstructed = TRUE]
      /\ Goto(t, "construct") /\ my' = my
      /\ UNCHANGED <<d_pushIndex, d_popIndex>>
  BY DEF setIsUnconstructed, Open, FifoInv, QueueInv
<1>2. SameOthers(t) /\ pc'[t] = "construct" /\ out' = out
  BY <1>1, GotoFrame DEF FifoInv, QueueInv, Labels, Goto
<1>3. PICK k \in Nat, j \in 0 .. Capacity - 1 : k = my[t].index /\ j = k % Capacity
  BY <1>1, Alone, Modulus
<1>4. \A i \in Nat : i % Capacity # j => Node(i)' = Node(i)
  <2>1. d_element' = [d_element EXCEPT ![j].unconstructed = TRUE]
    BY <1>1, <1>3
  <2>2. \A n \in 0 .. Capacity - 1 : n # j => d_element'[n] = d_element[n]
    BY <1>1, <2>1 DEF Types
  <2> QED BY <2>2, Modulus DEF Node
<1>5. ASSUME NEW i \in Places, Pending(i) = {} PROVE Node(i)' = Node(i)
  <2>1. i # k
    BY <1>1, <1>3, <1>5, PendingOne
  <2>2. i \in Nat /\ i % Capacity # j
    BY <1>1, <1>3, <2>1, Alone DEF Places, Types
  <2> QED BY <1>4, <2>2
<1>6. ASSUME NEW u \in Thread \ {t}, pc[u] = "look"
      PROVE  Node(my[u].index)' = Node(my[u].index)
  <2>1. PICK n \in Nat, m \in Nat : n = my[u].index /\ m = my[u].num
    BY <1>1, ThreadTypes
  <2>2. m # 0
    BY <1>1, <1>6, <2>1 DEF QueueInv, ThreadsRight, LocalRight
  <2>3. n \in Indices(u)
    BY <2>1, <2>2 DEF Indices
  <2>4. n % Capacity # j
    BY <1>1, <1>3, <1>6, <2>3, Alone
  <2>5. Node(n)' = Node(n)
    BY <1>4, <2>4
  <2> QED BY <1>1, <2>1, <2>5 DEF Node
<1>7. Open' = Open
  BY <1>1, <1>2 DEF Open, SameOthers
<1>8. out[t] = NoValue /\ Got(t)' = Got(t)
  BY <1>1, <1>2 DEF FifoInv, OutRight, RemoveAll, Got
<1> QED BY <1>1, <1>2, <1>5, <1>6, <1>7, <1>8, SettledFifo

LEMMA PopNodeFifo ==
    ASSUME FifoInv, QueueInv', NEW t \in Thread, popNode(t)
    PROVE  FifoInv' /\ FifoStep
<1>1. /\ pc[t] = "look" /\ op(t) # "removeAll" /\ QueueInv /\ Types
      /\ ~Node(my[t].index).unconstructed
      /\ d_element' = [d_element EXCEPT ![my[t].index % Capacity].val = NoValue]
      /\ out' = [out EXCEPT ![t] = IF NextCall(t).throws THEN @
                                                        ELSE Node(my[t].index).val]
      /\ pc' = [pc EXCEPT ![t] = "finish"]
      /\ UNCHANGED <<d_pushIndex, d_popIndex, my, step, script>>
  BY DEF popNode, FifoInv, QueueInv
<1>2. /\ SameOthers(t) /\ pc'[t] = "finish" /\ op(t)' = op(t) /\ NextCall(t)' = NextCall(t)
      /\ \A u \in Thread \ {t} : out'[u] = out[u]
  BY <1>1, SameCall DEF SameOthers, Types
<1>3. PICK k \in Nat, j \in 0 .. Capacity - 1 : k = my[t].index /\ j = k % Capacity
  BY <1>1, ThreadTypes, Modulus
<1>4. k \in Indices(t)
  <2>1. my[t].num = 1
    BY <1>1, OneSkipped
  <2> QED BY <1>3, <2>1 DEF Indices
<1>5. \A i \in Nat : i % Capacity # j => Node(i)' = Node(i)
  <2>1. d_element' = [d_element EXCEPT ![j].val = NoValue]
    BY <1>1, <1>3
  <2>2. \A n \in 0 .. Capacity - 1 : n # j => d_element'[n] = d_element[n]
    BY <1>1, <2>1 DEF Types
  <2> QED BY <2>2, Modulus DEF Node
<1>6. \A i \in Places : Node(i)' = Node(i)
  BY <1>1, <1>3, <1>4, <1>5, LookAlone
<1>7. ASSUME NEW u \in Thread \ {t}, pc[u] = "look"
      PROVE  Node(my[u].index)' = Node(my[u].index)
  <2>1. PICK n \in Nat : n = my[u].index /\ n % Capacity # j
    BY <1>1, <1>3, <1>4, <1>7, LookAlone
  <2>2. Node(n)' = Node(n)
    BY <1>5, <2>1
  <2> QED BY <1>1, <2>1, <2>2 DEF Node
<1>8. Open' = Open
  BY <1>1, <1>2 DEF Open, SameOthers
<1>9. Got(t)' = Got(t)
  BY <1>1, <1>2 DEF Got, Types
<1>10. out'[t] # NoValue => op(t)' \in Pops /\ pc'[t] \in RemoveAll
  BY <1>1, <1>2 DEF QueueInv, ThreadsRight, CallRight, RemoveAll
<1> QED BY <1>1, <1>2, <1>6, <1>7, <1>8, <1>9, <1>10, SettledFifo

LEMMA DestroyAllFifo ==
    ASSUME FifoInv, QueueInv', NEW t \in Thread, destroyAll(t)
    PROVE  FifoInv' /\ FifoStep
<1> DEFINE nodes == {i % Capacity : i \in my[t].index .. my[t].index + my[t].num - 1}
           live  == {i \in nodes : ~d_element[i].unconstructed}
           new   == [i \in DOMAIN d_element |->
                        IF i \in live THEN [d_element[i] EXCEPT !.val = NoValue]
                                      ELSE d_element[i]]
<1>1. /\ pc[t] = "look" /\ op(t) = "removeAll" /\ QueueInv /\ Types
      /\ d_element' = new
      /\ my' = [my EXCEPT ![t].again = my[t].num - Cardinality(live)]
      /\ Goto(t, "finish")
      /\ UNCHANGED <<d_pushIndex, d_popIndex>>
  BY DEF destroyAll, FifoInv, QueueInv
<1> DEFINE c == Cardinality(live)
<1> HIDE DEF c
<1>2. /\ SameOthers(t) /\ pc'[t] = "finish" /\ op(t)' = op(t) /\ out' = out
      /\ my'[t].index = my[t].index
  <2>1. "finish" \in Labels
    BY DEF Labels
  <2>2. /\ \A u \in Thread \ {t} : my'[u] = my[u]
        /\ my'[t].index = my[t].index
    BY <1>1 DEF Types, Locals
  <2>3. Goto(t, "finish") /\ out' = out
    BY <1>1 DEF Goto
  <2> QED BY <1>1, <2>1, <2>2, <2>3, GotoFrame
<1>3. \A i \in Nat : i % Capacity \notin nodes => Node(i)' = Node(i)
  <2>1. \A n \in 0 .. Capacity - 1 : n \notin nodes => new[n] = d_element[n]
    BY <1>1 DEF Types
  <2> HIDE DEF new, nodes
  <2> QED BY <1>1, <2>1, Modulus DEF Node
<1>4. nodes = {i % Capacity : i \in Indices(t)}
  BY DEF Indices
<1> HIDE DEF nodes, live, new
<1>5. \A i \in Places : Node(i)' = Node(i)
  <2>1. \A i \in Places, k \in Indices(t) : i \in Nat /\ i % Capacity # k % Capacity
    BY <1>1, LookAlone
  <2>2. Places \subseteq Nat
    BY <1>1 DEF Places, Types
  <2> QED BY <1>3, <1>4, <2>1, <2>2
<1>6. ASSUME NEW u \in Thread \ {t}, pc[u] = "look"
      PROVE  Node(my[u].index)' = Node(my[u].index)
  <2>1. PICK n \in Nat : n = my[u].index
    BY <1>1, ThreadTypes
  <2>2. \A k \in Indices(t) : n % Capacity # k % Capacity
    BY <1>1, <1>6, <2>1, LookAlone
  <2>3. Node(n)' = Node(n)
    BY <1>3, <1>4, <2>2
  <2> QED BY <1>2, <2>1, <2>3 DEF Node, SameOthers
<1>7. /\ Open' = Open /\ \A u \in Open : my'[u].index = my[u].index
      /\ \A u \in Thread \ {t} : out'[u] = out[u]
  BY <1>1, <1>2 DEF Open, SameOthers
<1>8. Got(t)' = Got(t) /\ out'[t] = NoValue
  BY <1>1, <1>2 DEF Got, FifoInv, OutRight, RemoveAll
<1> QED BY <1>1, <1>2, <1>5, <1>6, <1>7, <1>8, SettledFifo

\* An item whose place keeps its push and its node.
LEMMA ItemKept ==
    ASSUME NEW k \in Nat, Pending(k)' = Pending(k), Pending(k) = {} => Node(k)' = Node(k)
    PROVE  Item(k)' = Item(k)
BY DEF Item

LEMMA ItemBy ==
    ASSUME NEW k
    PROVE  /\ Item(k).by = None \/ Item(k).by \in Pending(k)
           /\ Pending(k) = {} => /\ Item(k).by = None
                                 /\ ~Node(k).unconstructed => Item(k).val = Node(k).val
<1>1. CASE Pending(k) = {}
  BY <1>1 DEF Item
<1>2. CASE Pending(k) # {}
  <2>1. (CHOOSE t \in Pending(k) : TRUE) \in Pending(k)
    BY <1>2
  <2> QED BY <1>2, <2>1 DEF Item, Writing
<1> QED BY <1>1, <1>2

WrittenRight ==
    \A t \in Open : \A k \in Nat : k = my[t].index => Item(k) = Writing(t)

LEMMA PendingItem == QueueInv => WrittenRight
BY PendingOne DEF WrittenRight

\* A push takes its place: the FIFO reserves it.
LEMMA PushIndexFifo ==
    ASSUME FifoInv, QueueInv', NEW t \in Thread, pushIndex(t)
    PROVE  FifoInv' /\ FifoStep
<1>1. /\ pc[t] = "index" /\ Side(t) = "push" /\ QueueInv /\ Types
      /\ my' = [my EXCEPT ![t].index = d_pushIndex]
      /\ d_pushIndex' = d_pushIndex + 1
      /\ Goto(t, "flag")
      /\ UNCHANGED <<d_popIndex, d_element>>
  BY DEF pushIndex, FifoInv, QueueInv
<1>2. PICK p \in Nat, q \in Nat : p = d_popIndex /\ q = d_pushIndex /\ p <= q
  BY <1>1 DEF QueueInv, Types, PlacesRight
<1>3. /\ SameOthers(t) /\ pc'[t] = "flag" /\ op(t)' = op(t) /\ out' = out
      /\ my'[t].index = q /\ t \notin Open /\ t \in Open'
  <2>1. "flag" \in Labels
    BY DEF Labels
  <2>2. /\ \A u \in Thread \ {t} : my'[u] = my[u]
        /\ my'[t].index = q
    BY <1>1, <1>2 DEF Types, Locals
  <2> QED BY <1>1, <2>1, <2>2, GotoFrame DEF Goto, Open
<1>4. /\ itemsBar \in Seq(ItemValues) /\ Len(itemsBar) = q - p
      /\ \A i \in 1 .. q - p : itemsBar[i] = Item(p + i - 1)
  BY <1>1, <1>2, ItemsAre
<1>5. /\ itemsBar' \in Seq(ItemValues) /\ Len(itemsBar') = (q + 1) - p
      /\ \A i \in 1 .. (q + 1) - p : itemsBar'[i] = Item(p + i - 1)'
  <2>1. q + 1 \in Nat /\ d_popIndex' = p /\ d_pushIndex' = q + 1
    BY <1>1, <1>2
  <2> QED BY <2>1, ItemsAreNext
<1>6. ASSUME NEW k \in Nat, k # q PROVE Item(k)' = Item(k)
  <2>1. Pending(k)' = Pending(k)
    BY <1>1, <1>3, <1>6 DEF Pending, SameOthers
  <2> QED BY <1>1, <2>1, ItemKept DEF Node
<1>7. Item(q)' = Writing(t)
  <2>1. QueueInv' => WrittenRight'
    BY PendingItem, PTL
  <2> QED BY <1>3, <2>1 DEF WrittenRight, Writing
<1>8. itemsBar' = Append(itemsBar, Writing(t))
  <2>1. Writing(t) \in ItemValues
    BY DEF Writing, ItemValues
  <2>2. Len(itemsBar') = Len(itemsBar) + 1
    BY <1>2, <1>4, <1>5
  <2>3. itemsBar'[Len(itemsBar')] = Writing(t)
    <3>1. PICK n \in Nat : n = (q + 1) - p
      BY <1>2
    <3>2. n \in 1 .. (q + 1) - p /\ p + n - 1 = q
      BY <1>2, <3>1
    <3>3. itemsBar'[n] = Item(p + n - 1)'
      BY <1>5, <3>2
    <3> QED BY <1>5, <1>7, <3>1, <3>2, <3>3
  <2>4. ASSUME NEW i \in 1 .. Len(itemsBar) PROVE itemsBar'[i] = itemsBar[i]
    <3>1. i \in 1 .. q - p /\ i \in 1 .. (q + 1) - p
      BY <1>2, <1>4
    <3>2. PICK k \in Nat : k = p + i - 1 /\ k # q
      BY <1>2, <3>1
    <3>3. itemsBar[i] = Item(k) /\ itemsBar'[i] = Item(k)'
      BY <1>4, <1>5, <3>1, <3>2
    <3> QED BY <1>6, <3>2, <3>3
  <2> QED BY <1>4, <1>5, <2>1, <2>2, <2>3, <2>4, Grown
<1>9. outBar' = outBar
  <2>1. \A u \in Thread \ {t} : Got(u)' = Got(u)
    BY <1>1, <1>3, GotSame DEF Node, SameOthers
  <2>2. Got(t)' = Got(t)
    BY <1>1, <1>3 DEF Got
  <2> QED BY <2>1, <2>2, OutBars
<1>10. Len(itemsBar) < Capacity
  <2>1. Wants("push", t) >= 1
    <3>1. CallRight(t) /\ LocalRight(t)
      BY <1>1 DEF QueueInv, ThreadsRight
    <3>2. my[t].num # 0 /\ my[t].num \in Nat
      BY <1>1, <3>1, ThreadTypes DEF LocalRight
    <3> QED BY <1>1, <3>2 DEF Wants
  <2>2. Rights("push") >= 1 /\ Rights("push") \in Nat /\ Done("pop") \in Nat
    <3>1. /\ "push" \in Sides /\ "pop" \in Sides /\ Other("push") = "pop"
      BY DEF Sides, Other
    <3>2. /\ Rights("push") \in Nat /\ Done("pop") \in Nat
          /\ sem["push"].tokens \in Nat /\ AllWanted("push") \in Nat
          /\ AllOwed("pop") \in Nat
      BY <1>1, <3>1, SumTypes
    <3>3. AllWanted("push") >= Wants("push", t)
      <4>1. \A u \in Thread : Wants("push", u) \in Nat
        BY <1>1, <3>1, ShareTypes
      <4>2. PICK f : f = [u \in Thread |-> Wants("push", u)]
        OBVIOUS
      <4>3. f \in [Thread -> Nat] /\ f[t] = Wants("push", t)
        BY <4>1, <4>2
      <4>4. f[t] <= SumOf(f)
        BY <4>3, SumChange
      <4> QED BY <4>2, <4>3, <4>4 DEF AllWanted
    <3>4. Rights("push") = sem["push"].tokens + AllWanted("push") + AllOwed("pop")
      BY <3>1 DEF Rights
    <3>5. Wants("push", t) \in Nat
      BY <1>1, <3>1, ShareTypes
    <3> QED BY <2>1, <3>2, <3>3, <3>4, <3>5
  <2>3. Capacity = Rights("push") + (q - p) + Done("pop")
    BY <1>1, <1>2 DEF QueueInv, PlacesCounted
  <2> QED BY <1>2, <1>4, <2>2, <2>3, Constants
<1>11. ASSUME NEW i \in 1 .. Len(itemsBar) PROVE itemsBar[i].by # t
  <2>1. PICK k : k = p + i - 1
    OBVIOUS
  <2>2. itemsBar[i] = Item(k)
    BY <1>4, <2>1
  <2>3. t \notin Pending(k)
    BY <1>1 DEF Pending
  <2>4. None # t
    BY QueueAssumption DEF QueueAssumption
  <2> QED BY <2>2, <2>3, <2>4, ItemBy
<1>12. FifoStep
  <2>1. Fifo!Reserve(t)
    BY <1>8, <1>9, <1>10, <1>11 DEF Fifo!Reserve, Fifo!Writing, Writing
  <2> QED BY <2>1 DEF FifoStep, Fifo!Next
<1>13. ValuesThere'
  <2>1. SUFFICES ASSUME NEW i \in Filled' PROVE Node(i)'.val \in Value
    BY DEF ValuesThere
  <2>2. i \in Places' /\ ~Node(i).unconstructed /\ Node(i)' = Node(i)
    BY <1>1, <2>1 DEF Filled, Node
  <2>3. i # q /\ \A u \in Open : my[u].index # i
    BY <1>3, <2>1 DEF Filled, Open, SameOthers
  <2>4. i \in Places
    BY <1>1, <1>2, <2>2, <2>3 DEF Places
  <2> QED BY <2>2, <2>3, <2>4 DEF Filled, FifoInv, ValuesThere
<1>14. LooksApart'
  BY <1>3, LookKept
<1>15. OutRight'
  <2>1. out'[t] = NoValue
    BY <1>1, <1>3 DEF FifoInv, OutRight, RemoveAll
  <2> QED BY <1>3, <2>1, OutKept
<1> QED BY <1>12, <1>13, <1>14, <1>15 DEF FifoInv

\* A push leaves its place: what is in it is one item of the FIFO.
LEMMA PlaceLeft ==
    ASSUME FifoInv, QueueInv', NEW t \in Thread, pc[t] = "construct", SameOthers(t),
           pc'[t] \notin {"flag", "construct", "look"}, my' = my, out' = out,
           UNCHANGED <<d_pushIndex, d_popIndex>>,
           NEW k \in Nat, k = my[t].index, NEW e \in ItemValues, Item(k)' = e,
           \A i \in Nat : i % Capacity # k % Capacity => Node(i)' = Node(i),
           ~Node(k)'.unconstructed => Node(k)'.val \in Value
    PROVE  /\ FifoInv'
           /\ outBar' = outBar
           /\ \E i \in 1 .. Len(itemsBar) :
                 itemsBar[i] = Writing(t) /\ itemsBar' = [itemsBar EXCEPT ![i] = e]
<1>1. QueueInv /\ Types /\ t \in Open /\ Places \subseteq Nat
  BY DEF FifoInv, QueueInv, Types, Open, Places
<1>2. PICK p \in Nat, q \in Nat :
         p = d_popIndex /\ q = d_pushIndex /\ d_popIndex' = p /\ d_pushIndex' = q /\ p <= q
  BY <1>1 DEF QueueInv, Types, PlacesRight
<1>3. /\ k \in Places /\ p <= k /\ k < q /\ Places' = Places
  <2>1. k \in Places /\ Places' = Places
    BY <1>1, OpenTypes DEF Places
  <2> QED BY <1>2, <2>1 DEF Places
<1>4. ASSUME NEW i \in Places, i # k PROVE i \in Nat /\ Node(i)' = Node(i)
  <2>1. i \in Nat /\ i % Capacity # k % Capacity
    BY <1>1, <1>4, Alone
  <2> QED BY <2>1
<1>5. ASSUME NEW i \in Places, i # k PROVE Item(i)' = Item(i)
  <2>1. Pending(i)' = Pending(i)
    BY <1>5 DEF Pending, SameOthers
  <2> QED BY <1>4, <1>5, <2>1, ItemKept
<1>6. /\ itemsBar \in Seq(ItemValues) /\ Len(itemsBar) = q - p
      /\ \A i \in 1 .. q - p : itemsBar[i] = Item(p + i - 1)
  BY <1>1, <1>2, ItemsAre
<1>7. /\ itemsBar' \in Seq(ItemValues) /\ Len(itemsBar') = q - p
      /\ \A i \in 1 .. q - p : itemsBar'[i] = Item(p + i - 1)'
  BY <1>2, ItemsAreNext
<1>8. PICK j \in 1 .. q - p : k = p + j - 1
  <2>1. (k - p) + 1 \in 1 .. q - p /\ k = p + ((k - p) + 1) - 1
    BY <1>2, <1>3
  <2> QED BY <2>1
<1>9. itemsBar[j] = Writing(t) /\ itemsBar'[j] = e
  BY <1>1, <1>6, <1>7, <1>8, PendingOne
<1>10. ASSUME NEW i \in 1 .. q - p, i # j PROVE itemsBar'[i] = itemsBar[i]
  <2>1. PICK n : n = p + i - 1 /\ n \in Places /\ n # k
    BY <1>2, <1>8, <1>10 DEF Places
  <2>2. itemsBar[i] = Item(n) /\ itemsBar'[i] = Item(n)'
    BY <1>6, <1>7, <2>1
  <2> QED BY <1>5, <2>1, <2>2
<1>11. itemsBar' = [itemsBar EXCEPT ![j] = e]
  BY <1>6, <1>7, <1>9, <1>10, Changed
<1>12. ASSUME NEW u \in Thread \ {t}, pc[u] = "look"
      PROVE  Node(my[u].index)' = Node(my[u].index)
  <2>1. PICK n \in Nat, m \in Nat : n = my[u].index /\ m = my[u].num
    BY <1>1, ThreadTypes
  <2>2. m # 0
    BY <1>1, <1>12, <2>1 DEF QueueInv, ThreadsRight, LocalRight
  <2>3. n \in Indices(u)
    BY <2>1, <2>2 DEF Indices
  <2>4. n % Capacity # k % Capacity
    BY <1>1, <1>12, <2>3, Alone
  <2>5. Node(n)' = Node(n)
    BY <2>4
  <2> QED BY <2>1, <2>5 DEF Node
<1>13. outBar' = outBar
  <2>1. \A u \in Thread \ {t} : Got(u)' = Got(u)
    BY <1>12, GotSame
  <2>2. Got(t)' = Got(t)
    BY DEF Got
  <2> QED BY <2>1, <2>2, OutBars
<1>14. ValuesThere'
  <2>1. SUFFICES ASSUME NEW i \in Filled' PROVE Node(i)'.val \in Value
    BY DEF ValuesThere
  <2>2. i \in Places /\ ~Node(i)'.unconstructed
    BY <1>3, <2>1 DEF Filled
  <2>3. CASE i = k
    BY <2>2, <2>3
  <2>4. CASE i # k
    <3>1. Node(i)' = Node(i)
      BY <1>4, <2>2, <2>4
    <3>2. ASSUME NEW u \in Open PROVE my[u].index # i
      <4>1. CASE u = t
        BY <2>4, <4>1
      <4>2. CASE u # t
        <5>1. u \in Open'
          BY <4>2 DEF Open, SameOthers
        <5> QED BY <2>1, <5>1 DEF Filled
      <4> QED BY <4>1, <4>2
    <3>3. i \in Filled
      BY <2>2, <3>1, <3>2 DEF Filled
    <3> QED BY <3>1, <3>3 DEF FifoInv, ValuesThere
  <2> QED BY <2>3, <2>4
<1>15. LooksApart'
  BY LookKept
<1>16. OutRight'
  <2>1. out'[t] = NoValue
    BY <1>1 DEF FifoInv, OutRight, RemoveAll
  <2> QED BY <2>1, OutKept
<1> QED BY <1>6, <1>9, <1>11, <1>13, <1>14, <1>15, <1>16 DEF FifoInv

\* The value is constructed, and the FIFO publishes it, or its constructor throws, and
\* the push of the FIFO fails.
LEMMA ConstructFifo ==
    ASSUME FifoInv, QueueInv', NEW t \in Thread, construct(t)
    PROVE  FifoInv' /\ FifoStep
<1>1. /\ pc[t] = "construct" /\ t \in Open /\ my' = my /\ QueueInv /\ Types
      /\ UNCHANGED <<d_pushIndex, d_popIndex>>
  BY DEF construct, OnlyQueue, Open, FifoInv, QueueInv
<1>2. PICK k \in Nat, j \in 0 .. Capacity - 1 : k = my[t].index /\ j = k % Capacity
  BY <1>1, Alone, Modulus
<1>3. step[t] < Len(script[t]) /\ op(t) \in Pushes /\ Node(k).unconstructed
  BY <1>1, <1>2 DEF QueueInv, ThreadsRight, CallRight, LocalRight
<1>4. PICK v \in Value : v = NextCall(t).val
  BY <1>1, <1>3, CallTypes
<1>5. \A u \in Thread : u \in Pending(k) => u = t
  <2>1. Pending(k) = {t}
    BY <1>1, <1>2, PendingOne
  <2> QED BY <2>1
<1>6. CASE Goto(t, "fail") /\ UNCHANGED d_element
  <2>1. SameOthers(t) /\ pc'[t] = "fail" /\ out' = out
    BY <1>1, <1>6, GotoFrame DEF Labels, Goto
  <2> DEFINE e == [by |-> None, val |-> NoValue]
  <2>2. e \in ItemValues
    BY DEF ItemValues
  <2>3. Pending(k)' = {}
    BY <1>1, <1>5, <2>1 DEF Pending, SameOthers
  <2>4. Node(k)' = Node(k) /\ \A i \in Nat : Node(i)' = Node(i)
    BY <1>6 DEF Node
  <2>5. Item(k)' = e
    BY <1>3, <2>3, <2>4 DEF Item
  <2>6. /\ FifoInv' /\ outBar' = outBar
        /\ \E i \in 1 .. Len(itemsBar) :
              itemsBar[i] = Writing(t) /\ itemsBar' = [itemsBar EXCEPT ![i] = e]
    <3> HIDE DEF e
    <3> QED BY <1>1, <1>2, <1>3, <2>1, <2>2, <2>4, <2>5, PlaceLeft
  <2>7. PICK i \in 1 .. Len(itemsBar) :
           itemsBar[i] = Writing(t) /\ itemsBar' = [itemsBar EXCEPT ![i] = e]
    BY <2>6
  <2>8. [itemsBar[i] EXCEPT !.by = None] = e
    BY <2>7 DEF Writing
  <2>9. itemsBar' = [itemsBar EXCEPT ![i].by = None]
    BY <2>7, <2>8
  <2>10. Fifo!Fail(t)
    BY <2>6, <2>7, <2>9 DEF Fifo!Fail, Fifo!Writing, Writing
  <2> QED BY <2>6, <2>10 DEF FifoStep, Fifo!Next
<1>7. CASE /\ d_element' = [d_element EXCEPT ![my[t].index % Capacity] =
                               [unconstructed |-> FALSE, val |-> NextCall(t).val]]
           /\ Goto(t, "finish")
  <2>1. SameOthers(t) /\ pc'[t] = "finish" /\ out' = out
    BY <1>1, <1>7, GotoFrame DEF Labels, Goto
  <2> DEFINE e == [by |-> None, val |-> v]
  <2>2. e \in ItemValues
    BY DEF ItemValues
  <2>3. Pending(k)' = {}
    BY <1>1, <1>5, <2>1 DEF Pending, SameOthers
  <2>4. d_element' = [d_element EXCEPT ![j] = [unconstructed |-> FALSE, val |-> v]]
    BY <1>2, <1>4, <1>7
  <2>5. /\ Node(k)'.val = v /\ ~Node(k)'.unconstructed
        /\ \A i \in Nat : i % Capacity # k % Capacity => Node(i)' = Node(i)
    <3>1. /\ d_element'[j] = [unconstructed |-> FALSE, val |-> v]
          /\ \A n \in 0 .. Capacity - 1 : n # j => d_element'[n] = d_element[n]
      BY <1>1, <2>4 DEF Types
    <3> QED BY <1>2, <3>1, Modulus DEF Node
  <2>6. Item(k)' = e
    BY <2>3, <2>5 DEF Item
  <2>7. /\ FifoInv' /\ outBar' = outBar
        /\ \E i \in 1 .. Len(itemsBar) :
              itemsBar[i] = Writing(t) /\ itemsBar' = [itemsBar EXCEPT ![i] = e]
    <3> HIDE DEF e
    <3> QED BY <1>1, <1>2, <2>1, <2>2, <2>5, <2>6, PlaceLeft
  <2>8. Fifo!Publish(t)
    BY <2>7 DEF Fifo!Publish, Fifo!Writing, Fifo!Full, Writing
  <2> QED BY <2>7, <2>8 DEF FifoStep, Fifo!Next
<1> QED BY <1>6, <1>7 DEF construct

\* A pop has its places: the FIFO gives the oldest value, or discards them.
LEMMA PopIndexFifo ==
    ASSUME FifoInv, QueueInv', NEW t \in Thread, popIndex(t)
    PROVE  FifoInv' /\ FifoStep
<1>1. /\ pc[t] = "index" /\ QueueInv /\ Types
      /\ my' = [my EXCEPT ![t].index = d_popIndex]
      /\ d_popIndex' = d_popIndex + my[t].num
      /\ Goto(t, "look")
      /\ UNCHANGED <<d_pushIndex, d_element>>
  BY DEF popIndex, FifoInv, QueueInv
<1>2. PICK n \in Nat, p \in Nat, q \in Nat :
         my[t].num = n /\ d_popIndex = p /\ d_pushIndex = q /\ d_pushIndex' = q
  BY <1>1, ThreadTypes DEF Types
<1>3. /\ SameOthers(t) /\ pc'[t] = "look" /\ op(t)' = op(t) /\ out' = out
      /\ NextCall(t)' = NextCall(t) /\ my'[t].index = p /\ my'[t].num = n
      /\ \A u \in Thread \ {t} : my'[u] = my[u]
  <2>1. "look" \in Labels
    BY DEF Labels
  <2>2. /\ \A u \in Thread \ {t} : my'[u] = my[u]
        /\ my'[t].index = p /\ my'[t].num = n
    BY <1>1, <1>2 DEF Types, Locals
  <2> QED BY <1>1, <2>1, <2>2, GotoFrame DEF Goto
<1>4. /\ n # 0 /\ (op(t) # "removeAll" => n = 1)
      /\ p + n \in Nat /\ d_popIndex' = p + n /\ p + n <= q
  <2>1. n # 0 /\ (op(t) # "removeAll" => n = 1)
    BY <1>1, <1>2 DEF QueueInv, ThreadsRight, LocalRight
  <2>2. p + n \in Nat /\ d_popIndex' = p + n
    BY <1>1, <1>2
  <2>3. d_popIndex' <= d_pushIndex'
    BY DEF QueueInv, PlacesRight
  <2> QED BY <1>2, <2>1, <2>2, <2>3
<1>5. Open' = Open /\ \A u \in Open : my'[u].index = my[u].index /\ p + n <= my[u].index
  <2>1. Open' = Open /\ t \notin Open
    BY <1>1, <1>3 DEF Open, SameOthers
  <2>2. ASSUME NEW u \in Open PROVE my'[u].index = my[u].index /\ p + n <= my[u].index
    <3>1. u \in Open' /\ my'[u] = my[u]
      BY <1>3, <2>1 DEF Open
    <3>2. my'[u].index \in Places'
      BY <3>1 DEF QueueInv, PlacesRight
    <3> QED BY <1>2, <1>4, <3>1, <3>2 DEF Places
  <2> QED BY <2>1, <2>2
<1>6. \A k \in Nat : Pending(k)' = Pending(k)
  BY <1>1, <1>3, <1>5 DEF Pending, Open, SameOthers
<1>7. \A k \in Nat : Item(k)' = Item(k)
  BY <1>1, <1>6, ItemKept DEF Node
<1>8. /\ itemsBar \in Seq(ItemValues) /\ Len(itemsBar) = q - p
      /\ \A i \in 1 .. q - p : itemsBar[i] = Item(p + i - 1)
  BY <1>1, <1>2, ItemsAre
<1>9. /\ itemsBar' \in Seq(ItemValues) /\ Len(itemsBar') = q - (p + n)
      /\ \A i \in 1 .. q - (p + n) : itemsBar'[i] = Item((p + n) + i - 1)'
  BY <1>2, <1>4, ItemsAreNext
<1>10. /\ n \in 1 .. Len(itemsBar)
       /\ itemsBar' = SubSeq(itemsBar, n + 1, Len(itemsBar))
       /\ n = 1 => itemsBar' = Tail(itemsBar)
  <2>0. n # 0 /\ p + n <= q /\ Len(itemsBar) = q - p /\ Len(itemsBar') = q - (p + n)
    BY <1>4, <1>8, <1>9
  <2>1. n \in 1 .. Len(itemsBar) /\ Len(itemsBar') = Len(itemsBar) - n
    BY <2>0
  <2>2. ASSUME NEW i \in 1 .. Len(itemsBar') PROVE itemsBar'[i] = itemsBar[i + n]
    <3>1. i \in 1 .. q - (p + n) /\ i + n \in 1 .. q - p
      BY <2>0
    <3>2. PICK k \in Nat : k = (p + n) + i - 1 /\ k = p + (i + n) - 1
      BY <3>1
    <3>3. itemsBar'[i] = Item(k)' /\ itemsBar[i + n] = Item(k)
      BY <1>8, <1>9, <3>1, <3>2
    <3> QED BY <1>7, <3>3
  <2> QED BY <1>8, <1>9, <2>1, <2>2, Slid, SMTT(20)
<1>11. \A i \in 1 .. n : itemsBar[i].by = None
  <2>1. SUFFICES ASSUME NEW i \in 1 .. n PROVE itemsBar[i].by = None
    OBVIOUS
  <2>2. PICK k \in Nat : k = p + i - 1 /\ k < p + n
    BY <1>2
  <2>3. itemsBar[i] = Item(k)
    BY <1>2, <1>4, <1>8, <2>2
  <2>4. Pending(k) = {}
    BY <1>1, <1>2, <1>5, <2>2, PendingOne
  <2> QED BY <2>3, <2>4, ItemBy
<1>12. \A u \in Thread \ {t} : Got(u)' = Got(u)
  BY <1>1, <1>3, GotSame DEF Node, SameOthers
<1>13. out[t] = NoValue /\ Got(t) = NoValue
  BY <1>1 DEF FifoInv, OutRight, RemoveAll, Got
<1>14. /\ ValuesThere' /\ LooksApart' /\ OutRight'
  <2>1. ValuesThere'
    <3>1. SUFFICES ASSUME NEW i \in Filled' PROVE Node(i)'.val \in Value
      BY DEF ValuesThere
    <3>2. i \in Places
      BY <1>1, <1>2, <1>4 DEF Filled, Places
    <3>3. i \in Filled /\ Node(i)' = Node(i)
      BY <1>1, <1>5, <3>1, <3>2 DEF Filled, Node
    <3> QED BY <3>3 DEF FifoInv, ValuesThere
  <2>2. LooksApart'
    <3>1. ASSUME NEW u \in Thread \ {t}, pc[u] = "look"
          PROVE  my[u].index + my[u].num <= p
      BY <1>1, <1>2, <3>1 DEF QueueInv, PlacesRight
    <3>2. \A u \in Thread \ {t} : pc'[u] = pc[u] /\ my'[u] = my[u]
      BY <1>3 DEF SameOthers
    <3> QED BY <1>3, <3>1, <3>2 DEF FifoInv, LooksApart
  <2>3. OutRight'
    BY <1>3, <1>13, OutKept
  <2> QED BY <2>1, <2>2, <2>3
<1>15. CASE op(t) # "removeAll" /\ ~NextCall(t).throws /\ ~Node(p).unconstructed
  <2>1. n = 1 /\ Pending(p) = {} /\ p \in Filled
    <3>1. n = 1 /\ p \in Places
      BY <1>2, <1>4, <1>15 DEF Places
    <3>2. \A u \in Open : my[u].index # p
      BY <1>2, <1>4, <1>5, <1>1, OpenTypes DEF Open
    <3> QED BY <1>1, <1>15, <3>1, <3>2, PendingOne DEF Filled
  <2>2. PICK v \in Value : v = Node(p).val
    BY <2>1 DEF FifoInv, ValuesThere
  <2>3. itemsBar[1].val = v
    <3>1. itemsBar[1] = Item(p)
      BY <1>2, <1>8, <1>10, <2>1
    <3> QED BY <1>15, <2>1, <2>2, <3>1, ItemBy
  <2>4. itemsBar # <<>> /\ Head(itemsBar) = itemsBar[1] /\ itemsBar' = Tail(itemsBar)
    BY <1>8, <1>10, <2>1, EmptySeq, HeadTailProperties
  <2>5. Got(t)' = v
    BY <1>1, <1>3, <1>15, <2>2 DEF Got, Node
  <2>6. outBar' = [outBar EXCEPT ![t] = v] /\ outBar[t] = NoValue
    BY <1>12, <1>13, <2>5, OutBars
  <2>7. Fifo!Take(t)
    BY <2>2, <2>3, <2>4, <2>6, Constants DEF Fifo!Take, Fifo!HeadIsFull
  <2> QED BY <1>14, <2>7 DEF FifoInv, FifoStep, Fifo!Next
<1>16. CASE ~(op(t) # "removeAll" /\ ~NextCall(t).throws /\ ~Node(p).unconstructed)
  <2>1. Got(t)' = Got(t)
    BY <1>1, <1>3, <1>13, <1>16 DEF Got, Node
  <2>2. outBar' = outBar
    BY <1>12, <2>1, OutBars
  <2>3. Fifo!Discard
    BY <1>10, <1>11, <2>2 DEF Fifo!Discard
  <2> QED BY <1>14, <2>3 DEF FifoInv, FifoStep, Fifo!Next
<1> QED BY <1>15, <1>16

LEMMA OwnFifo ==
    ASSUME FifoInv, QueueInv', NEW t \in Thread, Own(t)
    PROVE  FifoInv' /\ FifoStep
<1>1. CASE \/ wait(t) \/ refund(t) \/ grant(t) \/ removeAll(t) \/ markStartedOperation(t)
           \/ pushExceptionComplete(t) \/ markFinishedOperation(t)
           \/ swapCount(t) \/ post(t)
  BY <1>1, TakingQuiet, CompletingQuiet, QuietFifo
<1>2. CASE \/ readWaiterCount(t) \/ checkEmpty(t) \/ updateEmptyCountSeen(t)
           \/ fence(t) \/ broadcast(t)
           \/ waitUntilEmpty(t) \/ readDisabledState(t) \/ peek(t) \/ decide(t) \/ sleep(t)
           \/ disable(t) \/ drain(t) \/ enable(t)
  BY <1>2, TellingQuiet, WaitingQuiet, QuietFifo
<1>3. CASE \/ pushIndex(t) \/ setIsUnconstructed(t) \/ construct(t)
           \/ popIndex(t) \/ markReclaimed(t) \/ popNode(t) \/ destroyAll(t)
  BY <1>3, PushIndexFifo, SetFlagFifo, ConstructFifo, PopIndexFifo, MarkReclaimedFifo,
     PopNodeFifo, DestroyAllFifo
<1> QED BY <1>1, <1>2, <1>3 DEF Own

LEMMA UnchangedFifo ==
    ASSUME FifoInv, QueueInv', UNCHANGED vars
    PROVE  FifoInv' /\ FifoStep
<1>1. UNCHANGED <<d_pushIndex, d_popIndex, d_element, pc, my, step, script, out>>
  BY DEF vars, queue
<1>2. QueueInv /\ Open' = Open /\ Places' = Places /\ Filled' = Filled
  BY <1>1 DEF FifoInv, Open, Places, Filled, Node
<1>3. itemsBar' = itemsBar
  BY <1>1, <1>2, ItemsSame DEF Node
<1>4. \A t \in Thread : op(t)' = op(t) /\ NextCall(t)' = NextCall(t)
  BY <1>1, SameCall
<1>5. outBar' = outBar
  <2>1. \A t \in Thread : Got(t)' = Got(t)
    BY <1>1, <1>4 DEF Got, Node
  <2> QED BY <2>1, OutBars
<1>6. ValuesThere' /\ LooksApart' /\ OutRight'
  BY <1>1, <1>2, <1>4 DEF FifoInv, ValuesThere, LooksApart, OutRight, Node
<1> QED BY <1>3, <1>5, <1>6 DEF FifoInv, FifoStep

LEMMA NextFifo ==
    ASSUME FifoInv, [Next]_vars
    PROVE  FifoInv' /\ FifoStep
<1>1. QueueInv'
  BY NextKeeps DEF FifoInv
<1>2. CASE UNCHANGED vars
  BY <1>1, <1>2, UnchangedFifo
<1>3. ASSUME NEW t \in Thread, Own(t) PROVE FifoInv' /\ FifoStep
  BY <1>1, <1>3, OwnFifo
<1>4. ASSUME NEW t \in Thread, wakeSpuriously(t) PROVE FifoInv' /\ FifoStep
  BY <1>1, <1>4, WakeQuiet, QuietFifo
<1> QED BY <1>2, <1>3, <1>4 DEF Next

LEMMA InitFifo == Init => FifoInv /\ Fifo!Init
<1> SUFFICES ASSUME Init PROVE FifoInv /\ Fifo!Init
  OBVIOUS
<1>1. QueueInv
  BY InitHolds
<1>2. /\ \A t \in Thread : pc[t] = "idle" /\ out[t] = NoValue
      /\ Filled = {} /\ d_pushIndex - d_popIndex = 0
  BY DEF Init, Filled, Places
<1>3. FifoInv
  BY <1>1, <1>2 DEF FifoInv, ValuesThere, LooksApart, OutRight
<1>4. itemsBar = <<>>
  <2>1. itemsBar \in Seq(ItemValues) /\ Len(itemsBar) = 0
    BY <1>1, <1>2, ItemsAre
  <2> QED BY <2>1, EmptySeq
<1>5. outBar = [t \in Thread |-> NoValue]
  <2>1. \A t \in Thread : Got(t) = NoValue
    BY <1>2 DEF Got
  <2> QED BY <2>1, OutBars
<1> QED BY <1>3, <1>4, <1>5 DEF Fifo!Init

\* What is in the places and what a pop looks at is apart and in order, in every state.
THEOREM PlacesInOrder == Spec => []FifoInv
<1>1. Init => FifoInv
  BY InitFifo
<1>2. FifoInv /\ [Next]_vars => FifoInv'
  BY NextFifo
<1> QED BY <1>1, <1>2, PTL DEF Spec

\* The queue is a bounded FIFO: values leave in the order of their places, each once
\* and only after they were constructed, whatever pushes and pops are under way at once
\* and whichever of their constructors and assignments throw.
THEOREM QueueIsFifo == Spec => ImplementsFifo
<1>1. Init => Fifo!Init
  BY InitFifo
<1>2. FifoInv /\ [Next]_vars => [Fifo!Next]_<<itemsBar, outBar>>
  BY NextFifo DEF FifoStep
<1> QED BY <1>1, <1>2, PlacesInOrder, PTL DEF Spec, ImplementsFifo, Fifo!Spec

-----------------------------------------------------------------------------
(* waitUntilEmpty is told the truth *)

Waiting == {"state", "peek", "lock", "decided", "asleep"}

\* The calls of waitUntilEmpty that were begun.
Begun ==
    {c \in WaitCalls(script) :
        \/ c[2] <= step[c[1]]
        \/ c[2] = step[c[1]] + 1 /\ pc[c[1]] \in Waiting}

CallsWait ==
    \A t \in Thread : pc[t] # "idle" => (pc[t] \in Waiting <=> op(t) = "waitUntilEmpty")

\* The counter counts the calls, and what was read of it is not ahead of it.
ReadingsRight ==
    /\ d_emptyWaiterCount = Cardinality(Begun)
    /\ d_emptyCountSeen <= d_emptyWaiterCount
    /\ \A t \in Thread :
          /\ pc[t] \in Waiting => my[t].empty < d_emptyWaiterCount
          /\ pc[t] \in {"empty", "seen"} => my[t].empty <= d_emptyWaiterCount

\* Who came before a reading that was followed by a sight of the empty queue
\* has been waiting when it was empty.
ToldRight ==
    \A t \in Thread : pc[t] \in Waiting =>
        /\ isEmpty => wasEmpty[t]
        /\ my[t].empty < d_emptyCountSeen => wasEmpty[t]
        /\ \A u \in Thread :
              pc[u] = "seen" /\ my[t].empty < my[u].empty => wasEmpty[t]

EmptyInv == QueueInv /\ CallsWait /\ ReadingsRight /\ ToldRight

LEMMA CallsFinite ==
    ASSUME FewWaits, Types
    PROVE  /\ IsFiniteSet(WaitCalls(script))
           /\ Cardinality(WaitCalls(script)) \in Nat
           /\ Cardinality(WaitCalls(script)) <= Circle \div 2
<1> DEFINE T == {{t} \X (1 .. Len(script[t])) : t \in Thread}
           g == [t \in Thread |-> {t} \X (1 .. Len(script[t]))]
<1>1. script \in Scripts /\ \A t \in Thread : Len(script[t]) \in Nat
  BY Constants DEF Types
<1>2. g \in Surjection(Thread, T)
  BY DEF Surjection
<1>3. IsFiniteSet(T)
  BY <1>2, Constants, FS_Surjection
<1>4. \A t \in Thread : IsFiniteSet({t} \X (1 .. Len(script[t])))
  BY <1>1, RowSize
<1>5. IsFiniteSet(UNION T)
  <2>1. \A S \in T : IsFiniteSet(S)
    BY <1>4
  <2> QED BY <1>3, <2>1, FS_UNION
<1>6. IsFiniteSet(WaitCalls(script)) /\ Cardinality(WaitCalls(script)) \in Nat
  BY <1>5, FS_Subset, FS_CardinalityType DEF WaitCalls
<1> QED BY <1>1, <1>6 DEF FewWaits

LEMMA OnCircle ==
    ASSUME NEW m \in Nat, NEW n \in Nat, m <= Circle \div 2, n <= Circle \div 2
    PROVE  circularlyGreater(m, n) <=> m > n
<1>1. PICK h \in Nat : h = Circle \div 2
  BY Constants
<1> QED BY <1>1 DEF circularlyGreater

LEMMA Readings ==
    ASSUME FewWaits, EmptyInv
    PROVE  /\ d_emptyWaiterCount \in Nat /\ d_emptyCountSeen \in Nat
           /\ Circle \div 2 \in Nat
           /\ d_emptyWaiterCount <= Circle \div 2 /\ d_emptyCountSeen <= Circle \div 2
           /\ \A t \in Thread : /\ my[t].empty \in Nat
                                /\ pc[t] \in Waiting \cup {"empty", "seen"} =>
                                      my[t].empty <= Circle \div 2
<1>1. /\ d_emptyWaiterCount \in Nat /\ d_emptyCountSeen \in Nat
      /\ \A t \in Thread : my[t].empty \in Nat
      /\ Circle \div 2 \in Nat
  BY Constants DEF EmptyInv, QueueInv, WaiterTypes, Types, Locals
<1>2. /\ Cardinality(WaitCalls(script)) \in Nat
      /\ Cardinality(WaitCalls(script)) <= Circle \div 2
      /\ Cardinality(Begun) \in Nat
      /\ Cardinality(Begun) <= Cardinality(WaitCalls(script))
  <2>1. Begun \subseteq WaitCalls(script)
    BY DEF Begun
  <2> QED BY <2>1, CallsFinite, FS_Subset, FS_CardinalityType DEF EmptyInv, QueueInv
<1>3. d_emptyWaiterCount <= Circle \div 2
  BY <1>1, <1>2 DEF EmptyInv, ReadingsRight
<1>4. d_emptyCountSeen <= Circle \div 2
  BY <1>1, <1>3 DEF EmptyInv, ReadingsRight
<1>5. ASSUME NEW t \in Thread, pc[t] \in Waiting \cup {"empty", "seen"}
      PROVE  my[t].empty <= Circle \div 2
  BY <1>1, <1>3, <1>5 DEF EmptyInv, ReadingsRight
<1> QED BY <1>1, <1>3, <1>4, <1>5

LEMMA BegunSame ==
    ASSUME Types, NEW t \in Thread, SameOthers(t),
           \/ step'[t] = step[t] /\ (pc'[t] \in Waiting <=> pc[t] \in Waiting)
           \/ /\ step'[t] = step[t] + 1 /\ pc'[t] \notin Waiting
              /\ pc[t] \in Waiting \/ op(t) # "waitUntilEmpty"
    PROVE  Begun' = Begun
<1>1. WaitCalls(script)' = WaitCalls(script)
  BY DEF SameOthers, WaitCalls
<1>2. ASSUME NEW c \in WaitCalls(script)
      PROVE  (\/ c[2] <= step'[c[1]]
              \/ c[2] = step'[c[1]] + 1 /\ pc'[c[1]] \in Waiting)
             <=> (\/ c[2] <= step[c[1]]
                  \/ c[2] = step[c[1]] + 1 /\ pc[c[1]] \in Waiting)
  <2>1. PICK u \in Thread, k \in Nat : c[1] = u /\ c[2] = k /\ script[u][k].op = "waitUntilEmpty"
    BY DEF WaitCalls
  <2>2. CASE u # t
    BY <2>1, <2>2 DEF SameOthers
  <2>3. CASE u = t
    <3>1. PICK n \in Nat : step[t] = n
      BY DEF Types
    <3>2. CASE step'[t] = step[t] /\ (pc'[t] \in Waiting <=> pc[t] \in Waiting)
      BY <2>1, <2>3, <3>2
    <3>3. CASE /\ step'[t] = step[t] + 1 /\ pc'[t] \notin Waiting
               /\ pc[t] \in Waiting \/ op(t) # "waitUntilEmpty"
      <4>1. k = n + 1 => pc[t] \in Waiting
        BY <2>1, <2>3, <3>1, <3>3 DEF op, NextCall
      <4> QED BY <2>1, <2>3, <3>1, <3>3, <4>1
    <3> QED BY <3>2, <3>3
  <2> QED BY <2>2, <2>3
<1> QED BY <1>1, <1>2 DEF Begun

\* What watching adds: a sight of the empty queue is not forgotten.
LEMMA Watched ==
    ASSUME Watch
    PROVE  \A u \in Thread : pc'[u] \in Waiting =>
              (wasEmpty[u] => wasEmpty'[u]) /\ (isEmpty' => wasEmpty'[u])
BY DEF Watch, Waiting

LEMMA EmptyKept ==
    ASSUME EmptyInv, QueueInv', NEW t \in Thread, SameOthers(t), Watch,
           Begun' = Begun, d_emptyWaiterCount' = d_emptyWaiterCount,
           \/ d_emptyCountSeen' = d_emptyCountSeen
           \/ pc[t] = "seen" /\ d_emptyCountSeen' = my[t].empty,
           pc'[t] # "idle" => (pc'[t] \in Waiting <=> op(t)' = "waitUntilEmpty"),
           pc'[t] \in Waiting => pc[t] \in Waiting /\ my'[t].empty = my[t].empty,
           pc'[t] = "empty" => my'[t].empty <= d_emptyWaiterCount,
           pc'[t] = "seen" => pc[t] = "empty" /\ isEmpty /\ my'[t].empty = my[t].empty
    PROVE  EmptyInv'
<1>1. \A u \in Thread \ {t} : pc'[u] = pc[u] /\ my'[u] = my[u] /\ op(u)' = op(u)
  BY OtherThread DEF SameOthers
<1>2. CallsWait'
  BY <1>1 DEF EmptyInv, CallsWait
<1>3. \A u \in Thread : pc'[u] \in Waiting => pc[u] \in Waiting /\ my'[u].empty = my[u].empty
  BY <1>1
<1>4. ReadingsRight'
  <2>1. d_emptyCountSeen' <= d_emptyWaiterCount'
    BY DEF EmptyInv, ReadingsRight
  <2>2. \A u \in Thread : pc'[u] \in Waiting => my'[u].empty < d_emptyWaiterCount'
    BY <1>3 DEF EmptyInv, ReadingsRight
  <2>3. \A u \in Thread : pc'[u] \in {"empty", "seen"} => my'[u].empty <= d_emptyWaiterCount'
    BY <1>1 DEF EmptyInv, ReadingsRight
  <2> QED BY <2>1, <2>2, <2>3 DEF EmptyInv, ReadingsRight
<1>5. ToldRight'
  <2>1. SUFFICES ASSUME NEW u \in Thread, pc'[u] \in Waiting
                 PROVE  /\ isEmpty' => wasEmpty'[u]
                        /\ my'[u].empty < d_emptyCountSeen' => wasEmpty'[u]
                        /\ \A v \in Thread :
                              pc'[v] = "seen" /\ my'[u].empty < my'[v].empty => wasEmpty'[u]
    BY DEF ToldRight
  <2>2. pc[u] \in Waiting /\ my'[u].empty = my[u].empty
    BY <1>3, <2>1
  <2>3. (wasEmpty[u] => wasEmpty'[u]) /\ (isEmpty' => wasEmpty'[u])
    BY <2>1, Watched
  <2>4. my'[u].empty < d_emptyCountSeen' => wasEmpty[u]
    BY <2>2 DEF EmptyInv, ToldRight
  <2>5. ASSUME NEW v \in Thread, pc'[v] = "seen", my'[u].empty < my'[v].empty
        PROVE  wasEmpty[u]
    BY <1>1, <2>2, <2>5 DEF EmptyInv, ToldRight
  <2> QED BY <2>3, <2>4, <2>5
<1> QED BY <1>2, <1>4, <1>5 DEF EmptyInv

\* A step on the way of a call: the thread waits as before, or does not wait.
LEMMA GoEmpty ==
    ASSUME EmptyInv, QueueInv', NEW t \in Thread, SameOthers(t), Watch,
           step'[t] = step[t], d_emptyWaiterCount' = d_emptyWaiterCount,
           \/ d_emptyCountSeen' = d_emptyCountSeen
           \/ pc[t] = "seen" /\ d_emptyCountSeen' = my[t].empty,
           pc[t] # "idle" \/ op(t) # "waitUntilEmpty",
           pc'[t] \in Waiting <=> pc[t] \in Waiting,
           pc'[t] \in Waiting => my'[t].empty = my[t].empty,
           pc'[t] = "empty" => my'[t].empty <= d_emptyWaiterCount,
           pc'[t] = "seen" => pc[t] = "empty" /\ isEmpty /\ my'[t].empty = my[t].empty
    PROVE  EmptyInv'
<1>1. Begun' = Begun
  BY BegunSame DEF EmptyInv, QueueInv
<1>2. op(t)' = op(t)
  BY DEF SameOthers, op, NextCall
<1>3. pc'[t] # "idle" => (pc'[t] \in Waiting <=> op(t)' = "waitUntilEmpty")
  BY <1>2 DEF EmptyInv, CallsWait, Waiting
<1> QED BY <1>1, <1>3, EmptyKept

LEMMA EndEmpty ==
    ASSUME EmptyInv, QueueInv', NEW t \in Thread, Watch, Return(t),
           \A u \in Thread \ {t} : my'[u] = my[u],
           UNCHANGED <<d_emptyWaiterCount, d_emptyCountSeen>>,
           pc[t] # "idle" \/ op(t) # "waitUntilEmpty"
    PROVE  EmptyInv'
<1>1. Types /\ SameOthers(t) /\ pc'[t] = "idle" /\ step'[t] = step[t] + 1
  BY ReturnFrame DEF EmptyInv, QueueInv, Types, Return
<1>2. Begun' = Begun
  <2>1. pc[t] \in Waiting \/ op(t) # "waitUntilEmpty"
    BY DEF EmptyInv, CallsWait
  <2>2. pc'[t] \notin Waiting
    BY <1>1 DEF Waiting
  <2> QED BY <1>1, <2>1, <2>2, BegunSame
<1>3. pc'[t] \notin Waiting
  BY <1>1 DEF Waiting
<1> QED BY <1>1, <1>2, <1>3, EmptyKept

LEMMA DoneEmpty ==
    ASSUME EmptyInv, QueueInv', NEW t \in Thread, Watch, Complete(t),
           UNCHANGED <<d_emptyWaiterCount, d_emptyCountSeen>>, pc[t] \in RemoveAll
    PROVE  EmptyInv'
<1>1. pc[t] # "idle" /\ pc[t] \notin Waiting /\ Types
  BY DEF RemoveAll, Waiting, EmptyInv, QueueInv
<1>2. CASE op(t) = "removeAll" /\ my[t].again > 0
  <2>1. my' = [my EXCEPT ![t].num = my[t].again, ![t].again = 0] /\ Goto(t, "mark")
    BY <1>2 DEF Complete
  <2>2. \A u \in Thread \ {t} : my'[u] = my[u]
    BY <1>1, <2>1 DEF Types
  <2>3. SameOthers(t) /\ pc'[t] = "mark" /\ step'[t] = step[t]
    BY <1>1, <2>1, <2>2, GotoFrame DEF Labels
  <2>4. pc'[t] \notin Waiting
    BY <2>3 DEF Waiting
  <2> QED BY <1>1, <2>3, <2>4, GoEmpty
<1>3. CASE ~(op(t) = "removeAll" /\ my[t].again > 0)
  BY <1>1, <1>3, EndEmpty DEF Complete
<1> QED BY <1>2, <1>3

\* The steps of the threads
LEMMA TakingEmpty ==
    ASSUME EmptyInv, QueueInv', NEW t \in Thread, Watch,
           wait(t) \/ refund(t) \/ grant(t) \/ removeAll(t) \/ markStartedOperation(t)
    PROVE  EmptyInv'
<1>0. Types /\ UNCHANGED <<d_emptyWaiterCount, d_emptyCountSeen>>
  BY DEF EmptyInv, QueueInv, wait, refund, grant, removeAll, markStartedOperation, OnlySem,
     OnlyCount, waiters
<1>1. /\ pc[t] \in {"idle", "refund", "waiting", "mark"}
      /\ pc[t] # "idle" \/ op(t) # "waitUntilEmpty"
  BY DEF wait, refund, grant, removeAll, markStartedOperation, Calling, Pushes, Pops
<1>2. \A u \in Thread \ {t} : my'[u] = my[u]
  BY <1>0 DEF wait, refund, grant, removeAll, markStartedOperation, Types
<1>3. Return(t) \/ \E p \in {"mark", "refund", "waiting", "index"} : Goto(t, p)
  BY DEF wait, refund, grant, removeAll, markStartedOperation
<1>4. CASE Return(t)
  BY <1>0, <1>1, <1>2, <1>4, EndEmpty
<1>5. ASSUME NEW p \in {"mark", "refund", "waiting", "index"}, Goto(t, p) PROVE EmptyInv'
  <2>1. SameOthers(t) /\ pc'[t] = p /\ step'[t] = step[t]
    BY <1>0, <1>2, <1>5, GotoFrame DEF Labels
  <2> QED BY <1>0, <1>1, <2>1, GoEmpty DEF Waiting
<1> QED BY <1>3, <1>4, <1>5

LEMMA PlacingEmpty ==
    ASSUME EmptyInv, QueueInv', NEW t \in Thread, Watch,
           \/ pushIndex(t) \/ setIsUnconstructed(t) \/ construct(t) \/ popIndex(t)
           \/ markReclaimed(t) \/ popNode(t) \/ destroyAll(t)
    PROVE  EmptyInv'
<1>0. Types /\ UNCHANGED <<d_emptyWaiterCount, d_emptyCountSeen>>
  BY DEF EmptyInv, QueueInv, pushIndex, setIsUnconstructed, construct, popIndex,
     markReclaimed, popNode, destroyAll, OnlyQueue, OnlyCount, waiters
<1>1. pc[t] \in {"index", "flag", "construct", "look"}
  BY DEF pushIndex, setIsUnconstructed, construct, popIndex, markReclaimed, popNode,
     destroyAll
<1>2. \A u \in Thread \ {t} : my'[u] = my[u]
  BY <1>0 DEF pushIndex, setIsUnconstructed, construct, popIndex, markReclaimed, popNode,
     destroyAll, Types
<1>3. /\ SameOthers(t) /\ step'[t] = step[t]
      /\ pc'[t] \in {"flag", "construct", "fail", "finish", "look", "index"}
  <2>1. CASE popNode(t)
    BY <1>0, <1>2, <2>1 DEF popNode, SameOthers, Types
  <2>2. CASE ~popNode(t)
    <3>1. PICK p \in {"flag", "construct", "fail", "finish", "look", "index"} : Goto(t, p)
      BY <2>2 DEF pushIndex, setIsUnconstructed, construct, popIndex, markReclaimed,
         destroyAll
    <3> QED BY <1>0, <1>2, <3>1, GotoFrame DEF Labels
  <2> QED BY <2>1, <2>2
<1> QED BY <1>0, <1>1, <1>3, GoEmpty DEF Waiting

LEMMA CompletingEmpty ==
    ASSUME EmptyInv, QueueInv', NEW t \in Thread, Watch,
           \/ pushExceptionComplete(t) \/ markFinishedOperation(t)
           \/ swapCount(t) \/ post(t) \/ fence(t) \/ broadcast(t)
    PROVE  EmptyInv'
<1>0. Types /\ UNCHANGED <<d_emptyWaiterCount, d_emptyCountSeen>>
  BY DEF EmptyInv, QueueInv, pushExceptionComplete, markFinishedOperation, swapCount, post,
     fence, broadcast, OnlyCount, OnlySem, waiters
<1>1. pc[t] \in {"fail", "finish", "swap", "post", "fence", "broadcast"}
  BY DEF pushExceptionComplete, markFinishedOperation, swapCount, post, fence, broadcast
<1>2. CASE Complete(t) /\ pc[t] # "fail"
  BY <1>0, <1>1, <1>2, DoneEmpty DEF RemoveAll
<1>3. CASE ~Complete(t) \/ pc[t] = "fail"
  <2>1. \A u \in Thread \ {t} : my'[u] = my[u]
    BY <1>0, <1>3 DEF pushExceptionComplete, markFinishedOperation, swapCount, post, fence,
       broadcast, Types
  <2>2. CASE Return(t)
    BY <1>0, <1>1, <2>1, <2>2, EndEmpty
  <2>3. CASE ~Return(t)
    <3>1. /\ SameOthers(t) /\ step'[t] = step[t]
          /\ pc'[t] \in {"swap", "post", "count", "broadcast"}
      BY <1>0, <1>3, <2>1, <2>3 DEF pushExceptionComplete, markFinishedOperation, swapCount,
         post, fence, broadcast, Goto, SameOthers, Types
    <3> QED BY <1>0, <1>1, <3>1, GoEmpty DEF Waiting
  <2> QED BY <2>2, <2>3
<1> QED BY <1>2, <1>3

LEMMA ReadCountEmpty ==
    ASSUME EmptyInv, QueueInv', NEW t \in Thread, Watch, readWaiterCount(t)
    PROVE  EmptyInv'
<1>1. /\ pc[t] = "count" /\ Goto(t, "empty") /\ Types
      /\ my' = [my EXCEPT ![t].empty = d_emptyWaiterCount]
      /\ UNCHANGED <<d_emptyWaiterCount, d_emptyCountSeen>>
  BY DEF readWaiterCount, waiters, EmptyInv, QueueInv
<1>2. /\ \A u \in Thread \ {t} : my'[u] = my[u]
      /\ my'[t].empty = d_emptyWaiterCount
  BY <1>1 DEF Types, Locals
<1>3. SameOthers(t) /\ pc'[t] = "empty" /\ step'[t] = step[t]
  BY <1>1, <1>2, GotoFrame DEF Labels
<1>4. my'[t].empty <= d_emptyWaiterCount
  BY <1>2 DEF EmptyInv, QueueInv, WaiterTypes
<1> QED BY <1>1, <1>3, <1>4, GoEmpty DEF Waiting

LEMMA CheckEmptyEmpty ==
    ASSUME EmptyInv, QueueInv', NEW t \in Thread, Watch, checkEmpty(t)
    PROVE  EmptyInv'
<1>1. /\ pc[t] = "empty" /\ Types
      /\ UNCHANGED <<d_emptyWaiterCount, d_emptyCountSeen>>
  BY DEF checkEmpty, waiters, EmptyInv, QueueInv
<1>2. CASE isEmpty /\ Goto(t, "seen") /\ UNCHANGED my
  <2>1. SameOthers(t) /\ pc'[t] = "seen" /\ step'[t] = step[t]
    BY <1>1, <1>2, GotoFrame DEF Labels
  <2> QED BY <1>1, <1>2, <2>1, GoEmpty DEF Waiting
<1>3. CASE Complete(t)
  BY <1>1, <1>3, DoneEmpty DEF RemoveAll
<1> QED BY <1>2, <1>3 DEF checkEmpty

LEMMA UpdateSeenEmpty ==
    ASSUME EmptyInv, QueueInv', NEW t \in Thread, Watch, updateEmptyCountSeen(t)
    PROVE  EmptyInv'
<1>1. pc[t] = "seen" /\ Types /\ UNCHANGED d_emptyWaiterCount
  BY DEF updateEmptyCountSeen, EmptyInv, QueueInv
<1>2. CASE d_emptyCountSeen' = my[t].empty /\ Goto(t, "fence") /\ UNCHANGED my
  <2>1. SameOthers(t) /\ pc'[t] = "fence" /\ step'[t] = step[t]
    BY <1>1, <1>2, GotoFrame DEF Labels
  <2> QED BY <1>1, <1>2, <2>1, GoEmpty DEF Waiting
<1>3. CASE Complete(t) /\ UNCHANGED d_emptyCountSeen
  BY <1>1, <1>3, DoneEmpty DEF RemoveAll
<1> QED BY <1>2, <1>3 DEF updateEmptyCountSeen

LEMMA WaitingEmpty ==
    ASSUME EmptyInv, QueueInv', NEW t \in Thread, Watch,
           readDisabledState(t) \/ peek(t) \/ decide(t) \/ sleep(t)
    PROVE  EmptyInv'
<1>0. Types /\ UNCHANGED <<d_emptyWaiterCount, d_emptyCountSeen>>
  BY DEF EmptyInv, QueueInv, readDisabledState, peek, decide, sleep, waiters
<1>1. pc[t] \in Waiting
  BY DEF readDisabledState, peek, decide, sleep, Waiting
<1>2. /\ \A u \in Thread \ {t} : my'[u] = my[u]
      /\ my'[t].empty = my[t].empty
  BY <1>0 DEF readDisabledState, peek, decide, sleep, Types, Locals
<1>3. Return(t) \/ \E p \in {"peek", "lock", "decided", "asleep"} : Goto(t, p)
  BY DEF readDisabledState, peek, decide, sleep
<1>4. pc[t] \notin {"idle", "seen"}
  BY <1>1 DEF Waiting
<1>5. CASE Return(t)
  BY <1>0, <1>2, <1>4, <1>5, EndEmpty
<1>6. ASSUME NEW p \in {"peek", "lock", "decided", "asleep"}, Goto(t, p) PROVE EmptyInv'
  <2>1. SameOthers(t) /\ pc'[t] = p /\ step'[t] = step[t]
    BY <1>0, <1>2, <1>6, GotoFrame DEF Labels
  <2>2. pc'[t] \in Waiting /\ pc'[t] \notin {"empty", "seen"}
    BY <2>1 DEF Waiting
  <2> QED BY <1>0, <1>1, <1>2, <1>4, <2>1, <2>2, GoEmpty
<1> QED BY <1>3, <1>5, <1>6

LEMMA DisablingEmpty ==
    ASSUME EmptyInv, QueueInv', NEW t \in Thread, Watch,
           disable(t) \/ drain(t) \/ enable(t)
    PROVE  EmptyInv'
<1>0. /\ Types /\ UNCHANGED <<d_emptyWaiterCount, d_emptyCountSeen>> /\ my' = my
  BY DEF EmptyInv, QueueInv, disable, drain, enable, OnlySem, waiters
<1>1. pc[t] \in {"idle", "drain"} /\ (pc[t] # "idle" \/ op(t) # "waitUntilEmpty")
  BY DEF disable, drain, enable, Calling
<1>2. Return(t) \/ \E p \in {"drain", "fence"} : Goto(t, p)
  BY DEF disable, drain, enable
<1>3. CASE Return(t)
  BY <1>0, <1>1, <1>3, EndEmpty
<1>4. ASSUME NEW p \in {"drain", "fence"}, Goto(t, p) PROVE EmptyInv'
  <2>1. SameOthers(t) /\ pc'[t] = p /\ step'[t] = step[t]
    BY <1>0, <1>4, GotoFrame DEF Labels
  <2> QED BY <1>0, <1>1, <2>1, GoEmpty DEF Waiting
<1> QED BY <1>2, <1>3, <1>4

LEMMA WakeEmpty ==
    ASSUME EmptyInv, QueueInv', NEW t \in Thread, Watch, wakeSpuriously(t)
    PROVE  EmptyInv'
<1>1. /\ pc[t] = "asleep" /\ pc'[t] = "asleep" /\ SameOthers(t)
      /\ step'[t] = step[t] /\ my' = my
      /\ UNCHANGED <<d_emptyWaiterCount, d_emptyCountSeen>>
  BY DEF wakeSpuriously, SameOthers
<1> QED BY <1>1, GoEmpty DEF Waiting

\* A call of waitUntilEmpty begins: it comes after what anybody has read.
LEMMA WaitUntilEmptyBegins ==
    ASSUME FewWaits, EmptyInv, QueueInv', NEW t \in Thread, Watch, waitUntilEmpty(t)
    PROVE  EmptyInv'
<1>1. /\ pc[t] = "idle" /\ step[t] < Len(script[t]) /\ op(t) = "waitUntilEmpty"
      /\ Goto(t, "state") /\ Types
      /\ my' = [my EXCEPT ![t].empty = d_emptyWaiterCount]
      /\ d_emptyWaiterCount' = (d_emptyWaiterCount + 1) % Circle
      /\ d_emptyCountSeen' = d_emptyCountSeen
  BY DEF waitUntilEmpty, Calling, EmptyInv, QueueInv
<1>2. /\ \A u \in Thread \ {t} : my'[u] = my[u]
      /\ my'[t].empty = d_emptyWaiterCount
  BY <1>1 DEF Types, Locals, EmptyInv, QueueInv, WaiterTypes
<1>3. SameOthers(t) /\ pc'[t] = "state" /\ step'[t] = step[t] /\ op(t)' = op(t)
  BY <1>1, <1>2, GotoFrame DEF Labels
<1>4. PICK n \in Nat, h \in Nat :
         /\ d_emptyWaiterCount = n /\ Circle \div 2 = h /\ n <= h
         /\ d_emptyCountSeen \in Nat /\ d_emptyCountSeen <= n
         /\ \A u \in Thread : my[u].empty \in Nat
  BY Readings DEF EmptyInv, ReadingsRight
<1>5. Cardinality(Begun') = n + 1
  <2> DEFINE c == <<t, step[t] + 1>>
  <2>1. c \in WaitCalls(script)
    <3>1. step[t] + 1 \in 1 .. Len(script[t])
      <4>1. step[t] \in Nat /\ Len(script[t]) \in Nat
        BY <1>1, Constants DEF Types
      <4> QED BY <1>1, <4>1
    <3>2. c \in {t} \X (1 .. Len(script[t])) /\ c[1] = t /\ c[2] = step[t] + 1
      BY <3>1
    <3>3. script[c[1]][c[2]].op = "waitUntilEmpty"
      BY <1>1, <3>2 DEF op, NextCall
    <3> HIDE DEF c
    <3> QED BY <3>2, <3>3 DEF WaitCalls
  <2>2. WaitCalls(script)' = WaitCalls(script)
    BY <1>3 DEF SameOthers, WaitCalls
  <2>3. ASSUME NEW d \in WaitCalls(script)
        PROVE  (\/ d[2] <= step'[d[1]]
                \/ d[2] = step'[d[1]] + 1 /\ pc'[d[1]] \in Waiting)
               <=> (d = c \/ (\/ d[2] <= step[d[1]]
                              \/ d[2] = step[d[1]] + 1 /\ pc[d[1]] \in Waiting))
    <3>1. PICK u \in Thread, k \in Nat : d = <<u, k>>
      BY DEF WaitCalls
    <3>2. CASE u # t
      BY <1>3, <3>1, <3>2 DEF SameOthers
    <3>3. CASE u = t
      <4>1. pc'[t] \in Waiting /\ pc[t] \notin Waiting
        BY <1>1, <1>3 DEF Waiting
      <4> QED BY <1>3, <3>1, <3>3, <4>1
    <3> QED BY <3>2, <3>3
  <2>4. c \notin Begun
    <3>1. step[t] \in Nat /\ pc[t] \notin Waiting
      BY <1>1 DEF Types, Waiting
    <3> QED BY <3>1 DEF Begun
  <2> HIDE DEF c
  <2>5. Begun' = Begun \cup {c}
    BY <2>1, <2>2, <2>3 DEF Begun
  <2>6. IsFiniteSet(Begun) /\ Cardinality(Begun) = n
    <3>1. Begun \subseteq WaitCalls(script)
      BY DEF Begun
    <3> QED BY <1>1, <1>4, <3>1, CallsFinite, FS_Subset DEF EmptyInv, ReadingsRight
  <2> QED BY <2>4, <2>5, <2>6, FS_AddElement
<1>6. d_emptyWaiterCount' = n + 1
  <2>1. WaitCalls(script)' = WaitCalls(script)
    BY <1>3 DEF SameOthers, WaitCalls
  <2>2. Begun' \subseteq WaitCalls(script)
    BY <2>1 DEF Begun
  <2>3. n + 1 <= Cardinality(WaitCalls(script))
    BY <1>1, <1>5, <2>2, CallsFinite, FS_Subset DEF EmptyInv, QueueInv
  <2>4. n + 1 <= h
    BY <1>1, <1>4, <2>3, CallsFinite DEF EmptyInv, QueueInv
  <2>5. n + 1 < Circle /\ Circle \in Nat
    <3>1. Circle \in Nat /\ Circle > 0 /\ Circle % 2 = 0
      BY QueueAssumption DEF QueueAssumption
    <3> QED BY <1>4, <2>4, <3>1
  <2>6. (n + 1) % Circle = n + 1
    BY <2>5
  <2> QED BY <1>1, <1>4, <2>6
<1>7. \A u \in Thread \ {t} : pc'[u] = pc[u] /\ my'[u] = my[u] /\ op(u)' = op(u)
  BY <1>3, OtherThread DEF SameOthers
<1>8. CallsWait'
  BY <1>1, <1>3, <1>7 DEF EmptyInv, CallsWait, Waiting
<1>9. ReadingsRight'
  <2>1. d_emptyCountSeen' <= d_emptyWaiterCount'
    BY <1>1, <1>4, <1>6
  <2>2. ASSUME NEW u \in Thread, pc'[u] \in Waiting PROVE my'[u].empty < d_emptyWaiterCount'
    <3>1. CASE u = t
      BY <1>2, <1>4, <1>6, <3>1
    <3>2. CASE u # t
      <4>1. my[u].empty < n
        BY <1>4, <1>7, <2>2, <3>2 DEF EmptyInv, ReadingsRight
      <4> QED BY <1>4, <1>6, <1>7, <3>2, <4>1
    <3> QED BY <3>1, <3>2
  <2>3. ASSUME NEW u \in Thread, pc'[u] \in {"empty", "seen"}
        PROVE  my'[u].empty <= d_emptyWaiterCount'
    <3>1. u # t
      BY <1>3, <2>3
    <3>2. my[u].empty <= n
      BY <1>4, <1>7, <2>3, <3>1 DEF EmptyInv, ReadingsRight
    <3> QED BY <1>4, <1>6, <1>7, <3>1, <3>2
  <2> QED BY <1>5, <1>6, <2>1, <2>2, <2>3 DEF ReadingsRight
<1>10. ToldRight'
  <2>1. SUFFICES ASSUME NEW u \in Thread, pc'[u] \in Waiting
                 PROVE  /\ isEmpty' => wasEmpty'[u]
                        /\ my'[u].empty < d_emptyCountSeen' => wasEmpty'[u]
                        /\ \A v \in Thread :
                              pc'[v] = "seen" /\ my'[u].empty < my'[v].empty => wasEmpty'[u]
    BY DEF ToldRight
  <2>2. (wasEmpty[u] => wasEmpty'[u]) /\ (isEmpty' => wasEmpty'[u])
    BY <2>1, Watched
  <2>3. \A v \in Thread : pc'[v] = "seen" =>
           v # t /\ pc[v] = "seen" /\ my'[v] = my[v] /\ my[v].empty <= n
    BY <1>3, <1>4, <1>7 DEF EmptyInv, ReadingsRight
  <2>4. CASE u = t
    <3>1. ~(my'[u].empty < d_emptyCountSeen')
      BY <1>1, <1>2, <1>4, <2>4
    <3>2. \A v \in Thread : pc'[v] = "seen" => ~(my'[u].empty < my'[v].empty)
      BY <1>2, <1>4, <2>3, <2>4
    <3> QED BY <2>2, <3>1, <3>2
  <2>5. CASE u # t
    <3>1. pc[u] \in Waiting /\ my'[u] = my[u]
      BY <1>7, <2>1, <2>5
    <3>2. my'[u].empty < d_emptyCountSeen' => wasEmpty[u]
      BY <1>1, <3>1 DEF EmptyInv, ToldRight
    <3>3. \A v \in Thread : pc'[v] = "seen" /\ my'[u].empty < my'[v].empty => wasEmpty[u]
      BY <2>3, <3>1 DEF EmptyInv, ToldRight
    <3> QED BY <2>2, <3>2, <3>3
  <2> QED BY <2>4, <2>5
<1> QED BY <1>8, <1>9, <1>10 DEF EmptyInv

LEMMA UnchangedEmpty ==
    ASSUME EmptyInv, QueueInv', UNCHANGED vars
    PROVE  EmptyInv'
<1>1. UNCHANGED <<pc, step, script, my, wasEmpty, sem, d_emptyWaiterCount, d_emptyCountSeen>>
  BY DEF vars, queue, waiters
<1>2. \A t \in Thread : op(t)' = op(t) /\ Side(t)' = Side(t)
  BY <1>1, SameCall
<1>3. Begun' = Begun
  BY <1>1 DEF Begun, WaitCalls
<1>4. isEmpty' = isEmpty
  <2>1. {t \in Thread : pc'[t] \in {"waiting", "refund"} /\ Side(t)' = "push"}
          = {t \in Thread : pc[t] \in {"waiting", "refund"} /\ Side(t) = "push"}
    BY <1>1, <1>2
  <2> QED BY <1>1, <2>1 DEF isEmpty, getValueRaw
<1>5. CallsWait' /\ ReadingsRight'
  BY <1>1, <1>2, <1>3 DEF EmptyInv, CallsWait, ReadingsRight
<1>6. ToldRight'
  BY <1>1, <1>4 DEF EmptyInv, ToldRight
<1> QED BY <1>5, <1>6 DEF EmptyInv

LEMMA NextEmpty ==
    ASSUME FewWaits, EmptyInv, [Next]_vars
    PROVE  EmptyInv'
<1>1. QueueInv'
  BY NextKeeps DEF EmptyInv
<1>2. CASE UNCHANGED vars
  BY <1>1, <1>2, UnchangedEmpty
<1>3. ASSUME NEW t \in Thread, Own(t) PROVE EmptyInv'
  <2>1. Watch
    BY <1>3 DEF Own
  <2>2. CASE \/ wait(t) \/ refund(t) \/ grant(t) \/ removeAll(t) \/ markStartedOperation(t)
             \/ pushIndex(t) \/ setIsUnconstructed(t) \/ construct(t) \/ popIndex(t)
             \/ markReclaimed(t) \/ popNode(t) \/ destroyAll(t)
    BY <1>1, <2>1, <2>2, TakingEmpty, PlacingEmpty
  <2>3. CASE \/ pushExceptionComplete(t) \/ markFinishedOperation(t)
             \/ swapCount(t) \/ post(t) \/ fence(t) \/ broadcast(t)
             \/ readWaiterCount(t) \/ checkEmpty(t) \/ updateEmptyCountSeen(t)
    BY <1>1, <2>1, <2>3, CompletingEmpty, ReadCountEmpty, CheckEmptyEmpty, UpdateSeenEmpty
  <2>4. CASE \/ waitUntilEmpty(t) \/ readDisabledState(t) \/ peek(t) \/ decide(t)
             \/ sleep(t) \/ disable(t) \/ drain(t) \/ enable(t)
    BY <1>1, <2>1, <2>4, WaitUntilEmptyBegins, WaitingEmpty, DisablingEmpty
  <2> QED BY <1>3, <2>2, <2>3, <2>4 DEF Own
<1>4. ASSUME NEW t \in Thread, wakeSpuriously(t), Watch PROVE EmptyInv'
  BY <1>1, <1>4, WakeEmpty
<1> QED BY <1>2, <1>3, <1>4 DEF Next

LEMMA InitEmpty == Init => EmptyInv
<1> SUFFICES ASSUME Init PROVE EmptyInv
  OBVIOUS
<1>1. QueueInv
  BY InitHolds
<1>2. \A t \in Thread : pc[t] = "idle" /\ step[t] = 0
  BY DEF Init
<1>3. Begun = {}
  <2>1. ASSUME NEW c \in WaitCalls(script) PROVE c[1] \in Thread /\ c[2] \in Nat /\ c[2] >= 1
    <3>1. PICK t \in Thread : c \in {t} \X (1 .. Len(script[t]))
      BY DEF WaitCalls
    <3>2. Len(script[t]) \in Nat
      BY <1>1, Constants DEF QueueInv, Types
    <3>3. c[1] = t /\ c[2] \in 1 .. Len(script[t])
      BY <3>1
    <3> QED BY <3>2, <3>3
  <2>2. "idle" \notin Waiting
    BY DEF Waiting
  <2>3. ASSUME NEW c \in WaitCalls(script)
        PROVE  ~(c[2] <= step[c[1]] \/ (c[2] = step[c[1]] + 1 /\ pc[c[1]] \in Waiting))
    BY <1>2, <2>1, <2>2, <2>3
  <2> QED BY <2>3 DEF Begun
<1>4. ReadingsRight
  <2>1. Cardinality(Begun) = 0
    BY <1>3, FS_EmptySet
  <2>2. d_emptyWaiterCount = 0 /\ d_emptyCountSeen = 0
    BY DEF Init
  <2> QED BY <1>2, <2>1, <2>2 DEF ReadingsRight, Waiting
<1>5. CallsWait /\ ToldRight
  BY <1>2 DEF CallsWait, ToldRight, Waiting
<1> QED BY <1>1, <1>4, <1>5 DEF EmptyInv

LEMMA OthersStay ==
    ASSUME Types, NEW u \in Thread, NEW t \in Thread \ {u}, Own(u) \/ wakeSpuriously(u)
    PROVE  pc'[t] = pc[t]
<1>1. pc' = pc \/ \E p : pc' = [pc EXCEPT ![u] = p]
  <2>1. CASE \/ wait(u) \/ refund(u) \/ grant(u) \/ removeAll(u) \/ markStartedOperation(u)
             \/ pushIndex(u) \/ setIsUnconstructed(u) \/ construct(u)
             \/ pushExceptionComplete(u) \/ popIndex(u) \/ markReclaimed(u)
             \/ popNode(u) \/ destroyAll(u)
    BY <2>1 DEF wait, refund, grant, removeAll, markStartedOperation, pushIndex,
       setIsUnconstructed, construct, pushExceptionComplete, popIndex, markReclaimed,
       popNode, destroyAll, Goto, Return
  <2>2. CASE \/ markFinishedOperation(u) \/ swapCount(u) \/ post(u) \/ readWaiterCount(u)
             \/ checkEmpty(u) \/ updateEmptyCountSeen(u) \/ fence(u) \/ broadcast(u)
    BY <2>2 DEF markFinishedOperation, swapCount, post, readWaiterCount, checkEmpty,
       updateEmptyCountSeen, fence, broadcast, Complete, Goto, Return
  <2>3. CASE \/ waitUntilEmpty(u) \/ readDisabledState(u) \/ peek(u) \/ decide(u) \/ sleep(u)
             \/ disable(u) \/ drain(u) \/ enable(u) \/ wakeSpuriously(u)
    BY <2>3 DEF waitUntilEmpty, readDisabledState, peek, decide, sleep, disable, drain,
       enable, wakeSpuriously, Goto, Return
  <2> QED BY <2>1, <2>2, <2>3 DEF Own
<1> QED BY <1>1 DEF Types

LEMMA ReturnsTold ==
    ASSUME FewWaits, EmptyInv, [Next]_vars, NEW t \in Thread,
           pc[t] \in {"peek", "lock", "asleep"}, pc'[t] = "idle",
           sem["pop"].gen = my[t].gen
    PROVE  wasEmpty[t]
<1>1. pc'[t] # pc[t] /\ pc[t] \in Waiting /\ Types
  BY DEF Waiting, EmptyInv, QueueInv
<1>2. PICK u \in Thread : Own(u) \/ wakeSpuriously(u)
  BY <1>1 DEF Next, vars
<1>3. Own(t)
  <2>1. u = t
    BY <1>1, <1>2, OthersStay
  <2>2. ~wakeSpuriously(t)
    BY <1>1 DEF wakeSpuriously
  <2> QED BY <1>2, <2>1, <2>2
<1>4. peek(t) \/ decide(t)
  BY <1>3 DEF Own, Calling, wait, refund, grant, removeAll, markStartedOperation, pushIndex,
     setIsUnconstructed, construct, pushExceptionComplete, popIndex, markReclaimed,
     popNode, destroyAll, markFinishedOperation, swapCount, post, readWaiterCount, checkEmpty,
     updateEmptyCountSeen, fence, broadcast, waitUntilEmpty, readDisabledState, sleep,
     disable, drain, enable
<1>5. FoundEmpty(t)
  <2>1. ~Goto(t, "lock") /\ ~Goto(t, "decided")
    BY <1>1 DEF Types, Goto
  <2> QED BY <1>4, <2>1 DEF peek, decide, FoundEmpty
<1>6. CASE isEmpty
  BY <1>1, <1>6 DEF EmptyInv, ToldRight
<1>7. CASE circularlyGreater(d_emptyCountSeen, my[t].empty)
  <2>1. d_emptyCountSeen > my[t].empty
    BY <1>1, <1>7, Readings, OnCircle
  <2>2. d_emptyCountSeen \in Nat /\ my[t].empty \in Nat
    BY Readings
  <2> QED BY <1>1, <2>1, <2>2 DEF EmptyInv, ToldRight
<1> QED BY <1>5, <1>6, <1>7 DEF FoundEmpty

\* In every state the counter of empty waiters is the number of waits begun, and who
\* came before what is known to have been seen has waited while the queue was empty.
THEOREM ReadingsInOrder == ASSUME FewWaits PROVE Spec => []EmptyInv
<1>1. Init => EmptyInv
  BY InitEmpty
<1>2. EmptyInv /\ [Next]_vars => EmptyInv'
  BY NextEmpty
<1> QED BY <1>1, <1>2, PTL DEF Spec

\* While waitUntilEmpty is called at most as often as half the circle of its counter, it
\* reports an empty queue only to those who waited when the queue was empty, whoever
\* read the counter when and found the queue empty later.
THEOREM EmptinessIsTrue == ASSUME FewWaits PROVE Spec => EmptyReported
<1>1. EmptyInv /\ [Next]_vars =>
         [\A t \in Thread :
             (pc[t] \in {"peek", "lock", "asleep"} /\ pc'[t] = "idle"
              /\ sem["pop"].gen = my[t].gen) => wasEmpty[t]]_vars
  BY ReturnsTold
<1> QED BY <1>1, ReadingsInOrder, PTL DEF Spec, EmptyReported

=============================================================================
