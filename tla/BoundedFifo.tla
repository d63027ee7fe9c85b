---------------------------- MODULE BoundedFifo -----------------------------
(***************************************************************************)
(* What a bounded queue promises its callers: values leave in the order in *)
(* which their places were reserved, each at most once, only after they    *)
(* were published, and never more than Capacity places are taken.  The     *)
(* place of a push that fails is given up, at once or later, when it is    *)
(* the oldest.  A pop that fails loses the value.                          *)
(***************************************************************************)
EXTENDS Naturals, Sequences

CONSTANTS Thread, Capacity, Value, NoValue, Nobody

VARIABLES
    items,   \* the places taken, oldest first: who fills it, what is in it
    out      \* out[t]: the value the call of thread t has taken

Writing(t) == [by |-> t, val |-> NoValue]
Full(v)    == [by |-> Nobody, val |-> v]

Init ==
    /\ items = <<>>
    /\ out = [t \in Thread |-> NoValue]

Reserve(t) ==
    /\ Len(items) < Capacity
    /\ \A i \in 1 .. Len(items) : items[i].by # t
    /\ items' = Append(items, Writing(t))
    /\ UNCHANGED out

Publish(t) ==
    \E i \in 1 .. Len(items), v \in Value :
        /\ items[i] = Writing(t)
        /\ items' = [items EXCEPT ![i] = Full(v)]
        /\ UNCHANGED out

HeadIsFull == items # <<>> /\ Head(items).val # NoValue

\* A pop returns the oldest value ...
Take(t) ==
    /\ HeadIsFull
    /\ out[t] = NoValue
    /\ out' = [out EXCEPT ![t] = Head(items).val]
    /\ items' = Tail(items)

\* ... or the oldest places that nobody fills are emptied.
Discard ==
    \E n \in 1 .. Len(items) :
        /\ \A i \in 1 .. n : items[i].by = Nobody
        /\ items' = SubSeq(items, n + 1, Len(items))
        /\ UNCHANGED out

Abort(t) ==
    /\ items # <<>> /\ Head(items) = Writing(t)
    /\ items' = Tail(items)
    /\ UNCHANGED out

\* A push fails, and leaves its place behind.
Fail(t) ==
    \E i \in 1 .. Len(items) :
        /\ items[i] = Writing(t)
        /\ items' = [items EXCEPT ![i].by = Nobody]
        /\ UNCHANGED out

\* The call that took a value ends.
Forget(t) == out' = [out EXCEPT ![t] = NoValue] /\ UNCHANGED items

Next ==
    \/ Discard
    \/ \E t \in Thread : Reserve(t) \/ Publish(t) \/ Take(t) \/ Abort(t)
                            \/ Fail(t) \/ Forget(t)

Spec == Init /\ [][Next]_<<items, out>>

=============================================================================
