----------------------- MODULE MCFastPostSemaphoreImpl -----------------------
EXTENDS FastPostSemaphoreImpl

CONSTANTS t1, t2, t3

Runs(p1, p2, p3) ==
    [t \in {t1, t2, t3} |-> CASE t = t1 -> p1 [] t = t2 -> p2 [] t = t3 -> p3]

op(name)     == Call(name, 1, 0, 0)
posts(n)     == Call("post", n, 0, 0)
redundant(n) == Call("postWithRedundantSignal", n, 2, 1)
takes(n)     == Call("take", n, 0, 0)

ScriptsSafe == {
    \* two threads wait for one post of two, and post in their turn
    Runs(<<op("wait")>>, <<op("wait"), posts(1)>>, <<posts(2), op("timedWait")>>),
    \* a tryWait, or a timed wait that goes away, in the way of a wait
    Runs(<<op("wait")>>, <<op("tryWait"), op("tryWait")>>, <<posts(1), posts(2)>>),
    Runs(<<op("wait")>>, <<op("timedWait")>>, <<posts(1), op("tryWait")>>),
    \* a take beside a wait
    Runs(<<op("timedWait"), posts(1)>>, <<op("tryWait"), op("wait")>>,
         <<redundant(2), takes(2)>>),
    \* those that wait are sent away, and may come again
    Runs(<<op("wait")>>, <<op("timedWait"), op("wait")>>,
         <<op("disable"), op("enable"), posts(1)>>),
    Runs(<<op("wait"), posts(1)>>, <<op("disable"), op("enable")>>,
         <<op("disable"), op("tryWait")>>)
}
=============================================================================
