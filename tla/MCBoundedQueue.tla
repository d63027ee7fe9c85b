--------------------------- MODULE MCBoundedQueue ----------------------------
EXTENDS BoundedQueue

CONSTANTS t1, t2, t3, va, vb, vc

Runs(p1, p2, p3) ==
    [t \in {t1, t2, t3} |-> CASE t = t1 -> p1 [] t = t2 -> p2 [] t = t3 -> p3]

does(name)    == Call(name, NoValue, FALSE)
push(v)       == Call("pushBack", v, FALSE)
tryPush(v)    == Call("tryPushBack", v, FALSE)
throwing(v)   == Call("pushBack", v, TRUE)
pop           == does("popFront")
throwingPop   == Call("popFront", NoValue, TRUE)

ScriptsSafe == {
    \* a full ring, pushes and pops that wait for each other
    Runs(<<push(va), push(vb)>>, <<push(vc)>>, <<pop, pop, pop>>),
    \* a push that throws between others
    Runs(<<throwing(va), push(vb)>>, <<push(vc)>>, <<pop, does("tryPopFront")>>),
    Runs(<<throwing(va), push(vb)>>, <<tryPush(vc)>>, <<does("removeAll"), pop>>),
    \* pops that throw
    Runs(<<push(va), push(vb)>>, <<push(vc), throwingPop>>,
         <<throwingPop, does("removeAll")>>),
    \* waiting until the queue is empty, or pops are disabled
    Runs(<<push(va), push(vb)>>, <<does("waitUntilEmpty"), does("waitUntilEmpty")>>,
         <<pop, pop>>),
    Runs(<<push(va), does("waitUntilEmpty")>>,
         <<does("disablePopFront"), does("enablePopFront")>>, <<pop>>),
    \* pushes that disabling sends away
    Runs(<<push(va), push(vb), push(vc)>>,
         <<does("disablePushBack"), does("enablePushBack")>>, <<pop>>),
    \* three that remove, from a ring that is used a second time
    Runs(<<push(va), push(vb), push(vc), pop>>, <<pop, does("waitUntilEmpty")>>,
         <<does("removeAll")>>),
    Runs(<<push(va), does("waitUntilEmpty")>>, <<does("waitUntilEmpty"), push(vb)>>,
         <<pop, does("removeAll"), does("removeAll")>>),
    Runs(<<push(va), throwing(vb), push(vc)>>, <<pop, push(vb)>>,
         <<does("removeAll"), does("tryPopFront")>>)
}

\* The waits in these scripts are within half the circle, as the proofs ask.
ASSUME WaitsSafe == Scripts = ScriptsSafe => FewWaits

\* A circle of four: three waits that return at once, then one that should not.
ScriptsCircle == {
    Runs(<<does("waitUntilEmpty"), does("waitUntilEmpty"), does("waitUntilEmpty"),
           push(va), does("waitUntilEmpty")>>, <<>>, <<>>)
}

\* Every place of the ring is left to a push that threw.
ScriptsThrow == {
    Runs(<<throwing(va), throwing(vb), push(vc)>>, <<>>, <<pop>>)
}

=============================================================================
