---------------------------- MODULE MCThreadPool ----------------------------
(* Instances of ThreadPool for TLC. *)
EXTENDS ThreadPool, TLC

CONSTANTS c1, c2, j1, j2, j3, j4

start_    == Op("start")
drain_    == Op("drain")
stop_     == Op("stop")
shutdown_ == Op("shutdown")

\* Jobs enqueued by one client while another drains, restarts and stops.
Draining ==
    (c1 :> <<start_, Enqueue(j1), drain_, start_, Enqueue(j2), stop_>>)
    @@ (c2 :> <<Enqueue(j3), Enqueue(j4)>>)

\* A shutdown beside a client that enqueues and drains.
ShuttingDown ==
    (c1 :> <<start_, Enqueue(j1), Enqueue(j2), shutdown_, start_>>)
    @@ (c2 :> <<Enqueue(j3), drain_>>)

\* A pool that is started again after a stop, when nobody else uses it.
Restarting ==
    (c1 :> <<start_, Op("join"), stop_, start_, Enqueue(j1)>>)
    @@ (c2 :> <<Enqueue(j2)>>)

ScriptsSafe == {Draining, ShuttingDown, Restarting}

\* One client of each script starts and stops the pool.
ASSUME ScriptsManaged ==
    \A s \in ScriptsSafe : \A c, d \in Caller : Manages(s, c) /\ Manages(s, d) => c = d

\* Two clients stop the pool, which is then started again.
ScriptsTwoStops ==
    {(c1 :> <<start_, stop_, Op("join"), start_>>) @@ (c2 :> <<stop_>>)}

\* The pool is started again while another client stops it.
ScriptsRestart ==
    {(c1 :> <<start_, stop_>>) @@ (c2 :> <<start_, Enqueue(j1)>>)}

=============================================================================
