----------------------- MODULE MCMultiQueueThreadPool -----------------------
(* Instances of MultiQueueThreadPool for TLC. *)
EXTENDS MultiQueueThreadPool, TLC

CONSTANTS c1, c2, w1, w2, j1, j2, j3

enq(id, j)   == Op("enqueueJob", id, j)
front(id, j) == Op("addJobAtFront", id, j)
on(o, id)    == Op(o, id, None)
all(o)       == Op(o, 0, None)

Program(p1, p2, b1, b2, b3) ==
    (c1 :> p1) @@ (c2 :> p2) @@ (j1 :> b1) @@ (j2 :> b2) @@ (j3 :> b3)

\* Two clients pause and resume one queue while it has jobs.
Pausing == Program(
    <<enq(1, j1), on("pauseQueue", 1), on("resumeQueue", 1)>>,
    <<enq(1, j2), on("pauseQueue", 1), front(1, j3), on("resumeQueue", 1)>>,
    Nothing, Nothing, Nothing)

\* A job pauses its own queue; another client resumes it, or finds it running,
\* and deletes it.
PausingItself == Program(
    <<enq(1, j1), enq(1, j2), on("drainQueue", 1)>>,
    <<on("resumeQueue", 1), on("deleteQueue", 1)>>,
    on("pauseQueue", 1), Nothing, Nothing)

\* A queue is paused and resumed while it is deleted.
Deleting == Program(
    <<enq(1, j1), enq(1, j2), on("deleteQueue", 1), all("createQueue")>>,
    <<on("pauseQueue", 1), on("resumeQueue", 1), enq(2, j3),
      all("numProcessedReset")>>,
    Nothing, Nothing, Nothing)

\* A job deletes its own queue, which a client pauses; the pool is shut down.
DeletingItself == Program(
    <<enq(1, j1), enq(1, j2), all("shutdown"), all("start")>>,
    <<on("pauseQueue", 1), on("deleteQueueWithCleanup", 1)>>,
    on("deleteQueue", 1), Nothing, Nothing)

\* The pool is stopped and started while another client uses two queues.
Stopping == Program(
    <<enq(1, j1), enq(1, j2), all("stop"), all("start"), all("drain")>>,
    <<setBatch(1, 2), enq(2, j3), on("disableQueue", 2), on("pauseQueue", 1)>>,
    all("numProcessedReset"), enq(2, j3), Nothing)

\* A stopped pool is shut down, with a paused queue that is empty.
ShuttingDown == Program(
    <<enq(1, j1), all("stop"), all("stop"), all("shutdown"), all("drain"), all("start")>>,
    <<enq(2, j2), on("enableQueue", 1), all("drain")>>,
    Nothing, Nothing, Nothing)

\* The pool is stopped and started, or shut down, beside calls on its queues.
Restarting == Program(
    <<all("stop"), all("start"), enq(1, j1), all("drain"), all("start")>>,
    <<enq(1, j2), enq(1, j3), on("resumeQueue", 1), on("enableQueue", 1)>>,
    on("disableQueue", 1), Nothing, Nothing)

\* A paused queue with jobs is deleted by a job of the other queue, which a
\* client pauses too.
DeletingPaused == Program(
    <<on("pauseQueue", 1), enq(1, j1), enq(2, j2), all("shutdown")>>,
    <<setBatch(2, 2), enq(2, j3), on("pauseQueue", 2), on("resumeQueue", 2)>>,
    Nothing, on("deleteQueue", 1), on("resumeQueue", 1))

ProgramsSafe == {Pausing, PausingItself, Deleting, DeletingItself, Stopping,
                 ShuttingDown, Restarting, DeletingPaused}

\* The programs are among those that the theorems are about.
ASSUME StopsSafe == \A p \in ProgramsSafe : OneStops(p) /\ PausesEnd(p)

\* A queue is paused while the pool is stopped and shut down.
ProgramsShutdownPause == {Program(
    <<all("stop"), all("shutdown")>>, <<on("pauseQueue", 1)>>,
    Nothing, Nothing, Nothing)}

=============================================================================
