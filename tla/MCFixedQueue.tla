---------------------------- MODULE MCFixedQueue ----------------------------
(* Instances of FixedQueue for TLC. *)
EXTENDS FixedQueue, TLC

CONSTANTS t1, t2, t3

Only(r1, r2, r3) == (t1 :> r1) @@ (t2 :> r2) @@ (t3 :> r3)

\* Blocking calls on a small ring: one thread pushes, two pop, and one of
\* these may remove what the other was about to pop.
BlockingPops == Only({"pushBack"}, {"popFront", "once"}, {"popFront", "removeAll"})

\* Two pushers that block and a thread that empties the queue at once.
BlockingPushes == Only({"pushBack"}, {"pushBack"}, {"removeAll", "once"})

\* A pusher whose constructors throw, another pusher, and a popper.
Throwing == Only({"tryPushBack", "throw"}, {"pushBack", "once"}, {"tryPopFront"})

\* Pushers that block while a third thread disables and enables the queue.
Disabling == Only({"pushBack"}, {"pushBack", "once"},
                  {"disable", "enable", "tryPopFront"})

RolesSafe == {BlockingPops, BlockingPushes, Throwing, Disabling}

\* A push that may sleep while another thread pushes and pops the ring round.
RolesTurn == {Only({"tryPushBack", "once"}, {"tryPushBack", "tryPopFront"}, {})}

\* A push that races with disable, and a blocking pop.
RolesStrand == {Only({"tryPushBack"}, {"popFront"}, {"disable"})}

=============================================================================
