---------------------- MODULE MCFixedQueueIndexManager ----------------------
(* Instances of FixedQueueIndexManager for TLC. *)
EXTENDS FixedQueueIndexManagerClient, TLC

CONSTANTS t1, t2, t3

\* Two pushers, one of whose constructors throw, and a popper.
Throwing == (t1 :> {"throw"}) @@ (t2 :> {"push"}) @@ (t3 :> {"pop"})

\* A pusher and a popper, while a third thread disables and enables.
Disabling == (t1 :> {"push"}) @@ (t2 :> {"push", "pop"})
                              @@ (t3 :> {"disable", "enable", "pop"})

RolesAll == {Throwing, Disabling}

\* Two threads that push and pop.
RolesBoth == {[t \in Thread |-> {"push", "pop"}]}

=============================================================================
