------------------------- MODULE MCBoundedExecutor -------------------------
(* Two workers, one place in the queue, and callers of two priorities.     *)
EXTENDS BoundedExecutor, TLC

CONSTANTS ann, bob, cid, w1, w2

Urgency == (ann :> 0) @@ (bob :> 1) @@ (cid :> 1)
=============================================================================
