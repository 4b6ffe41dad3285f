----------------------------- MODULE MCJobQueue -----------------------------
(* Small instances of JobQueue. *)
EXTENDS JobQueue, TLC

CONSTANTS u, v, w, p1, p2

\* One process with two coroutines and one with one.
TwoAndOne == (u :> p1) @@ (v :> p1) @@ (w :> p2)

\* Both documents belong to one workspace.
OneWorkspace == (1 :> "s") @@ (2 :> "s")
=============================================================================
