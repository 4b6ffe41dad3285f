---------------------------- MODULE MCKeyedLock -----------------------------
(* Small instances of KeyedLock. *)
EXTENDS KeyedLock

CONSTANTS x, y, z, p1, p2

\* Two coroutines of one process ask for two keys in opposite orders, one of
\* another process asks for one of the two.
TwoProcs   == (x :> p1) @@ (y :> p1) @@ (z :> p2)
CrossWants == (x :> <<1, 2>>) @@ (y :> <<2, 1>>) @@ (z :> <<2>>)
=============================================================================
