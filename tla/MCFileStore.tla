---------------------------- MODULE MCFileStore ----------------------------
(* Two processes, two coroutines of one job sharing a copy, for TLC.       *)
EXTENDS FileStore, TLC

CONSTANTS c1, c2, t1, t2, t3, x, y

Pair == (t1 :> c1) @@ (t2 :> c1) @@ (t3 :> c2)

\* Items are interchangeable, and so are the two coroutines of one copy.
Symmetry == Permutations({x, y}) \cup Permutations({t1, t2})
=============================================================================
