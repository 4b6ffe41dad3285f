---------------------------- MODULE MCGraphEdit -----------------------------
(* A path of two relations, tracked but for the entity in the middle, and a *)
(* name that is free at the start.                                          *)
EXTENDS GraphEdit, TLC

CONSTANTS a, b, c, d, t1, t2

Path     == {a, b, c, {a, b}, {b, c}}
Starting == {[graph |-> Path, tracked |-> Path \ {b}]}

\* The path is the same from either end, and so are the tasks.
Symmetry == Permutations({a, c}) \cup Permutations({t1, t2})
=============================================================================
