--------------------------- MODULE MCDocDeletion ---------------------------
(* Two documents that share an entity and a relation, for TLC.  Chunk b1    *)
(* names the end y of relation r without describing it.                     *)
EXTENDS DocDeletion, TLC

CONSTANTS a, b, a1, a2, b1, x, y, r

\* a can be cut in two ways, b in one.
Cuts  == (a :> {{a1}, {a2}}) @@ (b :> {{b1}})
Joins == r :> {x, y}
Finds == (a1 :> {x, y, r}) @@ (a2 :> {y}) @@ (b1 :> {x, r})
=============================================================================
