--------------------------- MODULE MCWriteBuffer ---------------------------
(* Two processes on hosts of their own, one of them with two coroutines.    *)
EXTENDS WriteBuffer, TLC

CONSTANTS p1, p2, t1, t2, t3, d1, r1, v1, v2

OwnHosts == (p1 :> p1) @@ (p2 :> p2)
TwoInOne == (t1 :> p1) @@ (t2 :> p1) @@ (t3 :> p2)
Symmetric == Permutations({t1, t2}) \cup Permutations({v1, v2})
=============================================================================
