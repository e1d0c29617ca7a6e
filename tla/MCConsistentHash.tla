-------------------------- MODULE MCConsistentHash --------------------------
(* Four nodes with two virtual nodes each; a and c share a hash, and a hash *)
(* may be in the list twice.                                                *)
EXTENDS ConsistentHash, TLC

CONSTANTS a, b, c, d

MCNodes == {a, b, c, d}
MCVirtual == 0..1
MCPlace == LET P(x, y) == 0 :> x @@ 1 :> y
           IN  (a :> P(1, 4)) @@ (b :> P(2, 7)) @@ (c :> P(4, 0)) @@ (d :> P(6, 5))
=============================================================================
