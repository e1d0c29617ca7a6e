----------------------------- MODULE MCGeeGroup -----------------------------
(* Two goroutines, one key of this node and one of a peer's, a cache that   *)
(* holds one value at a time, two versions and three flights: time for an   *)
(* eviction or a failure between a load and the next of the same key.       *)
EXTENDS GeeGroup

CONSTANTS p1, p2, near, far

MCProcs == {p1, p2}
MCKeys == {near, far}
MCRemote == {far}
MCResults == Versions \cup {Failed}
MCKeyLen(k) == 1
MCValueLen(v) == 1
=============================================================================
