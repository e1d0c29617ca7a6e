----------------------------- MODULE MCHTTPPool -----------------------------
(* Three goroutines on one node, for a key of its own, a key of the other   *)
(* node's, and one of the other node's with a slash in it.                  *)
EXTENDS HTTPPool, TLC

CONSTANTS n1, n2, p1, p2, p3, scores, Tom, Jack, Sam

MCProcs == {p1, p2, p3}
MCGroups == {<< <<scores>> >>}
MCHome == [p \in MCProcs |-> n1]
MCGroup == [p \in MCProcs |-> << <<scores>> >>]
MCKey == (p1 :> << <<Tom>> >>) @@ (p2 :> << <<Jack>> >>) @@ (p3 :> << <<Sam>>, <<Tom>> >>)
MCOwner == [k \in {MCKey[p] : p \in MCProcs} |-> IF k = MCKey[p1] THEN n1 ELSE n2]
=============================================================================
