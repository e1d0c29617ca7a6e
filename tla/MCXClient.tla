----------------------------- MODULE MCXClient ------------------------------
(* A Broadcast to two addresses and a Call to one of them, with connections *)
(* enough for one to be lost and replaced.                                  *)
EXTENDS XClient

CONSTANTS a1, a2, t1, t2, t3

MCAddrs == {a1, a2}
MCTasks == {t1, t2, t3}
MCCast == {t1, t2}
MCTarget == [t \in MCTasks |-> IF t = t2 THEN a2 ELSE a1]
=============================================================================
