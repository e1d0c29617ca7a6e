--------------------------- MODULE MCSingleFlight ---------------------------
(* Three goroutines, two keys and three flights: a leader, a waiter and a   *)
(* caller that comes between wg.Done and delete or after it.                *)
EXTENDS SingleFlight, TLC

CONSTANTS p1, p2, p3, k1, k2, ok, failed

MCProcs == {p1, p2, p3}
MCKeys == {k1, k2}
MCResults == {ok, failed}
=============================================================================
