---------------------------- MODULE MCRpcClient -----------------------------
(* Three calls on one client: one by Call and two by Go on a channel of     *)
(* capacity 1, so that a full channel can hold the receiver up.             *)
EXTENDS RpcClient

CONSTANTS c1, c2, c3

MCCalls == {c1, c2, c3}
MCAsync == {c2, c3}
=============================================================================
