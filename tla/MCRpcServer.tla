---------------------------- MODULE MCRpcServer -----------------------------
(* Three requests on one connection: one may be refused, one time out and   *)
(* one be answered, and the responses of any two may meet.                  *)
EXTENDS RpcServer

CONSTANTS r1, r2, r3

MCReqs == {r1, r2, r3}
=============================================================================
