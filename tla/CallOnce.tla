------------------------------ MODULE CallOnce ------------------------------
(***************************************************************************)
(* What an RPC client promises its users (geerpc/client), with nothing of  *)
(* how it does so: a call that was issued gets exactly one outcome, it     *)
(* never changes afterwards, and it is a success only if the server really *)
(* answered this call.  RpcClient implements this specification.           *)
(***************************************************************************)
CONSTANT Calls          \* the calls the users make

VARIABLES status,       \* what the user of each call has been told
          answered      \* the calls the server has answered with a result

vars == <<status, answered>>

Outcome == {"ok", "failed", "cancelled"}

TypeOK == /\ status \in [Calls -> {"idle", "issued"} \cup Outcome]
          /\ answered \in SUBSET Calls

Init == /\ status = [c \in Calls |-> "idle"]
        /\ answered = {}

Issue(c) == /\ status[c] = "idle"
            /\ status' = [status EXCEPT ![c] = "issued"]
            /\ UNCHANGED answered

\* The server may answer a call whose user has already given up.
Answer(c) == /\ status[c] # "idle"
             /\ answered' = answered \cup {c}
             /\ UNCHANGED status

Settle(c) == /\ status[c] = "issued"
             /\ \E o \in Outcome : /\ o = "ok" => c \in answered
                                   /\ status' = [status EXCEPT ![c] = o]
             /\ UNCHANGED answered

Next == \E c \in Calls : Issue(c) \/ Answer(c) \/ Settle(c)

Safety == Init /\ [][Next]_vars

\* Every call that was issued settles some time.
Fairness == \A c \in Calls : WF_vars(Settle(c))

Spec == Safety /\ Fairness
=============================================================================
