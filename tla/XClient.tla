------------------------------ MODULE XClient -------------------------------
(***************************************************************************)
(* geerpc/xclient's XClient: goroutines that call a server through a pool  *)
(* with one client per address, dialling under the pool's mutex, and one   *)
(* Broadcast, whose goroutines share the first error, the reply and a      *)
(* context.  Dialling includes client.dialTimeout and the goroutine that   *)
(* it starts for the handshake.                                            *)
(*                                                                         *)
(* A client keeps the promise of CallOnce, which RpcClient implements, but *)
(* settles a call only for a reason: Call has no timeout of its own.       *)
(* Connections are numbered.                                               *)
(***************************************************************************)
EXTENDS Integers, FiniteSets

CONSTANTS Addrs,    \* the addresses that discovery hands out
          Tasks,    \* the goroutines that run xc.call
          Target,   \* the address each of them calls
          Cast,     \* those among them that a Broadcast started
          NoTask,   \* nobody holds xc.mu; nobody has set reply
          MaxConns  \* bound: connections in a behaviour

\* A Broadcast calls each address of its list once; a Call goes where
\* discovery chose.
ASSUME XClientAssumption == /\ Target \in [Tasks -> Addrs]
                            /\ Cast \subseteq Tasks
                            /\ \A t, u \in Cast : Target[t] = Target[u] => t = u
                            /\ NoTask \notin Tasks
                            /\ MaxConns \in Nat \ {0}

VARIABLES
  pc,        \* where each goroutine is
  conn,      \* the connection of the client it has, 0 before
  status,    \* its call, as CallOnce has it
  answered,  \* the calls that a server answered (history)
  clients,   \* xc.clients: the connection of each address's client, 0 for none
  state,     \* what has become of each connection
  mu,        \* who holds xc.mu
  ctx,       \* the Broadcast's context
  e,         \* Broadcast's e, the first error
  reply      \* the task whose reply Broadcast has copied

vars == <<pc, conn, status, answered, clients, state, mu, ctx, e, reply>>
poolVars == <<clients, state, mu>>
callVars == <<status, answered>>
castVars == <<ctx, e, reply>>

rpc == INSTANCE CallOnce WITH Calls <- Tasks

Conns == 1..MaxConns

TypeOK ==
  /\ rpc!TypeOK
  /\ pc \in [Tasks -> {"dial", "connect", "handshake", "call", "failed",
                       "collect", "done"}]
  /\ conn \in [Tasks -> 0..MaxConns]
  /\ clients \in [Addrs -> 0..MaxConns]
  /\ state \in [Conns -> {"none", "handshake", "open", "lost", "closed", "orphan"}]
  /\ mu \in Tasks \cup {NoTask}
  /\ ctx \in {"live", "ended", "cancelled"}
  /\ e \in {"nil", "dial", "failed", "cancelled"}
  /\ reply \in Cast \cup {NoTask}
  /\ \A t \in Tasks : pc[t] \in {"connect", "handshake"} <=> mu = t

Init ==
  /\ pc = [t \in Tasks |-> "dial"]
  /\ conn = [t \in Tasks |-> 0]
  /\ rpc!Init
  /\ clients = [a \in Addrs |-> 0]
  /\ state = [n \in Conns |-> "none"]
  /\ mu = NoTask
  /\ ctx = "live"
  /\ e = "nil"
  /\ reply = NoTask

Goto(t, l) == pc' = [pc EXCEPT ![t] = l]

IsAvailable(n) == n # 0 /\ state[n] = "open"
-----------------------------------------------------------------------------
(* dial                                                                    *)

\* The client of the address can be used again.
Reuse(t) ==
  /\ pc[t] = "dial"
  /\ mu = NoTask
  /\ IsAvailable(clients[Target[t]])
  /\ conn' = [conn EXCEPT ![t] = clients[Target[t]]]
  /\ Goto(t, "call")
  /\ UNCHANGED <<callVars, poolVars, castVars>>

\* (Mutant) a client that is not available is dropped without Close.
DropOnly(n) == state

\* client.Close, of a client that there is and has not been closed.
CloseConn(n) == IF n = 0 THEN state ELSE [state EXCEPT ![n] = "closed"]

\* The address has no client, or one that is no use: it is closed and dropped
\* and XDial begins, with xc.mu held.
Redial(t) ==
  /\ pc[t] = "dial"
  /\ mu = NoTask
  /\ ~IsAvailable(clients[Target[t]])
  /\ state' = CloseConn(clients[Target[t]])
  /\ clients' = [clients EXCEPT ![Target[t]] = 0]
  /\ mu' = t
  /\ Goto(t, "connect")
  /\ UNCHANGED <<conn, callVars, castVars>>

\* net.DialTimeout returns a connection; f starts on it in a goroutine.
Connect(t) ==
  /\ pc[t] = "connect"
  /\ \E n \in Conns : /\ state[n] = "none" /\ \A i \in 1..(n - 1) : state[i] # "none"
                      /\ state' = [state EXCEPT ![n] = "handshake"]
                      /\ conn' = [conn EXCEPT ![t] = n]
  /\ Goto(t, "handshake")
  /\ UNCHANGED <<callVars, clients, mu, castVars>>

\* f is done before the timer: the client goes into the pool.
HandshakeDone(t) ==
  /\ pc[t] = "handshake"
  /\ state' = [state EXCEPT ![conn[t]] = "open"]
  /\ clients' = [clients EXCEPT ![Target[t]] = conn[t]]
  /\ mu' = NoTask
  /\ Goto(t, "call")
  /\ UNCHANGED <<conn, callVars, castVars>>

\* (Mutant) the error returns with the mutex held.
DialFailsLocked(t) == /\ Goto(t, "failed")
                      /\ UNCHANGED <<conn, callVars, clients, mu, castVars>>

DialFails(t) == /\ mu' = NoTask
                /\ Goto(t, "failed")
                /\ UNCHANGED <<conn, callVars, clients, castVars>>

\* XDial's address is malformed, or net.DialTimeout fails.
ConnectFails(t) ==
  /\ pc[t] = "connect"
  /\ DialFails(t)
  /\ UNCHANGED state

\* f returns an error: dialTimeout's deferred function closes the connection.
HandshakeFails(t) ==
  /\ pc[t] = "handshake"
  /\ state' = [state EXCEPT ![conn[t]] = "closed"]
  /\ DialFails(t)

\* The timer is first: the connection is closed under f's hands, and when f
\* returns nobody receives its result: its goroutine blocks on ch for ever.
DialTimesOut(t) ==
  /\ pc[t] = "handshake"
  /\ state' = [state EXCEPT ![conn[t]] = "orphan"]
  /\ DialFails(t)

-----------------------------------------------------------------------------
(* The call, on a client that may no longer be the pool's                  *)

Issue(t) ==
  /\ pc[t] = "call"
  /\ rpc!Issue(t)
  /\ UNCHANGED <<pc, conn, poolVars, castVars>>

\* A call that its server has and has said nothing of.
Unanswered(t) ==
  pc[t] = "call" /\ status[t] = "issued" /\ state[conn[t]] = "open" /\ t \notin answered

ServerAnswers(t) ==
  /\ Unanswered(t)
  /\ rpc!Answer(t)
  /\ UNCHANGED <<pc, conn, poolVars, castVars>>

\* (Mutant) a failed call cancels the others before it takes Broadcast's mu.
CancelAtOnce(t) == IF t \in Cast /\ status'[t] = "failed" THEN "cancelled" ELSE ctx

CtxAfter(t) == ctx

\* Call is over and xc.call returns what it returned.
CallReturns(t) ==
  /\ ctx' = CtxAfter(t)
  /\ Goto(t, IF t \in Cast THEN "collect" ELSE "done")
  /\ UNCHANGED <<conn, poolVars, e, reply>>

\* The answer that came, or the error of a connection on which none can come
\* any more: without either the call waits.
Settle(t) ==
  /\ pc[t] = "call"
  /\ rpc!Settle(t)
  /\ status'[t] # "cancelled"
  /\ status'[t] = "failed" => state[conn[t]] # "open"
  /\ CallReturns(t)

\* The server's answer is an error, and Call returns it.
ServerRefuses(t) ==
  /\ Unanswered(t)
  /\ rpc!Settle(t)
  /\ status'[t] = "failed"
  /\ CallReturns(t)

\* Call's select sees that its context is over; a Call outside the Broadcast
\* has a context of its own.
CallCancelled(t) ==
  /\ pc[t] = "call"
  /\ t \in Cast => ctx # "live"
  /\ rpc!Settle(t)
  /\ status'[t] = "cancelled"
  /\ CallReturns(t)

\* call returns dial's error.
ReturnDialError(t) ==
  /\ pc[t] = "failed"
  /\ Goto(t, IF t \in Cast THEN "collect" ELSE "done")
  /\ UNCHANGED <<conn, callVars, poolVars, castVars>>

\* What xc.call returned.
ErrorOf(t) == CASE status[t] = "ok" -> "nil"
                [] status[t] = "idle" -> "dial"
                [] OTHER -> status[t]

\* (Mutant) the first error is kept, and the others go on.
KeepOn == UNCHANGED ctx

Cancel == ctx' = IF ctx = "live" THEN "cancelled" ELSE ctx

\* The section of Broadcast's mu that each of its goroutines ends with.
Collect(t) ==
  /\ pc[t] = "collect"
  /\ IF ErrorOf(t) # "nil" /\ e = "nil"
       THEN e' = ErrorOf(t) /\ Cancel
       ELSE UNCHANGED <<e, ctx>>
  /\ reply' = IF ErrorOf(t) = "nil" /\ reply = NoTask THEN t ELSE reply
  /\ Goto(t, "done")
  /\ UNCHANGED <<conn, callVars, poolVars>>
-----------------------------------------------------------------------------
\* The caller's own context, under that of Broadcast, ends.
UserCancels ==
  /\ ctx = "live"
  /\ ctx' = "ended"
  /\ UNCHANGED <<pc, conn, callVars, poolVars, e, reply>>

\* A client's receiver ends, since the connection broke, a Write failed and its
\* codec closed it, or a body could not be read: IsAvailable turns false, and
\* nobody but Close closes the client.
ConnLost(n) ==
  /\ state[n] = "open"
  /\ state' = [state EXCEPT ![n] = "lost"]
  /\ UNCHANGED <<pc, conn, callVars, clients, mu, castVars>>

\* XClient.Close; the XClient can be used again.
Close ==
  /\ mu = NoTask
  /\ \E a \in Addrs : clients[a] # 0
  /\ state' = [n \in Conns |-> IF \E a \in Addrs : clients[a] = n THEN "closed" ELSE state[n]]
  /\ clients' = [a \in Addrs |-> 0]
  /\ UNCHANGED <<pc, conn, callVars, mu, castVars>>

Returned == (\A t \in Tasks : pc[t] = "done") /\ UNCHANGED vars
-----------------------------------------------------------------------------
Dial(t) == \/ Reuse(t) \/ Redial(t) \/ Connect(t) \/ ConnectFails(t)
           \/ DialTimesOut(t)

Handshake(t) == HandshakeDone(t) \/ HandshakeFails(t)

Call(t) == Issue(t) \/ Settle(t) \/ ReturnDialError(t) \/ Collect(t)

Server(t) == ServerAnswers(t) \/ ServerRefuses(t)

Next == \/ \E t \in Tasks : Dial(t) \/ Handshake(t) \/ Call(t) \/ CallCancelled(t) \/ Server(t)
        \/ (\E n \in Conns : ConnLost(n)) \/ UserCancels \/ Close \/ Returned

Spec == Init /\ [][Next]_vars

\* Goroutines run, timers fire, a client hands over the answer that came or the
\* end of the connection, and Broadcast's goroutines see that their context is
\* over.  Handshakes need not end, servers need not answer, connections need
\* not break and a caller need not cancel.
FairSpec == /\ Spec
            /\ \A t \in Tasks : WF_vars(Dial(t)) /\ WF_vars(Call(t))
            /\ \A t \in Cast : WF_vars(CallCancelled(t))
-----------------------------------------------------------------------------
\* Every connection that is not closed belongs to the client its address has
\* in the pool, so that Close reaches it: neither a client that was replaced
\* nor a dial that failed or timed out leaves one open (xclient.go:41-52,
\* client.go:275-279).
NoConnLeak ==
  \A n \in Conns : state[n] \in {"open", "lost"} => \E a \in Addrs : clients[a] = n

\* When Broadcast's goroutines are done, it returns an error if any call
\* failed, the reply of a call that succeeded if one did, and the error is
\* never the cancellation that an earlier error caused (xclient.go:93-102).
BroadcastOutcome ==
  /\ e = "cancelled" => ctx = "ended"
  /\ (\A t \in Cast : pc[t] = "done") =>
       /\ e = "nil" <=> \A t \in Cast : status[t] = "ok"
       /\ reply = NoTask <=> \A t \in Cast : status[t] # "ok"
       /\ reply # NoTask => status[reply] = "ok"

\* A Broadcast returns unless some server is silent for ever on a call it has
\* taken, all the others' calls succeed and nobody cancels: neither a server
\* that accepts and never ends the handshake nor a goroutine that dials with
\* the pool's mutex holds it up, and the first error or the caller's
\* cancellation releases the calls that wait (client.go:246-255, 289-294,
\* xclient.go:94-105).  Call has no timeout, so that server does block it.
BroadcastReturns ==
  \/ <>(\A t \in Cast : pc[t] = "done")
  \/ <>[](e = "nil" /\ ctx = "live" /\ \E t \in Cast : Unanswered(t))
=============================================================================
