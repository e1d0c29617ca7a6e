--------------------------- MODULE XClientProofs ----------------------------
(***************************************************************************)
(* The pool of clients and Broadcast, for any tasks, addresses and number  *)
(* of connections.                                                         *)
(***************************************************************************)
EXTENDS XClient, TLAPS

\* What the pool holds can be used or is lost, under one address each, and
\* nobody else has such a connection.
PoolInv ==
  /\ \A a \in Addrs : clients[a] # 0 => state[clients[a]] \in {"open", "lost"}
  /\ \A a, b \in Addrs : clients[a] # 0 /\ clients[a] = clients[b] => a = b
  /\ NoConnLeak

\* While a task dials, its address has no client, and its connection is in
\* nobody else's hands.
DialInv ==
  \A t \in Tasks :
    /\ pc[t] \in {"connect", "handshake"} => clients[Target[t]] = 0
    /\ pc[t] = "handshake" => conn[t] \in Conns /\ state[conn[t]] = "handshake"

\* Where a task is says what has become of its call.
CallInv ==
  \A t \in Tasks :
    /\ pc[t] \in {"dial", "connect", "handshake", "failed"} => status[t] = "idle"
    /\ pc[t] = "call" => status[t] \in {"idle", "issued"}
    /\ pc[t] \in {"collect", "done"} => status[t] # "issued"
    /\ pc[t] = "collect" => t \in Cast

\* What Broadcast has so far speaks for the tasks that have collected.
Collected(t) == t \in Cast /\ pc[t] = "done"

CastInv ==
  /\ e = "nil" => \A t \in Tasks : Collected(t) => status[t] = "ok"
  /\ e # "nil" => \E t \in Tasks : Collected(t) /\ status[t] # "ok"
  /\ reply = NoTask => \A t \in Tasks : Collected(t) => status[t] # "ok"
  /\ reply # NoTask => Collected(reply) /\ status[reply] = "ok"

\* Broadcast cancels after it has an error; a call is cancelled after its
\* context is over.
CtxInv ==
  /\ ctx = "cancelled" => e # "nil"
  /\ e = "cancelled" => ctx = "ended"
  /\ \A t \in Cast : status[t] = "cancelled" => ctx # "live"

IInv == TypeOK /\ PoolInv /\ DialInv /\ CallInv /\ CastInv /\ CtxInv
-----------------------------------------------------------------------------
LEMMA ReuseStep ==
  ASSUME IInv, NEW t \in Tasks, Reuse(t)
  PROVE  IInv'
<1> USE XClientAssumption DEF IInv, TypeOK, rpc!TypeOK, rpc!Outcome, Conns, poolVars, callVars,
           castVars, Goto, Reuse, IsAvailable
<1>1. TypeOK'
  BY DEF PoolInv, DialInv, CallInv
<1>2. PoolInv' /\ DialInv'
  BY DEF PoolInv, DialInv, NoConnLeak
<1>3. CallInv'
  BY DEF CallInv
<1>4. CastInv' /\ CtxInv'
  BY DEF CastInv, CtxInv, CallInv, Collected
<1> QED
  BY <1>1, <1>2, <1>3, <1>4

LEMMA RedialStep ==
  ASSUME IInv, NEW t \in Tasks, Redial(t)
  PROVE  IInv'
<1> DEFINE old == clients[Target[t]]
<1>1. /\ Target[t] \in Addrs /\ old \in 0..MaxConns
      /\ clients \in [Addrs -> 0..MaxConns]
      /\ clients' = [clients EXCEPT ![Target[t]] = 0]
      /\ \A a \in Addrs : clients'[a] = IF a = Target[t] THEN 0 ELSE clients[a]
  BY XClientAssumption DEF IInv, TypeOK, Redial
<1>2. /\ state' \in [Conns -> {"none", "handshake", "open", "lost", "closed", "orphan"}]
      /\ \A n \in Conns : state'[n] = IF n = old THEN "closed" ELSE state[n]
  <2>1. state' = CloseConn(old)
    BY DEF Redial
  <2>2. CASE old = 0
    BY <2>1, <2>2 DEF CloseConn, Conns, IInv, TypeOK
  <2>3. CASE old # 0
    BY <2>1, <2>3, <1>1 DEF CloseConn, Conns, IInv, TypeOK
  <2> QED
    BY <2>2, <2>3
<1>3. /\ mu' = t /\ pc[t] = "dial" /\ pc' = [pc EXCEPT ![t] = "connect"]
      /\ pc \in [Tasks -> {"dial", "connect", "handshake", "call", "failed",
                           "collect", "done"}]
      /\ \A u \in Tasks : pc[u] \notin {"connect", "handshake"}
      /\ UNCHANGED <<conn, status, answered, ctx, e, reply>>
  BY XClientAssumption DEF IInv, TypeOK, Redial, Goto, callVars, castVars
<1>4. TypeOK'
  <2>1. clients' \in [Addrs -> 0..MaxConns]
    BY <1>1, XClientAssumption
  <2> QED
    BY <1>2, <1>3, <2>1 DEF IInv, TypeOK, rpc!TypeOK
<1>5. PoolInv'
  <2>1. \A a \in Addrs : clients'[a] # 0 =>
          clients'[a] \in Conns /\ clients'[a] # old /\ clients'[a] = clients[a]
    BY <1>1, XClientAssumption DEF IInv, PoolInv, Conns
  <2>2. NoConnLeak'
    BY <1>1, <1>2 DEF IInv, PoolInv, NoConnLeak
  <2>3. \A a \in Addrs : clients'[a] # 0 => state'[clients'[a]] \in {"open", "lost"}
    BY <2>1, <1>2 DEF IInv, PoolInv
  <2>4. \A a, b \in Addrs : clients'[a] # 0 /\ clients'[a] = clients'[b] => a = b
    BY <2>1 DEF IInv, PoolInv
  <2> QED
    BY <2>2, <2>3, <2>4 DEF PoolInv
<1>6. DialInv'
  BY <1>1, <1>3 DEF IInv, DialInv
<1>7. CallInv'
  BY <1>3 DEF IInv, CallInv
<1>8. CastInv' /\ CtxInv'
  BY <1>3 DEF IInv, CastInv, CtxInv, Collected
<1> QED
  BY <1>4, <1>5, <1>6, <1>7, <1>8 DEF IInv

LEMMA ConnectStep ==
  ASSUME IInv, NEW t \in Tasks, Connect(t)
  PROVE  IInv'
<1> USE XClientAssumption DEF IInv, TypeOK, rpc!TypeOK, rpc!Outcome, Conns, poolVars, callVars,
           castVars, Goto, Connect
<1>1. TypeOK'
  BY DEF PoolInv, DialInv, CallInv
<1>2. PoolInv' /\ DialInv'
  BY DEF PoolInv, DialInv, NoConnLeak
<1>3. CallInv'
  BY DEF CallInv
<1>4. CastInv' /\ CtxInv'
  BY DEF CastInv, CtxInv, CallInv, Collected
<1> QED
  BY <1>1, <1>2, <1>3, <1>4

LEMMA HandshakeDoneStep ==
  ASSUME IInv, NEW t \in Tasks, HandshakeDone(t)
  PROVE  IInv'
<1> USE XClientAssumption DEF IInv, TypeOK, rpc!TypeOK, Conns, callVars, castVars, Goto,
           HandshakeDone
<1>1. /\ conn[t] \in Conns /\ conn[t] # 0 /\ state[conn[t]] = "handshake"
      /\ \A u \in Tasks : u # t => pc[u] \notin {"connect", "handshake"}
  BY DEF DialInv
<1>2. \A a \in Addrs : clients[a] # conn[t]
  BY <1>1 DEF PoolInv
<1>3. /\ state' = [state EXCEPT ![conn[t]] = "open"]
      /\ clients' = [clients EXCEPT ![Target[t]] = conn[t]]
      /\ Target[t] \in Addrs /\ clients[Target[t]] = 0
  BY DEF DialInv
<1>4. TypeOK'
  <2>1. clients' \in [Addrs -> 0..MaxConns] /\ mu' \in Tasks \cup {NoTask}
    BY <1>1, <1>2, <1>3
  <2>2. state' \in [Conns -> {"none", "handshake", "open", "lost", "closed", "orphan"}]
    BY <1>1, <1>2, <1>3
  <2>3. /\ pc' \in [Tasks -> {"dial", "connect", "handshake", "call", "failed",
                              "collect", "done"}]
        /\ \A u \in Tasks : pc'[u] \in {"connect", "handshake"} <=> mu' = u
    BY <1>1
  <2> QED
    BY <2>1, <2>2, <2>3
<1>5. PoolInv'
  <2>1. \A a \in Addrs : clients'[a] # 0 => state'[clients'[a]] \in {"open", "lost"}
    BY <1>1, <1>2, <1>3 DEF PoolInv
  <2>2. \A a, b \in Addrs : clients'[a] # 0 /\ clients'[a] = clients'[b] => a = b
    BY <1>1, <1>2, <1>3 DEF PoolInv
  <2>3. NoConnLeak'
    BY <1>1, <1>2, <1>3 DEF PoolInv, NoConnLeak
  <2> QED
    BY <2>1, <2>2, <2>3 DEF PoolInv
<1>6. DialInv' /\ CallInv'
  BY <1>1 DEF DialInv, CallInv
<1>7. CastInv' /\ CtxInv'
  BY DEF CastInv, CtxInv, Collected
<1> QED
  BY <1>4, <1>5, <1>6, <1>7

LEMMA ConnectFailsStep ==
  ASSUME IInv, NEW t \in Tasks, ConnectFails(t)
  PROVE  IInv'
<1> USE XClientAssumption DEF IInv, TypeOK, rpc!TypeOK, rpc!Outcome, Conns, poolVars, callVars,
           castVars, Goto, ConnectFails, DialFails
<1>1. TypeOK'
  BY DEF PoolInv, DialInv, CallInv
<1>2. PoolInv' /\ DialInv'
  BY DEF PoolInv, DialInv, NoConnLeak
<1>3. CallInv'
  BY DEF CallInv
<1>4. CastInv' /\ CtxInv'
  BY DEF CastInv, CtxInv, CallInv, Collected
<1> QED
  BY <1>1, <1>2, <1>3, <1>4

LEMMA HandshakeFailsStep ==
  ASSUME IInv, NEW t \in Tasks, HandshakeFails(t)
  PROVE  IInv'
<1> USE XClientAssumption DEF IInv, TypeOK, rpc!TypeOK, rpc!Outcome, Conns, poolVars, callVars,
           castVars, Goto, HandshakeFails, DialFails
<1>1. TypeOK'
  BY DEF PoolInv, DialInv, CallInv
<1>2. PoolInv' /\ DialInv'
  BY DEF PoolInv, DialInv, NoConnLeak
<1>3. CallInv'
  BY DEF CallInv
<1>4. CastInv' /\ CtxInv'
  BY DEF CastInv, CtxInv, CallInv, Collected
<1> QED
  BY <1>1, <1>2, <1>3, <1>4

LEMMA DialTimesOutStep ==
  ASSUME IInv, NEW t \in Tasks, DialTimesOut(t)
  PROVE  IInv'
<1> USE XClientAssumption DEF IInv, TypeOK, rpc!TypeOK, rpc!Outcome, Conns, poolVars, callVars,
           castVars, Goto, DialTimesOut, DialFails
<1>1. TypeOK'
  BY DEF PoolInv, DialInv, CallInv
<1>2. PoolInv' /\ DialInv'
  BY DEF PoolInv, DialInv, NoConnLeak
<1>3. CallInv'
  BY DEF CallInv
<1>4. CastInv' /\ CtxInv'
  BY DEF CastInv, CtxInv, CallInv, Collected
<1> QED
  BY <1>1, <1>2, <1>3, <1>4

LEMMA IssueStep ==
  ASSUME IInv, NEW t \in Tasks, Issue(t)
  PROVE  IInv'
<1> USE XClientAssumption DEF IInv, TypeOK, rpc!TypeOK, rpc!Outcome, Conns, poolVars, callVars,
           castVars, Goto, Issue, rpc!Issue
<1>1. TypeOK'
  BY DEF PoolInv, DialInv, CallInv
<1>2. PoolInv' /\ DialInv'
  BY DEF PoolInv, DialInv, NoConnLeak
<1>3. CallInv'
  BY DEF CallInv
<1>4. CastInv' /\ CtxInv'
  BY DEF CastInv, CtxInv, CallInv, Collected
<1> QED
  BY <1>1, <1>2, <1>3, <1>4

LEMMA ServerAnswersStep ==
  ASSUME IInv, NEW t \in Tasks, ServerAnswers(t)
  PROVE  IInv'
<1> USE XClientAssumption DEF IInv, TypeOK, rpc!TypeOK, rpc!Outcome, Conns, poolVars, callVars,
           castVars, Goto, Unanswered, ServerAnswers, rpc!Answer
<1>1. TypeOK'
  BY DEF PoolInv, DialInv, CallInv
<1>2. PoolInv' /\ DialInv'
  BY DEF PoolInv, DialInv, NoConnLeak
<1>3. CallInv'
  BY DEF CallInv
<1>4. CastInv' /\ CtxInv'
  BY DEF CastInv, CtxInv, CallInv, Collected
<1> QED
  BY <1>1, <1>2, <1>3, <1>4

LEMMA SettleStep ==
  ASSUME IInv, NEW t \in Tasks, Settle(t)
  PROVE  IInv'
<1> USE XClientAssumption DEF IInv, TypeOK, rpc!TypeOK, rpc!Outcome, Conns, poolVars, callVars,
           castVars, Goto, Settle, CallReturns, rpc!Settle, CtxAfter
<1>1. TypeOK'
  BY DEF PoolInv, DialInv, CallInv
<1>2. PoolInv' /\ DialInv'
  BY DEF PoolInv, DialInv, NoConnLeak
<1>3. CallInv'
  BY DEF CallInv
<1>4. CastInv' /\ CtxInv'
  BY DEF CastInv, CtxInv, CallInv, Collected
<1> QED
  BY <1>1, <1>2, <1>3, <1>4

LEMMA ServerRefusesStep ==
  ASSUME IInv, NEW t \in Tasks, ServerRefuses(t)
  PROVE  IInv'
<1> USE XClientAssumption DEF IInv, TypeOK, rpc!TypeOK, rpc!Outcome, Conns, poolVars, callVars,
           castVars, Goto, Unanswered, ServerRefuses, CallReturns, rpc!Settle, CtxAfter
<1>1. TypeOK'
  BY DEF PoolInv, DialInv, CallInv
<1>2. PoolInv' /\ DialInv'
  BY DEF PoolInv, DialInv, NoConnLeak
<1>3. CallInv'
  BY DEF CallInv
<1>4. CastInv' /\ CtxInv'
  BY DEF CastInv, CtxInv, CallInv, Collected
<1> QED
  BY <1>1, <1>2, <1>3, <1>4

LEMMA CallCancelledStep ==
  ASSUME IInv, NEW t \in Tasks, CallCancelled(t)
  PROVE  IInv'
<1> USE XClientAssumption DEF IInv, TypeOK, rpc!TypeOK, rpc!Outcome, Conns, poolVars, callVars,
           castVars, Goto, CallCancelled, CallReturns, rpc!Settle, CtxAfter
<1>1. TypeOK'
  BY DEF PoolInv, DialInv, CallInv
<1>2. PoolInv' /\ DialInv'
  BY DEF PoolInv, DialInv, NoConnLeak
<1>3. CallInv'
  BY DEF CallInv
<1>4. CastInv' /\ CtxInv'
  BY DEF CastInv, CtxInv, CallInv, Collected
<1> QED
  BY <1>1, <1>2, <1>3, <1>4

LEMMA ReturnDialErrorStep ==
  ASSUME IInv, NEW t \in Tasks, ReturnDialError(t)
  PROVE  IInv'
<1> USE XClientAssumption DEF IInv, TypeOK, rpc!TypeOK, rpc!Outcome, Conns, poolVars, callVars,
           castVars, Goto, ReturnDialError
<1>1. TypeOK'
  BY DEF PoolInv, DialInv, CallInv
<1>2. PoolInv' /\ DialInv'
  BY DEF PoolInv, DialInv, NoConnLeak
<1>3. CallInv'
  BY DEF CallInv
<1>4. CastInv' /\ CtxInv'
  BY DEF CastInv, CtxInv, CallInv, Collected
<1> QED
  BY <1>1, <1>2, <1>3, <1>4

LEMMA CollectStep ==
  ASSUME IInv, NEW t \in Tasks, Collect(t)
  PROVE  IInv'
<1> USE XClientAssumption DEF IInv, TypeOK, rpc!TypeOK, rpc!Outcome, Conns, poolVars, callVars,
           castVars, Goto, Collect, Cancel, ErrorOf
<1>1. TypeOK'
  BY DEF PoolInv, DialInv, CallInv
<1>2. PoolInv' /\ DialInv'
  BY DEF PoolInv, DialInv, NoConnLeak
<1>3. CallInv'
  BY DEF CallInv
<1>4. CastInv' /\ CtxInv'
  BY DEF CastInv, CtxInv, CallInv, Collected
<1> QED
  BY <1>1, <1>2, <1>3, <1>4

LEMMA UserCancelsStep ==
  ASSUME IInv, UserCancels
  PROVE  IInv'
<1> USE XClientAssumption DEF IInv, TypeOK, rpc!TypeOK, rpc!Outcome, Conns, poolVars, callVars,
           castVars, Goto, UserCancels
<1>1. TypeOK'
  BY DEF PoolInv, DialInv, CallInv
<1>2. PoolInv' /\ DialInv'
  BY DEF PoolInv, DialInv, NoConnLeak
<1>3. CallInv'
  BY DEF CallInv
<1>4. CastInv' /\ CtxInv'
  BY DEF CastInv, CtxInv, CallInv, Collected
<1> QED
  BY <1>1, <1>2, <1>3, <1>4

LEMMA ConnLostStep ==
  ASSUME IInv, NEW n \in Conns, ConnLost(n)
  PROVE  IInv'
<1> USE XClientAssumption DEF IInv, TypeOK, rpc!TypeOK, rpc!Outcome, Conns, poolVars, callVars,
           castVars, Goto, ConnLost
<1>1. TypeOK'
  BY DEF PoolInv, DialInv, CallInv
<1>2. PoolInv' /\ DialInv'
  BY DEF PoolInv, DialInv, NoConnLeak
<1>3. CallInv'
  BY DEF CallInv
<1>4. CastInv' /\ CtxInv'
  BY DEF CastInv, CtxInv, CallInv, Collected
<1> QED
  BY <1>1, <1>2, <1>3, <1>4

LEMMA CloseStep ==
  ASSUME IInv, Close
  PROVE  IInv'
<1> USE XClientAssumption DEF IInv, TypeOK, rpc!TypeOK, rpc!Outcome, Conns, poolVars, callVars,
           castVars, Goto, Close
<1>1. TypeOK'
  BY DEF PoolInv, DialInv, CallInv
<1>2. PoolInv' /\ DialInv'
  BY DEF PoolInv, DialInv, NoConnLeak
<1>3. CallInv'
  BY DEF CallInv
<1>4. CastInv' /\ CtxInv'
  BY DEF CastInv, CtxInv, CallInv, Collected
<1> QED
  BY <1>1, <1>2, <1>3, <1>4

LEMMA InitIInv == Init => IInv
BY XClientAssumption
   DEF Init, rpc!Init, IInv, TypeOK, rpc!TypeOK, Conns, PoolInv, DialInv, CallInv, CastInv,
       CtxInv, NoConnLeak, Collected

\* The invariant holds of every pool.
THEOREM Invariance == Spec => []IInv
<1>1. IInv /\ [Next]_vars => IInv'
  <2> SUFFICES ASSUME IInv, [Next]_vars PROVE IInv'
    OBVIOUS
  <2>1. ASSUME NEW t \in Tasks, Dial(t) \/ Handshake(t)
        PROVE  IInv'
    BY <2>1, ReuseStep, RedialStep, ConnectStep, ConnectFailsStep, DialTimesOutStep,
       HandshakeDoneStep, HandshakeFailsStep DEF Dial, Handshake
  <2>2. ASSUME NEW t \in Tasks, Call(t) \/ CallCancelled(t) \/ Server(t)
        PROVE  IInv'
    BY <2>2, IssueStep, SettleStep, ReturnDialErrorStep, CollectStep, CallCancelledStep,
       ServerAnswersStep, ServerRefusesStep DEF Call, Server
  <2>3. CASE (\E n \in Conns : ConnLost(n)) \/ UserCancels \/ Close
    BY <2>3, ConnLostStep, UserCancelsStep, CloseStep
  <2>4. CASE UNCHANGED vars
    BY <2>4 DEF vars, IInv, TypeOK, rpc!TypeOK, PoolInv, DialInv, CallInv, CastInv, CtxInv,
                NoConnLeak, Collected
  <2> QED
    BY <2>1, <2>2, <2>3, <2>4 DEF Next, Returned
<1> QED
  BY InitIInv, <1>1, PTL DEF Spec

\* The variables of the pool and of Broadcast keep their types.
THEOREM TypeCorrect == Spec => []TypeOK
<1>1. IInv => TypeOK
  BY DEF IInv
<1> QED
  BY Invariance, <1>1, PTL

\* No connection that is not closed escapes the pool (xclient.go:41-52,
\* client.go:275-279).
THEOREM NothingLeaks == Spec => []NoConnLeak
<1>1. IInv => NoConnLeak
  BY DEF IInv, PoolInv
<1> QED
  BY Invariance, <1>1, PTL

\* A Broadcast reports the first error that it did not cause itself, or none if
\* there was none, and the reply of a call that succeeded (xclient.go:93-102).
THEOREM BroadcastCorrect == Spec => []BroadcastOutcome
<1>1. IInv => BroadcastOutcome
  BY XClientAssumption DEF IInv, TypeOK, CastInv, CtxInv, Collected, BroadcastOutcome
<1> QED
  BY Invariance, <1>1, PTL
=============================================================================
