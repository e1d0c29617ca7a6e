--------------------------- MODULE RpcClientProofs --------------------------
(***************************************************************************)
(* What holds of RpcClient for every set of calls and every capacity of    *)
(* the channel the users of Go share.  The argument: a call's delivery is  *)
(* owed by exactly one place at a time - by send while it holds sending,   *)
(* by the map of pending calls, by the receiver that took it out of the    *)
(* map, by terminateCalls' walk - and each hand-over happens under a lock. *)
(***************************************************************************)
EXTENDS RpcClient, TLAPS

\* receive is past shutdown = TRUE.
Ending == rpc \in {"flush", "stopped"}

InMap(c) == callSeq[c] \in DOMAIN pending

\* send holds client.sending from its first line to its last, terminateCalls
\* from the start of its walk to the end.
LockInv ==
  /\ \A c \in Calls : sending = c <=> pc[c] \in {"register", "write", "abort", "fail"}
  /\ sending = Receiver <=> rpc = "flush"
  /\ shutdown <=> Ending
  /\ Ending => \A c \in Calls : pc[c] \notin {"write", "abort", "fail"}

\* Numbers are given once, and the shared header is that of the call in Write.
SeqInv ==
  /\ \A c \in Calls : callSeq[c] < seq
  /\ \A c, d \in Calls : callSeq[c] = callSeq[d] /\ callSeq[c] # 0 => c = d
  /\ \A c \in Calls : pc[c] \in {"idle", "register"} => callSeq[c] = 0
  /\ \A c \in Calls : pc[c] \in {"write", "abort", "fail"} => callSeq[c] # 0
  /\ \A c \in Calls : pc[c] = "write" => header = callSeq[c]

MapInv == \A s \in DOMAIN pending : s # 0 /\ callSeq[pending[s]] = s

\* A number on the wire is that of the call it travels with.
WireInv ==
  /\ \A r \in reqs \cup resps : r.seq # 0 /\ callSeq[r.call] = r.seq
  /\ \A r \in resps : ~r.err => r.call \in answered

\* What the receiver has in its hands.
HandInv ==
  /\ rcall # NoCall => /\ rpc \in {"body", "deliver"}
                       /\ resp.call = rcall
                       /\ callSeq[rcall] # 0
                       /\ ~InMap(rcall)
                       /\ dones[rcall] = 0
                       /\ pc[rcall] # "fail"
                       /\ ~resp.err => rcall \in answered
  /\ rpc = "deliver" => /\ rcall # NoCall
                        /\ ~resp.err /\ ~rerr => reply[rcall] = rcall
  /\ \A c \in flush : rpc = "flush" /\ dones[c] = 0 /\ callSeq[c] # 0

\* Who owes a delivery, and that nobody does once it is made.
DeliveryInv ==
  \A c \in Calls :
    /\ dones[c] \in {0, 1}
    /\ pc[c] \in {"idle", "register", "fail"} => dones[c] = 0
    /\ pc[c] \in {"fail", "cancelled"} => ~InMap(c) /\ c \notin flush
    /\ InMap(c) /\ ~Ending => dones[c] = 0
    /\ pc[c] \in {"write", "abort", "wait"} /\ dones[c] = 0 =>
         /\ rpc # "stopped"
         /\ IF rpc = "flush" THEN c \in flush ELSE InMap(c) \/ rcall = c
    /\ pc[c] = "returned" => dones[c] = 1

ResultInv ==
  \A c \in Calls : /\ reply[c] \in {NoCall, c}
                   /\ reply[c] = c => c \in answered
                   /\ dones[c] = 1 /\ error[c] = "nil" => reply[c] = c

IInv == /\ TypeOK /\ LockInv /\ SeqInv /\ MapInv /\ WireInv
        /\ HandInv /\ DeliveryInv /\ ResultInv

-----------------------------------------------------------------------------
(* The invariant survives each action, one lemma per action               *)

\* Taking the mutex: nobody else is in send, and the call has no number yet.
LEMMA IssueStep ==
  ASSUME IInv, NEW c \in Calls, Issue(c)
  PROVE  IInv'
<1>1. TypeOK'
  BY DEF IInv, TypeOK, Issue, Acquire, Goto, tabVars, recvVars, connVars
<1>2. LockInv'
  BY CallsAssumption DEF IInv, LockInv, Issue, Acquire, TypeOK, Ending, Goto, tabVars, recvVars
<1>3. SeqInv'
  BY DEF IInv, SeqInv, Issue, Goto, tabVars
<1>4. HandInv'
  BY DEF IInv, HandInv, Issue, InMap, Goto, tabVars, recvVars, connVars
<1>5. DeliveryInv'
  BY DEF IInv, DeliveryInv, Issue, Ending, InMap, Goto, tabVars, recvVars
<1>6. MapInv' /\ WireInv' /\ ResultInv'
  BY DEF IInv, MapInv, WireInv, ResultInv, Issue, tabVars, connVars
<1> QED
  BY <1>1, <1>2, <1>3, <1>4, <1>5, <1>6 DEF IInv

\* Registering: the number is fresh, so no other entry of the map is touched.
LEMMA RegisterCallStep ==
  ASSUME IInv, NEW c \in Calls, RegisterCall(c)
  PROVE  IInv'
<1>1. TypeOK'
  BY DEF IInv, TypeOK, RegisterCall, Goto, recvVars, connVars
<1>2. LockInv'
  BY DEF IInv, LockInv, RegisterCall, Ending, IsAvailable, Goto, recvVars
<1>3. SeqInv'
  BY DEF IInv, SeqInv, RegisterCall, TypeOK, LockInv, Goto
<1>4. MapInv'
  BY DEF IInv, MapInv, RegisterCall, TypeOK, SeqInv
<1>5. WireInv'
  BY DEF IInv, WireInv, RegisterCall, SeqInv, connVars
<1>6. HandInv'
  BY DEF IInv, HandInv, RegisterCall, TypeOK, SeqInv, InMap, Goto, recvVars, connVars
<1>7. DeliveryInv'
  BY DEF IInv, DeliveryInv, RegisterCall, TypeOK, LockInv, SeqInv, Ending, InMap,
     IsAvailable, Goto, recvVars
<1>8. ResultInv'
  BY DEF IInv, ResultInv, RegisterCall, connVars
<1> QED
  BY <1>1, <1>2, <1>3, <1>4, <1>5, <1>6, <1>7, <1>8 DEF IInv

\* Refusing: a call without a number is in nobody else's hands.
LEMMA RegisterFailsStep ==
  ASSUME IInv, NEW c \in Calls, RegisterFails(c)
  PROVE  IInv'
<1>1. TypeOK'
  BY DEF IInv, TypeOK, RegisterFails, Deliver, Goto, tabVars, recvVars, connVars
<1>2. LockInv'
  BY CallsAssumption DEF IInv, LockInv, RegisterFails, TypeOK, Ending, Goto, tabVars,
     recvVars
<1>3. SeqInv'
  BY DEF IInv, SeqInv, RegisterFails, Goto, tabVars
<1>4. HandInv'
  BY DEF IInv, HandInv, RegisterFails, SeqInv, InMap, Deliver, Goto, tabVars,
     recvVars, connVars
<1>5. DeliveryInv'
  BY DEF IInv, DeliveryInv, RegisterFails, TypeOK, SeqInv, MapInv, Ending, InMap,
     Deliver, Goto, tabVars, recvVars
<1>6. ResultInv'
  BY DEF IInv, ResultInv, RegisterFails, TypeOK, Deliver, connVars
<1>7. MapInv' /\ WireInv'
  BY DEF IInv, MapInv, WireInv, RegisterFails, tabVars, connVars
<1> QED
  BY <1>1, <1>2, <1>3, <1>4, <1>5, <1>6, <1>7 DEF IInv

\* Sending: the header is that of the call, whose number goes on the wire.
LEMMA WriteStep ==
  ASSUME IInv, NEW c \in Calls, Write(c)
  PROVE  IInv'
<1>1. TypeOK'
  BY DEF IInv, TypeOK, Write, Goto, Request, tabVars, recvVars
<1>2. LockInv'
  BY CallsAssumption DEF IInv, LockInv, Write, TypeOK, Ending, Goto, tabVars, recvVars
<1>3. SeqInv'
  BY DEF IInv, SeqInv, Write, Goto, tabVars
<1>4. WireInv'
  BY DEF IInv, WireInv, Write, SeqInv
<1>5. HandInv'
  BY DEF IInv, HandInv, Write, InMap, Goto, tabVars, recvVars
<1>6. DeliveryInv'
  BY DEF IInv, DeliveryInv, Write, Ending, InMap, Goto, tabVars, recvVars
<1>7. MapInv' /\ ResultInv'
  BY DEF IInv, MapInv, ResultInv, Write, tabVars
<1> QED
  BY <1>1, <1>2, <1>3, <1>4, <1>5, <1>6, <1>7 DEF IInv

\* A failed write changes nothing that the invariant relates but the label.
LEMMA WriteFailsStep ==
  ASSUME IInv, NEW c \in Calls, WriteFails(c)
  PROVE  IInv'
<1>1. TypeOK'
  BY CallsAssumption DEF IInv, TypeOK, WriteFails, LockInv, SeqInv, MapInv, WireInv,
     HandInv, DeliveryInv, ResultInv, Ending, InMap, Goto, Request, Response,
     NoResponse, sendVars, tabVars, recvVars
<1>2. LockInv'
  BY DEF IInv, LockInv, WriteFails, Ending, Goto, sendVars, tabVars, recvVars
<1>3. SeqInv'
  BY DEF IInv, SeqInv, WriteFails, Goto, sendVars, tabVars
<1>4. HandInv'
  BY DEF IInv, HandInv, WriteFails, InMap, Goto, tabVars, recvVars
<1>5. DeliveryInv'
  BY DEF IInv, DeliveryInv, WriteFails, Ending, InMap, Goto, tabVars, recvVars
<1>6. MapInv' /\ WireInv' /\ ResultInv'
  BY DEF IInv, MapInv, WireInv, ResultInv, WriteFails, tabVars
<1> QED
  BY <1>1, <1>2, <1>3, <1>4, <1>5, <1>6 DEF IInv

\* Taking the call back: from here only send owes its delivery.
LEMMA AbortStep ==
  ASSUME IInv, NEW c \in Calls, Abort(c)
  PROVE  IInv'
<1>1. TypeOK'
  BY DEF IInv, TypeOK, Abort, Without, Goto, recvVars, connVars
<1>2. LockInv'
  BY CallsAssumption DEF IInv, LockInv, Abort, TypeOK, Ending, Goto, recvVars
<1>3. SeqInv'
  BY DEF IInv, SeqInv, Abort, TypeOK, Goto
<1>4. MapInv'
  BY DEF IInv, MapInv, Abort, Without
<1>5. HandInv'
  BY DEF IInv, HandInv, Abort, TypeOK, InMap, Lookup, Without, Goto, recvVars, connVars
<1>6. DeliveryInv'
  BY CallsAssumption DEF IInv, DeliveryInv, Abort, TypeOK, LockInv, SeqInv, HandInv,
     InMap, Lookup, Without, Goto, recvVars
<1>7. WireInv' /\ ResultInv'
  BY DEF IInv, WireInv, ResultInv, Abort, connVars
<1> QED
  BY <1>1, <1>2, <1>3, <1>4, <1>5, <1>6, <1>7 DEF IInv

\* Delivering a write error: nobody else has the call.
LEMMA DeliverWriteErrorStep ==
  ASSUME IInv, NEW c \in Calls, DeliverWriteError(c)
  PROVE  IInv'
<1>1. TypeOK'
  BY DEF IInv, TypeOK, DeliverWriteError, Deliver, Goto, tabVars, recvVars, connVars
<1>2. LockInv'
  BY CallsAssumption DEF IInv, LockInv, DeliverWriteError, TypeOK, Ending, Goto,
     tabVars, recvVars
<1>3. SeqInv'
  BY DEF IInv, SeqInv, DeliverWriteError, Goto, tabVars
<1>4. HandInv'
  BY DEF IInv, HandInv, DeliverWriteError, DeliveryInv, InMap, Deliver, Goto,
     tabVars, recvVars, connVars
<1>5. DeliveryInv'
  BY DEF IInv, DeliveryInv, DeliverWriteError, TypeOK, Ending, InMap, Deliver, Goto,
     tabVars, recvVars
<1>6. ResultInv'
  BY DEF IInv, ResultInv, DeliverWriteError, TypeOK, Deliver, connVars
<1>7. MapInv' /\ WireInv'
  BY DEF IInv, MapInv, WireInv, DeliverWriteError, tabVars, connVars
<1> QED
  BY <1>1, <1>2, <1>3, <1>4, <1>5, <1>6, <1>7 DEF IInv

\* Returning: the delivery has been made.
LEMMA ReturnStep ==
  ASSUME IInv, NEW c \in Calls, Return(c)
  PROVE  IInv'
<1>1. TypeOK'
  BY DEF IInv, TypeOK, Return, Goto, sendVars, tabVars, recvVars, connVars
<1>2. LockInv'
  BY DEF IInv, LockInv, Return, Ending, Goto, sendVars, tabVars, recvVars
<1>3. SeqInv'
  BY DEF IInv, SeqInv, Return, Goto, sendVars, tabVars
<1>4. HandInv'
  BY DEF IInv, HandInv, Return, InMap, Goto, tabVars, recvVars, connVars
<1>5. DeliveryInv'
  BY DEF IInv, DeliveryInv, Return, Ending, InMap, Goto, tabVars, recvVars
<1>6. MapInv' /\ WireInv' /\ ResultInv'
  BY DEF IInv, MapInv, WireInv, ResultInv, Return, tabVars, connVars
<1> QED
  BY <1>1, <1>2, <1>3, <1>4, <1>5, <1>6 DEF IInv

\* Giving up: the map forgets this call and no other.
LEMMA CtxDoneStep ==
  ASSUME IInv, NEW c \in Calls, CtxDone(c)
  PROVE  IInv'
<1>1. TypeOK'
  BY DEF IInv, TypeOK, CtxDone, Without, Goto, sendVars, recvVars, connVars
<1>2. LockInv'
  BY DEF IInv, LockInv, CtxDone, Ending, Goto, sendVars, recvVars
<1>3. SeqInv'
  BY DEF IInv, SeqInv, CtxDone, Goto, sendVars
<1>4. MapInv'
  BY DEF IInv, MapInv, CtxDone, Without
<1>5. HandInv'
  BY DEF IInv, HandInv, CtxDone, InMap, Without, Goto, recvVars, connVars
<1>6. DeliveryInv'
  BY DEF IInv, DeliveryInv, CtxDone, TypeOK, SeqInv, MapInv, HandInv, Ending, InMap,
     MuFree, Without, Goto, recvVars
<1>7. WireInv' /\ ResultInv'
  BY DEF IInv, WireInv, ResultInv, CtxDone, connVars
<1> QED
  BY <1>1, <1>2, <1>3, <1>4, <1>5, <1>6, <1>7 DEF IInv

\* Closing the connection concerns none of the other parts.
LEMMA CloseStep ==
  ASSUME IInv, Close
  PROVE  IInv'
<1>1. TypeOK'
  BY CallsAssumption DEF IInv, TypeOK, Close, LockInv, SeqInv, MapInv, WireInv,
     HandInv, DeliveryInv, ResultInv, Ending, InMap, MuFree, Request, Response,
     NoResponse, callVars, sendVars, recvVars
<1>2. LockInv' /\ SeqInv' /\ MapInv' /\ WireInv' /\ HandInv' /\ DeliveryInv' /\ ResultInv'
  BY DEF IInv, LockInv, SeqInv, MapInv, WireInv, HandInv, DeliveryInv, ResultInv,
     Close, Ending, InMap, callVars, sendVars, recvVars
<1> QED
  BY <1>1, <1>2 DEF IInv

\* Matching a response: the number on the wire leads to its own call.
LEMMA ReadHeaderStep ==
  ASSUME IInv, NEW r \in resps, ReadHeader(r)
  PROVE  IInv'
<1>1. TypeOK'
  BY DEF IInv, TypeOK, ReadHeader, Lookup, Without, callVars, sendVars
<1>2. LockInv'
  BY DEF IInv, LockInv, ReadHeader, Ending, callVars, sendVars
<1>3. MapInv'
  BY DEF IInv, MapInv, ReadHeader, Without, callVars
<1>4. WireInv'
  BY DEF IInv, WireInv, ReadHeader, callVars
<1>5. HandInv'
  BY DEF IInv, HandInv, ReadHeader, TypeOK, SeqInv, MapInv, WireInv, DeliveryInv,
     Ending, InMap, Lookup, Without, Response, callVars
<1>6. DeliveryInv'
  BY CallsAssumption DEF IInv, DeliveryInv, ReadHeader, TypeOK, SeqInv, MapInv,
     HandInv, Ending, InMap, Lookup, Without, callVars
<1>7. SeqInv' /\ ResultInv'
  BY DEF IInv, SeqInv, ResultInv, ReadHeader, callVars, sendVars
<1> QED
  BY <1>1, <1>2, <1>3, <1>4, <1>5, <1>6, <1>7 DEF IInv

\* The receiver gives up reading with empty hands.
LEMMA ReadHeaderFailsStep ==
  ASSUME IInv, ReadHeaderFails
  PROVE  IInv'
<1>1. TypeOK'
  BY DEF IInv, TypeOK, ReadHeaderFails, callVars, sendVars, tabVars, connVars
<1>2. LockInv'
  BY DEF IInv, LockInv, ReadHeaderFails, Ending, callVars, sendVars, tabVars
<1>3. HandInv'
  BY DEF IInv, HandInv, ReadHeaderFails
<1>4. DeliveryInv'
  BY DEF IInv, DeliveryInv, ReadHeaderFails, Ending, InMap, callVars, tabVars
<1>5. SeqInv' /\ MapInv' /\ WireInv' /\ ResultInv'
  BY DEF IInv, SeqInv, MapInv, WireInv, ResultInv, ReadHeaderFails, callVars,
     sendVars, tabVars, connVars
<1> QED
  BY <1>1, <1>2, <1>3, <1>4, <1>5 DEF IInv

\* Storing the result in the Reply of the call in hand, which is its own.
LEMMA ReadBodyStep ==
  ASSUME IInv, NEW f \in BOOLEAN, ReadBody(f)
  PROVE  IInv'
<1>1. TypeOK'
  BY DEF IInv, TypeOK, ReadBody, Response, NoResponse, sendVars, tabVars, connVars
<1>2. LockInv'
  BY DEF IInv, LockInv, ReadBody, Ending, sendVars, tabVars
<1>3. HandInv'
  BY DEF IInv, HandInv, ReadBody, TypeOK, InMap, tabVars, connVars
<1>4. DeliveryInv'
  BY DEF IInv, DeliveryInv, ReadBody, Ending, InMap, tabVars
<1>5. ResultInv'
  BY DEF IInv, ResultInv, ReadBody, TypeOK, HandInv, connVars
<1>6. SeqInv' /\ MapInv' /\ WireInv'
  BY DEF IInv, SeqInv, MapInv, WireInv, ReadBody, sendVars, tabVars, connVars
<1> QED
  BY <1>1, <1>2, <1>3, <1>4, <1>5, <1>6 DEF IInv

\* Delivering a response: the receiver had the call to itself.
LEMMA DeliverResponseStep ==
  ASSUME IInv, DeliverResponse
  PROVE  IInv'
<1>1. rcall \in Calls /\ resp.call = rcall
  BY DEF IInv, TypeOK, HandInv, DeliverResponse
<1>2. /\ dones' = [dones EXCEPT ![rcall] = 1]
      /\ dones[rcall] = 0
  <2>1. dones' = [dones EXCEPT ![rcall] = @ + 1]
    BY DEF DeliverResponse, Deliver
  <2>2. dones[rcall] = 0
    BY <1>1 DEF IInv, TypeOK, HandInv, DeliverResponse
  <2> QED
    BY <1>1, <2>1, <2>2 DEF IInv, TypeOK
<1>3. /\ error' \in [Calls -> {"nil", "shutdown", "write", "server", "body", "conn"}]
      /\ \A c \in Calls : c # rcall => error'[c] = error[c]
      /\ error'[rcall] = "nil" => ~resp.err /\ ~rerr
  <2>1. CASE resp.err
    BY <1>1, <2>1 DEF IInv, TypeOK, DeliverResponse, Deliver
  <2>2. CASE ~resp.err /\ rerr
    BY <1>1, <2>2 DEF IInv, TypeOK, DeliverResponse, Deliver
  <2>3. CASE ~resp.err /\ ~rerr
    BY <1>1, <2>3 DEF IInv, TypeOK, DeliverResponse, Deliver
  <2> QED
    BY <2>1, <2>2, <2>3 DEF IInv, TypeOK
<1>4. TypeOK'
  BY <1>2, <1>3 DEF IInv, TypeOK, DeliverResponse, sendVars, tabVars, connVars, NoResponse
<1>5. ResultInv'
  BY <1>1, <1>2, <1>3 DEF IInv, TypeOK, HandInv, ResultInv, DeliverResponse, connVars
<1>6. LockInv' /\ SeqInv' /\ MapInv' /\ WireInv'
  BY DEF IInv, LockInv, SeqInv, MapInv, WireInv, DeliverResponse, Ending, sendVars,
     tabVars, connVars
<1>7. HandInv'
  BY DEF IInv, HandInv, DeliverResponse
<1>8. DeliveryInv'
  <2>1. /\ rpc = "deliver" /\ rpc' \notin {"flush", "stopped"}
        /\ UNCHANGED <<pc, callSeq, pending, flush>>
        /\ rcall' = NoCall
    BY DEF DeliverResponse, tabVars
  <2>2. /\ callSeq[rcall] # 0 /\ ~InMap(rcall) /\ pc[rcall] # "fail"
        /\ pc[rcall] \notin {"idle", "register"}
    BY <1>1, <2>1 DEF IInv, HandInv, SeqInv
  <2> QED
    BY <1>1, <1>2, <2>1, <2>2 DEF IInv, TypeOK, DeliveryInv, Ending, InMap
<1> QED
  BY <1>4, <1>5, <1>6, <1>7, <1>8 DEF IInv

\* Starting the walk: with sending free, every call that waits is in the map.
LEMMA TerminateCallsStep ==
  ASSUME IInv, TerminateCalls
  PROVE  IInv'
<1>1. TypeOK'
  BY DEF IInv, TypeOK, TerminateCalls, Acquire, callVars, connVars
<1>2. LockInv'
  BY CallsAssumption DEF IInv, LockInv, TerminateCalls, Acquire, Ending, callVars
<1>3. HandInv'
  BY DEF IInv, HandInv, TerminateCalls, TypeOK, MapInv, DeliveryInv, Ending, InMap, callVars
<1>4. DeliveryInv'
  BY CallsAssumption DEF IInv, DeliveryInv, TerminateCalls, TypeOK, SeqInv, MapInv,
     HandInv, Ending, InMap, callVars
<1>5. SeqInv' /\ MapInv' /\ WireInv' /\ ResultInv'
  BY DEF IInv, SeqInv, MapInv, WireInv, ResultInv, TerminateCalls, callVars, connVars
<1> QED
  BY <1>1, <1>2, <1>3, <1>4, <1>5 DEF IInv

\* One delivery of the walk.
LEMMA TerminateCallStep ==
  ASSUME IInv, NEW c \in Calls, TerminateCall(c)
  PROVE  IInv'
<1>1. TypeOK'
  BY DEF IInv, TypeOK, TerminateCall, Deliver, sendVars, tabVars, connVars
<1>2. LockInv'
  BY DEF IInv, LockInv, TerminateCall, Ending, sendVars, tabVars
<1>3. HandInv'
  BY DEF IInv, HandInv, TerminateCall, Deliver
<1>4. DeliveryInv'
  BY DEF IInv, DeliveryInv, TerminateCall, TypeOK, SeqInv, HandInv, Ending, InMap,
     Deliver, tabVars
<1>5. ResultInv'
  BY DEF IInv, ResultInv, TerminateCall, TypeOK, Deliver, connVars
<1>6. SeqInv' /\ MapInv' /\ WireInv'
  BY DEF IInv, SeqInv, MapInv, WireInv, TerminateCall, sendVars, tabVars, connVars
<1> QED
  BY <1>1, <1>2, <1>3, <1>4, <1>5, <1>6 DEF IInv

\* Ending the walk: it owes nothing any more.
LEMMA TerminateReturnsStep ==
  ASSUME IInv, TerminateReturns
  PROVE  IInv'
<1>1. TypeOK'
  BY DEF IInv, TypeOK, TerminateReturns, callVars, tabVars, connVars
<1>2. LockInv'
  BY CallsAssumption DEF IInv, LockInv, TerminateReturns, Ending, callVars, tabVars
<1>3. HandInv'
  BY DEF IInv, HandInv, TerminateReturns
<1>4. DeliveryInv'
  BY DEF IInv, DeliveryInv, TerminateReturns, Ending, InMap, callVars, tabVars
<1>5. SeqInv' /\ MapInv' /\ WireInv' /\ ResultInv'
  BY DEF IInv, SeqInv, MapInv, WireInv, ResultInv, TerminateReturns, callVars,
     tabVars, connVars
<1> QED
  BY <1>1, <1>2, <1>3, <1>4, <1>5 DEF IInv

\* A response carries the number and the call of its request.
LEMMA ServerRepliesStep ==
  ASSUME IInv, NEW q \in reqs, NEW e \in BOOLEAN, ServerReplies(q, e)
  PROVE  IInv'
<1>1. TypeOK'
  BY DEF IInv, TypeOK, ServerReplies, Request, Response, callVars, sendVars, tabVars,
     recvVars
<1>2. WireInv'
  BY DEF IInv, WireInv, ServerReplies, callVars
<1>3. HandInv'
  BY DEF IInv, HandInv, ServerReplies, InMap, callVars, tabVars, recvVars
<1>4. ResultInv'
  BY DEF IInv, ResultInv, ServerReplies, callVars
<1>5. LockInv' /\ SeqInv' /\ MapInv' /\ DeliveryInv'
  BY DEF IInv, LockInv, SeqInv, MapInv, DeliveryInv, ServerReplies, Ending, InMap,
     callVars, sendVars, tabVars, recvVars
<1> QED
  BY <1>1, <1>2, <1>3, <1>4, <1>5 DEF IInv

\* Losing the connection concerns none of the other parts.
LEMMA ConnLostStep ==
  ASSUME IInv, ConnLost
  PROVE  IInv'
<1>1. TypeOK'
  BY CallsAssumption DEF IInv, TypeOK, ConnLost, LockInv, SeqInv, MapInv, WireInv,
     HandInv, DeliveryInv, ResultInv, Ending, InMap, Request, Response, NoResponse,
     callVars, sendVars, tabVars, recvVars
<1>2. LockInv' /\ SeqInv' /\ MapInv' /\ WireInv' /\ HandInv' /\ DeliveryInv' /\ ResultInv'
  BY DEF IInv, LockInv, SeqInv, MapInv, WireInv, HandInv, DeliveryInv, ResultInv,
     ConnLost, Ending, InMap, callVars, sendVars, tabVars, recvVars
<1> QED
  BY <1>1, <1>2 DEF IInv
-----------------------------------------------------------------------------
\* A client as newClientCodec returns it satisfies the invariant.
LEMMA InitIInv == Init => IInv
<1> SUFFICES ASSUME Init PROVE IInv
  OBVIOUS
<1>1. TypeOK
  <2>1. DOMAIN pending \subseteq Nat /\ pending \in [DOMAIN pending -> Calls]
    BY DEF Init
  <2>2. closing \in BOOLEAN /\ shutdown \in BOOLEAN /\ rerr \in BOOLEAN /\ open \in BOOLEAN
    BY DEF Init
  <2> QED
    BY <2>1, <2>2 DEF Init, TypeOK
<1>2. LockInv /\ SeqInv /\ MapInv /\ WireInv
  BY CallsAssumption DEF Init, LockInv, SeqInv, MapInv, WireInv, Ending
<1>3. HandInv /\ DeliveryInv /\ ResultInv
  BY CallsAssumption DEF Init, HandInv, DeliveryInv, ResultInv, Ending, InMap
<1> QED
  BY <1>1, <1>2, <1>3 DEF IInv

\* Every step preserves it.
LEMMA NextIInv == IInv /\ [Next]_vars => IInv'
<1> SUFFICES ASSUME IInv, [Next]_vars
             PROVE  IInv'
  OBVIOUS
<1>1. CASE \E c \in Calls : Send(c) \/ Return(c) \/ CtxDone(c)
  BY <1>1, IssueStep, RegisterCallStep, RegisterFailsStep, WriteStep, WriteFailsStep,
     AbortStep, DeliverWriteErrorStep, ReturnStep, CtxDoneStep DEF Send
<1>2. CASE Receive
  BY <1>2, ReadHeaderStep, ReadHeaderFailsStep, ReadBodyStep, DeliverResponseStep,
     TerminateCallsStep, TerminateCallStep, TerminateReturnsStep DEF Receive
<1>3. CASE Serve
  BY <1>3, ServerRepliesStep DEF Serve
<1>4. CASE UNCHANGED vars
  BY <1>4 DEF vars, callVars, sendVars, tabVars, recvVars, connVars, IInv, TypeOK,
     LockInv, SeqInv, MapInv, WireInv, HandInv, DeliveryInv, ResultInv, Ending, InMap
<1> QED
  BY <1>1, <1>2, <1>3, <1>4, CloseStep, ConnLostStep DEF Next, Terminated

\* The invariant holds of every reachable state of a client.
THEOREM Invariance == Spec => []IInv
BY InitIInv, NextIInv, PTL DEF Spec

\* The client's variables keep their types.
THEOREM TypeCorrect == Spec => []TypeOK
BY Invariance, PTL DEF IInv

\* However many calls there are and however small the channel of the users of
\* Go is, no call is delivered twice, and none waits for a receiver that has
\* stopped.
THEOREM DeliveredOnce == Spec => []OneDelivery
<1>1. IInv => OneDelivery
  BY DEF IInv, DeliveryInv, OneDelivery
<1> QED
  BY Invariance, <1>1, PTL

\* A Reply is that of its own call, and a call without an error has one.
THEOREM RepliesMatch == Spec => []ReplyMatches
<1>1. IInv => ReplyMatches
  BY DEF IInv, DeliveryInv, ResultInv, ReplyMatches
<1> QED
  BY Invariance, <1>1, PTL

\* Nothing is written on the connection after terminateCalls set shutdown.
THEOREM SilentAfterShutdown == Spec => NothingSentAfterShutdown
<1>1. IInv /\ [Next]_vars => (shutdown => reqs' \subseteq reqs)
  <2> SUFFICES ASSUME IInv, [Next]_vars, shutdown
               PROVE  reqs' \subseteq reqs
    OBVIOUS
  <2>1. ASSUME NEW c \in Calls PROVE ~Write(c)
    BY DEF IInv, LockInv, Write
  <2>2. ASSUME NEW c \in Calls, Send(c) \/ Return(c) \/ CtxDone(c)
        PROVE  reqs' \subseteq reqs
    BY <2>1, <2>2 DEF Send, Issue, RegisterCall, RegisterFails, WriteFails, Abort,
       DeliverWriteError, Return, CtxDone, connVars
  <2>3. CASE Receive
    BY <2>3 DEF Receive, ReadHeader, ReadHeaderFails, ReadBody, DeliverResponse,
       TerminateCalls, TerminateCall, TerminateReturns, connVars
  <2>4. CASE Close \/ Serve \/ ConnLost \/ UNCHANGED vars
    BY <2>4 DEF Close, Serve, ServerReplies, ConnLost, vars, connVars
  <2> QED
    BY <2>2, <2>3, <2>4 DEF Next, Terminated
<1> QED
  BY Invariance, <1>1, PTL DEF Spec, NothingSentAfterShutdown

\* The receiver's delivery concerns the call it has in hand and no other.
LEMMA DeliversToRcall ==
  ASSUME IInv, DeliverResponse, NEW c \in Calls, c # rcall
  PROVE  reply'[c] = reply[c] /\ error'[c] = error[c] /\ dones'[c] = dones[c]
<1>1. CASE resp.err
  BY <1>1 DEF IInv, TypeOK, DeliverResponse, Deliver
<1>2. CASE ~resp.err /\ rerr
  BY <1>2 DEF IInv, TypeOK, DeliverResponse, Deliver
<1>3. CASE ~resp.err /\ ~rerr
  BY <1>3 DEF IInv, TypeOK, DeliverResponse, Deliver
<1> QED
  BY <1>1, <1>2, <1>3

\* A call whose context has ended is not written to, unless the receiver had
\* taken it before.
THEOREM CancelledLeftAlone == Spec => CancelledIsLeftAlone
<1> DEFINE Alone(c) == reply'[c] = reply[c] /\ error'[c] = error[c] /\ dones'[c] = dones[c]
<1>1. ASSUME IInv, [Next]_vars, NEW c \in Calls, pc[c] = "cancelled", rcall # c
      PROVE  Alone(c)
  <2>1. ASSUME NEW d \in Calls, RegisterFails(d) \/ DeliverWriteError(d) \/ TerminateCall(d)
        PROVE  Alone(c)
    <3>1. d # c
      BY <1>1, <2>1 DEF IInv, DeliveryInv, RegisterFails, DeliverWriteError, TerminateCall
    <3>2. CASE RegisterFails(d)
      BY <1>1, <3>1, <3>2 DEF IInv, TypeOK, RegisterFails, Deliver
    <3>3. CASE DeliverWriteError(d)
      BY <1>1, <3>1, <3>3 DEF IInv, TypeOK, DeliverWriteError, Deliver
    <3>4. CASE TerminateCall(d)
      BY <1>1, <3>1, <3>4 DEF IInv, TypeOK, TerminateCall, Deliver
    <3> QED
      BY <2>1, <3>2, <3>3, <3>4
  <2>2. CASE DeliverResponse
    BY <1>1, <2>2, DeliversToRcall
  <2>3. CASE \E f \in BOOLEAN : ReadBody(f)
    BY <1>1, <2>3 DEF IInv, TypeOK, ReadBody
  <2>4. CASE Receive
    BY <2>1, <2>2, <2>3, <2>4 DEF Receive, ReadHeader, ReadHeaderFails, TerminateCalls,
       TerminateReturns, callVars
  <2>5. ASSUME NEW d \in Calls, Send(d) \/ Return(d) \/ CtxDone(d)
        PROVE  Alone(c)
    BY <2>1, <2>5 DEF Send, Issue, RegisterCall, Write, WriteFails, Abort, Return, CtxDone
  <2>6. CASE Close \/ Serve \/ ConnLost \/ UNCHANGED vars
    BY <2>6 DEF Close, Serve, ServerReplies, ConnLost, vars, callVars
  <2> QED
    BY <1>1, <2>4, <2>5, <2>6 DEF Next, Terminated
<1>2. IInv /\ [Next]_vars =>
        \A c \in Calls : pc[c] = "cancelled" /\ rcall # c =>
          reply'[c] = reply[c] /\ error'[c] = error[c] /\ dones'[c] = dones[c]
  BY <1>1
<1> QED
  BY Invariance, <1>2, PTL DEF Spec, CancelledIsLeftAlone
-----------------------------------------------------------------------------
(* RpcClient implements CallOnce                                           *)

\* A step that shows no user anything new is a stuttering step of CallOnce.
LEMMA Quiet ==
  ASSUME answered' = answered, \A c \in Calls : Outcome(c)' = Outcome(c)
  PROVE  UNCHANGED Promise!vars
BY DEF Promise!vars

\* A step that moves one call's outcome moves that entry of status.
LEMMA OneMoves ==
  ASSUME NEW c \in Calls, NEW o,
         Outcome(c)' = o,
         \A d \in Calls \ {c} : Outcome(d)' = Outcome(d)
  PROVE  [d \in Calls |-> Outcome(d)]' = [[d \in Calls |-> Outcome(d)] EXCEPT ![c] = o]
OBVIOUS

\* Every step of the client is a step of CallOnce or shows nothing.
LEMMA StepRefines ==
  ASSUME IInv, [Next]_vars
  PROVE  [Promise!Next]_(Promise!vars)
<1>1. ASSUME NEW c \in Calls, Issue(c)
      PROVE  Promise!Issue(c)
  <2>1. Outcome(c) = "idle" /\ Outcome(c)' = "issued"
    BY <1>1 DEF IInv, TypeOK, Issue, Acquire, Goto, Outcome
  <2>2. \A d \in Calls \ {c} : Outcome(d)' = Outcome(d)
    BY <1>1 DEF IInv, TypeOK, Issue, Acquire, Goto, Outcome
  <2> QED
    BY <1>1, <2>1, <2>2, OneMoves DEF Issue, connVars, Promise!Issue
<1>2. ASSUME NEW c \in Calls, Return(c)
      PROVE  Promise!Settle(c)
  <2>1. /\ Outcome(c) = "issued"
        /\ Outcome(c)' = IF error[c] = "nil" THEN "ok" ELSE "failed"
    BY <1>2 DEF IInv, TypeOK, Return, Goto, Outcome
  <2>2. \A d \in Calls \ {c} : Outcome(d)' = Outcome(d)
    BY <1>2 DEF IInv, TypeOK, Return, Goto, Outcome
  <2>3. error[c] = "nil" => c \in answered
    BY <1>2 DEF IInv, TypeOK, DeliveryInv, ResultInv, Return
  <2> QED
    BY <1>2, <2>1, <2>2, <2>3, OneMoves DEF Return, connVars, Promise!Settle,
       Promise!Outcome
<1>3. ASSUME NEW c \in Calls, CtxDone(c)
      PROVE  Promise!Settle(c)
  <2>1. Outcome(c) = "issued" /\ Outcome(c)' = "cancelled"
    BY <1>3 DEF IInv, TypeOK, CtxDone, Goto, Outcome
  <2>2. \A d \in Calls \ {c} : Outcome(d)' = Outcome(d)
    BY <1>3 DEF IInv, TypeOK, CtxDone, Goto, Outcome
  <2> QED
    BY <1>3, <2>1, <2>2, OneMoves DEF CtxDone, connVars, Promise!Settle, Promise!Outcome
<1>4. ASSUME NEW c \in Calls, Send(c), ~Issue(c)
      PROVE  UNCHANGED Promise!vars
  <2>1. \A d \in Calls \ {c} : pc'[d] = pc[d] /\ error'[d] = error[d]
    BY <1>4 DEF IInv, TypeOK, Send, RegisterCall, RegisterFails, Write, WriteFails,
       Abort, DeliverWriteError, Deliver, Goto
  <2>2. /\ pc[c] \in {"register", "write", "abort", "fail"}
        /\ pc'[c] \in {"register", "write", "abort", "fail", "wait"}
    BY <1>4 DEF IInv, TypeOK, Send, RegisterCall, RegisterFails, Write, WriteFails,
       Abort, DeliverWriteError, Goto
  <2>3. answered' = answered
    BY <1>4 DEF Send, RegisterCall, RegisterFails, Write, WriteFails, Abort,
       DeliverWriteError, connVars
  <2> QED
    BY <2>1, <2>2, <2>3, Quiet DEF Outcome
<1>5. ASSUME Receive
      PROVE  UNCHANGED Promise!vars
  <2>1. pc' = pc /\ answered' = answered
    BY <1>5 DEF Receive, ReadHeader, ReadHeaderFails, ReadBody, DeliverResponse,
       TerminateCalls, TerminateCall, TerminateReturns, callVars, connVars
  <2>2. ASSUME NEW c \in Calls, pc[c] = "returned"
        PROVE  error'[c] = error[c]
    <3>1. c \notin flush /\ c # rcall
      BY <2>2, CallsAssumption DEF IInv, HandInv, DeliveryInv
    <3>2. CASE DeliverResponse
      BY <3>1, <3>2, DeliversToRcall
    <3>3. CASE \E d \in Calls : TerminateCall(d)
      BY <3>1, <3>3 DEF IInv, TypeOK, TerminateCall, Deliver
    <3> QED
      BY <1>5, <3>2, <3>3 DEF Receive, ReadHeader, ReadHeaderFails, ReadBody,
         TerminateCalls, TerminateReturns, callVars
  <2> QED
    BY <2>1, <2>2, Quiet DEF Outcome
<1>6. ASSUME NEW q \in reqs, NEW e \in BOOLEAN, ServerReplies(q, e)
      PROVE  Promise!Answer(q.call) \/ UNCHANGED Promise!vars
  <2>1. \A c \in Calls : Outcome(c)' = Outcome(c)
    BY <1>6 DEF ServerReplies, callVars, Outcome
  <2>2. q.call \in Calls /\ Outcome(q.call) # "idle"
    <3>1. q.call \in Calls /\ callSeq[q.call] # 0
      BY DEF IInv, TypeOK, WireInv, Request
    <3> QED
      BY <3>1 DEF IInv, SeqInv, Outcome
  <2> QED
    BY <1>6, <2>1, <2>2 DEF ServerReplies, Promise!Answer, Promise!vars
<1>7. ASSUME Close \/ ConnLost \/ UNCHANGED vars
      PROVE  UNCHANGED Promise!vars
  <2>1. answered' = answered /\ pc' = pc /\ error' = error
    BY <1>7 DEF Close, ConnLost, vars, callVars, connVars
  <2> QED
    BY <2>1, Quiet DEF Outcome
<1>8. \A q \in reqs : q.call \in Calls
  BY DEF IInv, TypeOK, Request
<1> QED
  BY <1>1, <1>2, <1>3, <1>4, <1>5, <1>6, <1>7, <1>8
  DEF Next, Serve, Terminated, Promise!Next

\* For every set of calls: each call that is issued gets one outcome, which
\* stays, and it is a success only if the server answered that call.
THEOREM Implements == Spec => OneOutcome
<1>1. Init => Promise!Init
  BY DEF Init, Outcome, Promise!Init
<1>2. IInv /\ [Next]_vars => [Promise!Next]_(Promise!vars)
  BY StepRefines
<1> QED
  BY Invariance, <1>1, <1>2, PTL DEF Spec, OneOutcome, Promise!Safety
=============================================================================
