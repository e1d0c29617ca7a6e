----------------------------- MODULE RpcClient ------------------------------
(***************************************************************************)
(* One client of geerpc (client/client.go): the goroutines that make calls *)
(* and the goroutine that receives responses, sharing the map of pending   *)
(* calls, one request header and the flags closing and shutdown.           *)
(*                                                                         *)
(* Grain.  client.mu is never held across a step except by terminateCalls, *)
(* which delivers to the calls' channels while it holds both mutexes: mu   *)
(* is taken iff rpc = "flush".  client.sending is held across the whole of *)
(* send, and is a variable.  Contents are abstracted: the argument, the    *)
(* reply and the method of a call are the call itself, so that a reply     *)
(* that reaches the wrong call is visible.                                 *)
(***************************************************************************)
EXTENDS Naturals, FiniteSets

CONSTANTS Calls,     \* the calls made on this client, each once
          Async,     \* those made by Go, all on one channel of the user's
          DoneCap,   \* capacity of that channel
          NoCall,    \* Go's nil *Call
          Free,      \* the mutex sending is not held
          Receiver   \* the goroutine that runs receive

ASSUME CallsAssumption == /\ Async \subseteq Calls
                          /\ NoCall \notin Calls
                          /\ Free \notin Calls
                          /\ Receiver \notin Calls
                          /\ Free # Receiver

ASSUME DoneCapAssumption == DoneCap \in Nat \ {0}

VARIABLES
  pc,        \* where the goroutine of each call is
  callSeq,   \* Call.Seq, 0 until it is registered
  error,     \* Call.Error
  reply,     \* the call whose result was stored in this call's Reply
  dones,     \* how many times Call.done has sent on the call's channel
  sending,   \* who holds the mutex client.sending
  header,    \* client.header, the one header all requests share (its Seq)
  seq,       \* client.seq
  pending,   \* client.pending
  closing,   \* client.closing
  shutdown,  \* client.shutdown
  rpc,       \* where receive is
  resp,      \* the response whose header receive has read
  rcall,     \* the call that response was matched with
  rerr,      \* receive's err # nil
  flush,     \* the calls terminateCalls has still to deliver to
  open,      \* the connection can still carry bytes
  reqs,      \* requests the server has not answered yet
  resps,     \* responses the client has not read yet
  answered   \* the calls the server answered with a result (history)

callVars == <<pc, callSeq, error, reply, dones>>
sendVars == <<sending, header>>
tabVars  == <<seq, pending, closing, shutdown>>
recvVars == <<rpc, resp, rcall, rerr, flush>>
connVars == <<open, reqs, resps, answered>>
vars == <<callVars, sendVars, tabVars, recvVars, connVars>>

Request  == [seq : Nat, call : Calls]
Response == [seq : Nat, call : Calls, err : BOOLEAN]
NoResponse == [seq |-> 0, call |-> NoCall, err |-> FALSE]

TypeOK ==
  /\ pc \in [Calls -> {"idle", "register", "write", "abort", "fail",
                       "wait", "returned", "cancelled"}]
  /\ callSeq \in [Calls -> Nat]
  /\ error \in [Calls -> {"nil", "shutdown", "write", "server", "body", "conn"}]
  /\ reply \in [Calls -> Calls \cup {NoCall}]
  /\ dones \in [Calls -> Nat]
  /\ sending \in Calls \cup {Free, Receiver}
  /\ header \in Nat
  /\ seq \in Nat \ {0}
  /\ DOMAIN pending \subseteq Nat
  /\ pending \in [DOMAIN pending -> Calls]
  /\ closing \in BOOLEAN
  /\ shutdown \in BOOLEAN
  /\ rpc \in {"header", "body", "deliver", "terminate", "flush", "stopped"}
  /\ resp \in Response \cup {NoResponse}
  /\ rcall \in Calls \cup {NoCall}
  /\ rerr \in BOOLEAN
  /\ flush \subseteq Calls
  /\ open \in BOOLEAN
  /\ reqs \subseteq Request
  /\ resps \subseteq Response
  /\ answered \subseteq Calls

-----------------------------------------------------------------------------
\* A client as newClientCodec returns it: the first request has number 1 and
\* the receiving goroutine is already waiting for a header.
Init ==
  /\ pc = [c \in Calls |-> "idle"]
  /\ callSeq = [c \in Calls |-> 0]
  /\ error = [c \in Calls |-> "nil"]
  /\ reply = [c \in Calls |-> NoCall]
  /\ dones = [c \in Calls |-> 0]
  /\ sending = Free
  /\ header = 0
  /\ seq = 1
  /\ pending = [s \in {} |-> NoCall]
  /\ closing = FALSE
  /\ shutdown = FALSE
  /\ rpc = "header"
  /\ resp = NoResponse
  /\ rcall = NoCall
  /\ rerr = FALSE
  /\ flush = {}
  /\ open = TRUE
  /\ reqs = {}
  /\ resps = {}
  /\ answered = {}

\* (Mutant) the flags are not looked at.
AlwaysAvailable == TRUE

\* What XClient.dial asks before it reuses a client.
IsAvailable == ~shutdown /\ ~closing

MuFree == rpc # "flush"

\* client.pending[s], which is nil when s is not a key of the map.
Lookup(s) == IF s \in DOMAIN pending THEN pending[s] ELSE NoCall

\* (Mutant) pending[s] = nil where the code has delete(pending, s).
WithoutNil(s) == [k \in DOMAIN pending |-> IF k = s THEN NoCall ELSE pending[k]]

\* (Mutant) removeCall without its delete.
WithoutNone(s) == pending

Without(s) == [k \in DOMAIN pending \ {s} |-> pending[k]]

\* The calls that sit in the channel c is delivered on, sent and not received.
Queue(c) == {d \in IF c \in Async THEN Async ELSE {c} :
                dones[d] > 0 /\ pc[d] # "returned"}

\* Whether call.done() can send without blocking: a call made by Call has a
\* channel of capacity 1 of its own, those made by Go share the user's.
Room(c) == Cardinality(Queue(c)) < IF c \in Async THEN DoneCap ELSE 1

\* (Mutant) done() without the error.
DeliverSilently(c, e) ==
  Room(c) /\ dones' = [dones EXCEPT ![c] = @ + 1] /\ UNCHANGED error

\* call.Error = e, unless e is "" (the code leaves the field alone), then done().
Deliver(c, e) ==
  /\ Room(c)
  /\ dones' = [dones EXCEPT ![c] = @ + 1]
  /\ error' = IF e = "" THEN error ELSE [error EXCEPT ![c] = e]

\* (Mutant) no mutex.
AcquireNothing(a) == sending' = a

\* a locks the mutex client.sending.
Acquire(a) == sending = Free /\ sending' = a

Goto(c, l) == pc' = [pc EXCEPT ![c] = l]
-----------------------------------------------------------------------------
(* Go and Call: send                                                       *)

\* send up to sending.Lock(): the call leaves its caller's hands.
Issue(c) ==
  /\ pc[c] = "idle"
  /\ Acquire(c)
  /\ Goto(c, "register")
  /\ UNCHANGED <<callSeq, error, reply, dones, header, tabVars, recvVars, connVars>>

\* registerCall, and send's copy of the number into the shared header.
RegisterCall(c) ==
  /\ pc[c] = "register"
  /\ IsAvailable
  /\ callSeq' = [callSeq EXCEPT ![c] = seq]
  /\ pending' = [s \in DOMAIN pending \cup {seq} |->
                    IF s = seq THEN c ELSE pending[s]]
  /\ seq' = seq + 1
  /\ header' = seq
  /\ Goto(c, "write")
  /\ UNCHANGED <<error, reply, dones, sending, closing, shutdown, recvVars, connVars>>

\* registerCall returns ErrShutdown, and send delivers it.
RegisterFails(c) ==
  /\ pc[c] = "register"
  /\ ~IsAvailable
  /\ Deliver(c, "shutdown")
  /\ sending' = Free
  /\ Goto(c, "wait")
  /\ UNCHANGED <<callSeq, reply, header, tabVars, recvVars, connVars>>

\* cc.Write returns nil.  The codec ignores the error of Flush, so on a dead
\* connection the request is lost and the call waits for an answer all the same.
Write(c) ==
  /\ pc[c] = "write"
  /\ reqs' = IF open THEN reqs \cup {[seq |-> header, call |-> c]} ELSE reqs
  /\ sending' = Free
  /\ Goto(c, "wait")
  /\ UNCHANGED <<callSeq, error, reply, dones, header, tabVars, recvVars,
                 open, resps, answered>>

\* cc.Write fails to encode, or meets the error an earlier Flush left in the
\* buffer.  The codec then closes the connection.
WriteFails(c) ==
  /\ pc[c] = "write"
  /\ open' = FALSE
  /\ Goto(c, "abort")
  /\ UNCHANGED <<callSeq, error, reply, dones, sendVars, tabVars, recvVars,
                 reqs, resps, answered>>

\* send's removeCall after a failed Write.
Abort(c) ==
  /\ pc[c] = "abort"
  /\ MuFree
  /\ pending' = Without(callSeq[c])
  /\ IF Lookup(callSeq[c]) = NoCall
       THEN Goto(c, "wait") /\ sending' = Free
       ELSE Goto(c, "fail") /\ UNCHANGED sending
  /\ UNCHANGED <<callSeq, error, reply, dones, header, seq, closing, shutdown,
                 recvVars, connVars>>

DeliverWriteError(c) ==
  /\ pc[c] = "fail"
  /\ Deliver(c, "write")
  /\ sending' = Free
  /\ Goto(c, "wait")
  /\ UNCHANGED <<callSeq, reply, header, tabVars, recvVars, connVars>>

\* Call's select receives the call; for Go, the user receives it.
Return(c) ==
  /\ pc[c] = "wait"
  /\ dones[c] > 0
  /\ Goto(c, "returned")
  /\ UNCHANGED <<callSeq, error, reply, dones, sendVars, tabVars, recvVars, connVars>>

\* Call's context ends first: the call is taken out of the map.
CtxDone(c) ==
  /\ c \notin Async
  /\ pc[c] = "wait"
  /\ MuFree
  /\ pending' = Without(callSeq[c])
  /\ Goto(c, "cancelled")
  /\ UNCHANGED <<callSeq, error, reply, dones, sendVars, seq, closing, shutdown,
                 recvVars, connVars>>

\* A second Close returns ErrShutdown and changes nothing.
Close ==
  /\ MuFree
  /\ ~closing
  /\ closing' = TRUE
  /\ open' = FALSE
  /\ UNCHANGED <<callVars, sendVars, seq, pending, shutdown, recvVars,
                 reqs, resps, answered>>
-----------------------------------------------------------------------------
(* receive and terminateCalls                                              *)

\* ReadHeader and the removeCall that follows it.
ReadHeader(r) ==
  /\ rpc = "header"
  /\ resps' = resps \ {r}
  /\ resp' = r
  /\ rcall' = Lookup(r.seq)
  /\ pending' = Without(r.seq)
  /\ rpc' = "body"
  /\ UNCHANGED <<callVars, sendVars, seq, closing, shutdown, rerr, flush,
                 open, reqs, answered>>

\* (Mutant) receive returns without terminateCalls when the user closed.
ReadHeaderFailsQuietly ==
  /\ rpc = "header"
  /\ ~open
  /\ rerr' = TRUE
  /\ rpc' = IF closing THEN "stopped" ELSE "terminate"
  /\ UNCHANGED <<callVars, sendVars, tabVars, resp, rcall, flush, connVars>>

\* ReadHeader fails; whatever had arrived may be lost with the connection.
ReadHeaderFails ==
  /\ rpc = "header"
  /\ ~open
  /\ rerr' = TRUE
  /\ rpc' = "terminate"
  /\ UNCHANGED <<callVars, sendVars, tabVars, resp, rcall, flush, connVars>>

\* The three cases of the switch, up to call.done().  A body may fail to
\* decode whether or not the connection is still there.
ReadBody(fails) ==
  /\ rpc = "body"
  /\ rerr' = fails
  /\ rpc' = IF rcall # NoCall THEN "deliver"
            ELSE IF fails THEN "terminate" ELSE "header"
  /\ IF rcall # NoCall /\ ~resp.err /\ ~fails
       THEN reply' = [reply EXCEPT ![rcall] = resp.call]
       ELSE UNCHANGED reply
  /\ resp' = IF rcall = NoCall THEN NoResponse ELSE resp
  /\ UNCHANGED <<pc, callSeq, error, dones, sendVars, tabVars, rcall, flush, connVars>>

\* call.done() of the two cases that have a call, then back to the loop's test.
DeliverResponse ==
  /\ rpc = "deliver"
  /\ Deliver(rcall, IF resp.err THEN "server" ELSE IF rerr THEN "body" ELSE "")
  /\ rpc' = IF rerr THEN "terminate" ELSE "header"
  /\ rcall' = NoCall
  /\ resp' = NoResponse
  /\ UNCHANGED <<pc, callSeq, reply, sendVars, tabVars, rerr, flush, connVars>>

\* terminateCalls takes both mutexes, sets shutdown and starts to walk the map.
TerminateCalls ==
  /\ rpc = "terminate"
  /\ Acquire(Receiver)
  /\ shutdown' = TRUE
  /\ flush' = {pending[s] : s \in DOMAIN pending}
  /\ rpc' = "flush"
  /\ UNCHANGED <<callVars, header, seq, pending, closing, resp, rcall, rerr, connVars>>

\* One iteration of its loop; the map is left as it is.
TerminateCall(c) ==
  /\ rpc = "flush"
  /\ c \in flush
  /\ Deliver(c, "conn")
  /\ flush' = flush \ {c}
  /\ UNCHANGED <<pc, callSeq, reply, sendVars, tabVars, rpc, resp, rcall, rerr, connVars>>

TerminateReturns ==
  /\ rpc = "flush"
  /\ flush = {}
  /\ sending' = Free
  /\ rpc' = "stopped"
  /\ UNCHANGED <<callVars, header, tabVars, resp, rcall, rerr, flush, connVars>>
-----------------------------------------------------------------------------
(* The other end of the connection, which is not part of the client        *)

\* The server answers the requests in any order, with a result or an error.
ServerReplies(q, e) ==
  /\ open
  /\ reqs' = reqs \ {q}
  /\ resps' = resps \cup {[seq |-> q.seq, call |-> q.call, err |-> e]}
  /\ answered' = IF e THEN answered ELSE answered \cup {q.call}
  /\ UNCHANGED <<callVars, sendVars, tabVars, recvVars, open>>

ConnLost ==
  /\ open
  /\ open' = FALSE
  /\ UNCHANGED <<callVars, sendVars, tabVars, recvVars, reqs, resps, answered>>

Done(c) == pc[c] \in {"returned", "cancelled"}

\* Every call is over and the receiver has nothing left to read or to do.
Terminated == /\ \A c \in Calls : Done(c)
              /\ rpc = "header" \/ rpc = "stopped"
              /\ UNCHANGED vars
-----------------------------------------------------------------------------
Send(c) == \/ Issue(c) \/ RegisterCall(c) \/ RegisterFails(c)
           \/ Write(c) \/ WriteFails(c) \/ Abort(c) \/ DeliverWriteError(c)

Receive == \/ \E r \in resps : ReadHeader(r)
           \/ ReadHeaderFails
           \/ \E fails \in BOOLEAN : ReadBody(fails)
           \/ DeliverResponse
           \/ TerminateCalls
           \/ \E c \in Calls : TerminateCall(c)
           \/ TerminateReturns

Serve == \E q \in reqs, e \in BOOLEAN : ServerReplies(q, e)

Next == \/ \E c \in Calls : Send(c) \/ Return(c) \/ CtxDone(c)
        \/ Close
        \/ Receive
        \/ Serve
        \/ ConnLost
        \/ Terminated

Spec == Init /\ [][Next]_vars

\* The goroutines of the client run, and the users of Go empty their channel.
ClientFairness == /\ \A c \in Calls : WF_vars(Send(c)) /\ WF_vars(Return(c))
                  /\ WF_vars(Receive)

\* A server that answers, or a connection that breaks.
ServerFairness == WF_vars(Serve)

FairSpec == Spec /\ ClientFairness
-----------------------------------------------------------------------------
(* What the client promises                                                *)

\* A Reply holds the result of the call it belongs to and a call that returns
\* without an error has its result: the shared header and the reuse of the
\* map never hand a result to another call (client.go:120-124, 142-155).
ReplyMatches ==
  \A c \in Calls : /\ reply[c] \in {NoCall, c}
                   /\ pc[c] = "returned" /\ error[c] = "nil" => reply[c] = c

\* No call is delivered twice, although three places deliver (send, receive,
\* terminateCalls) and terminateCalls leaves in the map what it delivered: a
\* second delivery would block or wake a stranger.  And when the receiver has
\* stopped, so that nobody delivers any more, a call that still waits has its
\* delivery in the channel: one registered between the receiver's last read
\* and shutdown = TRUE would wait for ever (client.go:73, 97-105).
OneDelivery ==
  \A c \in Calls : /\ dones[c] <= 1
                   /\ rpc = "stopped" /\ pc[c] = "wait" => dones[c] = 1

\* When a context has ended a call, its Reply and Error are the caller's
\* again: only a receiver that had already taken the call out of the map
\* may still write to them (client.go:250 against 142-155).
CancelledIsLeftAlone ==
  [][\A c \in Calls : pc[c] = "cancelled" /\ rcall # c =>
        reply'[c] = reply[c] /\ error'[c] = error[c] /\ dones'[c] = dones[c]]_vars

\* A client that terminateCalls has shut down, or that the user has closed,
\* sends nothing new: requests appear on the wire only for calls that were
\* registered before (client.go:73-75).
NothingSentAfterShutdown ==
  [][shutdown => reqs' \subseteq reqs]_vars

Outcome(c) == CASE pc[c] = "idle" -> "idle"
                [] pc[c] = "returned" -> IF error[c] = "nil" THEN "ok" ELSE "failed"
                [] pc[c] = "cancelled" -> "cancelled"
                [] OTHER -> "issued"

\* The client implements the promise of CallOnce.
Promise == INSTANCE CallOnce WITH status <- [c \in Calls |-> Outcome(c)]
OneOutcome == Promise!Safety

\* As long as the server goes on answering, every call gets its outcome,
\* whatever becomes of the connection and of other calls: a request that a
\* dead connection swallowed is settled by the loss (client.go:124, 158).
EveryCallSettles == ServerFairness => Promise!Fairness

\* Once the connection is gone, closed by the user or lost, every call that
\* was issued returns without the server's help (client.go:93-106, 158).
LossReleasesCalls ==
  \A c \in Calls : (~open /\ pc[c] # "idle") ~> Done(c)
=============================================================================
