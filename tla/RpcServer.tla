----------------------------- MODULE RpcServer ------------------------------
(***************************************************************************)
(* One connection of geerpc's server (server/server.go): ServeConn reads   *)
(* the options, serverCodec's loop reads requests, and each good request   *)
(* gets a handler (handleRequest) and a worker (the goroutine inside it,   *)
(* which calls the user's method).  Loop, handlers and workers all write   *)
(* responses to the one connection under the mutex sending; handler and    *)
(* worker meet on the unbuffered channels called and sent.                 *)
(*                                                                         *)
(* Grain.  A response is two writes, header and body, so that responses    *)
(* that mix are visible; reading a request is one step.  The timer of a    *)
(* handler may fire whenever the handler waits.                            *)
(***************************************************************************)
EXTENDS Naturals, Sequences, FiniteSets

CONSTANTS Reqs,  \* the requests the client sends on this connection
          Loop,  \* the goroutine of ServeConn
          Free,  \* the mutex sending is not held
          NoReq  \* the loop has no bad request in hand

Handler(r) == <<r, "handler">>
Worker(r)  == <<r, "worker">>
Handlers   == {Handler(r) : r \in Reqs}
Workers    == {Worker(r) : r \in Reqs}
Agents     == {Loop} \cup Handlers \cup Workers

ASSUME ServerAssumption == /\ NoReq \notin Reqs
                           /\ Loop \notin Handlers \cup Workers
                           /\ Free \notin Agents

VARIABLES
  at,       \* where each goroutine is
  sending,  \* who holds the mutex sending
  bad,      \* the request the loop is refusing
  err,      \* req.h.Error of each request
  stream,   \* what the loop's decoder will find: the options, good requests,
            \* nothing ("mute") or bytes it cannot decode
  sent,     \* the requests the client has sent
  inbox,    \* those among them that the loop has still to read
  hungUp,   \* the client has closed its side
  open,     \* the server has not closed the connection
  out       \* the headers and bodies that reached the connection, in order

vars == <<at, sending, bad, err, stream, sent, inbox, hungUp, open, out>>
wire == <<stream, sent, inbox, hungUp>>

Writing == {"lock", "header", "body"}   \* the steps of sendResponse

Errors == {"nil", "method", "timeout", "request"}
Frames == [part : {"header"}, req : Reqs, err : Errors]
            \cup [part : {"body"}, req : Reqs, reply : BOOLEAN]

TypeOK ==
  /\ at[Loop] \in {"options", "read", "wait", "closed"} \cup Writing
  /\ \A r \in Reqs : /\ at[Handler(r)] \in {"none", "select", "sent", "done"} \cup Writing
                     /\ at[Worker(r)] \in {"none", "run", "called", "sent", "done"} \cup Writing
  /\ sending \in Agents \cup {Free}
  /\ bad \in Reqs \cup {NoReq}
  /\ err \in [Reqs -> Errors]
  /\ stream \in {"options", "good", "mute", "garbled"}
  /\ sent \subseteq Reqs
  /\ inbox \subseteq sent
  /\ hungUp \in BOOLEAN
  /\ open \in BOOLEAN
  /\ out \in Seq(Frames)

Init ==
  /\ at = [a \in Agents |-> IF a = Loop THEN "options" ELSE "none"]
  /\ sending = Free
  /\ bad = NoReq
  /\ err = [r \in Reqs |-> "nil"]
  /\ stream = "options"
  /\ sent = {}
  /\ inbox = {}
  /\ hungUp = FALSE
  /\ open = TRUE
  /\ out = <<>>

Goto(a, l) == at' = [at EXCEPT ![a] = l]

\* The request an agent is answering.
Subject(a) == IF a = Loop THEN bad ELSE a[1]

\* Bytes go out while the connection is there; Flush's error is ignored.
Emit(frame) == out' = IF open THEN Append(out, frame) ELSE out
-----------------------------------------------------------------------------
(* The client, as far as the server sees it                                *)

ClientSends(r) ==
  /\ ~hungUp
  /\ r \notin sent
  /\ sent' = sent \cup {r}
  /\ inbox' = inbox \cup {r}
  \* A decoder that missed the first request misses the types it declared.
  /\ stream' = IF stream = "mute" THEN "garbled" ELSE stream
  /\ UNCHANGED <<at, sending, bad, err, hungUp, open, out>>

ClientHangsUp ==
  /\ ~hungUp
  /\ hungUp' = TRUE
  /\ UNCHANGED <<at, sending, bad, err, stream, sent, inbox, open, out>>
-----------------------------------------------------------------------------
(* ServeConn and serverCodec's loop                                        *)

\* The options are good.  json.Decoder reads the connection in blocks: requests
\* that have already arrived may stay in its buffer, wholly or in part, and
\* the codec, which reads from conn, does not see them.
AcceptOptions ==
  /\ at[Loop] = "options"
  /\ Goto(Loop, "read")
  /\ \/ stream' = "good" /\ UNCHANGED inbox
     \/ inbox # {} /\ stream' = "mute" /\ inbox' = {}
     \/ inbox # {} /\ stream' = "garbled" /\ UNCHANGED inbox
  /\ UNCHANGED <<sending, bad, err, sent, hungUp, open, out>>

\* Options that do not decode, a wrong magic number, an unknown codec.
RefuseOptions ==
  /\ at[Loop] = "options"
  /\ Goto(Loop, "closed")
  /\ open' = FALSE
  /\ UNCHANGED <<sending, bad, err, wire, out>>

\* A good request: wg.Add(1) and the two goroutines.
ReadRequest(r) ==
  /\ at[Loop] = "read"
  /\ stream = "good"
  /\ r \in inbox
  /\ inbox' = inbox \ {r}
  /\ at' = [at EXCEPT ![Handler(r)] = "select", ![Worker(r)] = "run"]
  /\ UNCHANGED <<sending, bad, err, stream, sent, hungUp, open, out>>

\* findService fails, which leaves the body of the request unread, or ReadBody
\* fails: the loop answers the error itself.
ReadBadRequest(r, unknown) ==
  /\ at[Loop] = "read"
  /\ stream = "good"
  /\ r \in inbox
  /\ inbox' = inbox \ {r}
  /\ stream' = IF unknown THEN "garbled" ELSE stream
  /\ bad' = r
  /\ err' = [err EXCEPT ![r] = "request"]
  /\ Goto(Loop, "lock")
  /\ UNCHANGED <<sending, sent, hungUp, open, out>>

\* ReadHeader fails: break.
ReadFails ==
  /\ at[Loop] = "read"
  /\ stream = "garbled" \/ hungUp \/ ~open
  /\ Goto(Loop, "wait")
  /\ UNCHANGED <<sending, bad, err, wire, open, out>>

\* (Mutant) the loop does not wait.
NoWait == TRUE

\* (Mutant) the workers count in wg, not the handlers.
WorkersDone == \A r \in Reqs : at[Worker(r)] \in {"none", "done"}

\* wg is zero: every handler that was started has called wg.Done().
HandlersDone == \A r \in Reqs : at[Handler(r)] \in {"none", "done"}

\* wg.Wait() returns.
WaitReturns ==
  /\ at[Loop] = "wait"
  /\ HandlersDone
  /\ Goto(Loop, "closed")
  /\ open' = FALSE
  /\ UNCHANGED <<sending, bad, err, wire, out>>
-----------------------------------------------------------------------------
(* sendResponse, run by the loop, a handler or a worker                    *)

\* (Mutant) no mutex.
AcquireNothing(a) == sending' = a

\* a locks the mutex sending.
Acquire(a) == sending = Free /\ sending' = a

Lock(a) ==
  /\ at[a] = "lock"
  /\ Acquire(a)
  /\ Goto(a, "header")
  /\ UNCHANGED <<bad, err, wire, open, out>>

\* The header is encoded as it is now: its Error is shared with the handler.
WriteHeader(a) ==
  /\ at[a] = "header"
  /\ Emit([part |-> "header", req |-> Subject(a), err |-> err[Subject(a)]])
  /\ Goto(a, "body")
  /\ UNCHANGED <<sending, bad, err, wire, open>>

\* (Mutant) a handler that timed out goes on to wait for the method.
AfterWaits(a) == IF a = Loop THEN "read" ELSE IF a \in Handlers THEN "called" ELSE "sent"

\* Where an agent goes on when sendResponse returns.
After(a) == IF a = Loop THEN "read" ELSE IF a \in Handlers THEN "done" ELSE "sent"

WriteBody(a) ==
  /\ at[a] = "body"
  /\ a # Loop
  /\ Emit([part |-> "body", req |-> Subject(a),
           reply |-> a \in Workers /\ err[Subject(a)] # "method"])
  /\ sending' = Free
  /\ Goto(a, After(a))
  /\ UNCHANGED <<bad, err, wire, open>>

\* The body does not encode: the header goes out alone and the codec closes
\* the connection.  The loop's body, req.argv, is a reflect.Value, which gob
\* never encodes; a worker's is whatever the method left in its reply.
WriteBodyFails(a) ==
  /\ at[a] = "body"
  /\ a = Loop \/ (a \in Workers /\ err[Subject(a)] # "method")
  /\ open' = FALSE
  /\ bad' = IF a = Loop THEN NoReq ELSE bad
  /\ sending' = Free
  /\ Goto(a, After(a))
  /\ UNCHANGED <<err, wire, out>>
-----------------------------------------------------------------------------
(* handleRequest                                                           *)

\* The user's method returns; it may never do so.
MethodReturns(r) ==
  /\ at[Worker(r)] = "run"
  /\ Goto(Worker(r), "called")
  /\ UNCHANGED <<sending, bad, err, wire, open, out>>

\* (Mutant) called is buffered: the worker does not wait for the handler.
CalledBuffered(r, fails) ==
  /\ at[Worker(r)] = "called"
  /\ at' = [at EXCEPT ![Worker(r)] = "lock",
                      ![Handler(r)] = IF @ = "select" THEN "sent" ELSE @]
  /\ err' = IF fails THEN [err EXCEPT ![r] = "method"] ELSE err
  /\ UNCHANGED <<sending, bad, wire, open, out>>

\* called <- struct{}{} meets <-called; the worker then answers with what the
\* method returned while the handler waits on sent.
Called(r, fails) ==
  /\ at[Handler(r)] = "select"
  /\ at[Worker(r)] = "called"
  /\ at' = [at EXCEPT ![Handler(r)] = "sent", ![Worker(r)] = "lock"]
  /\ err' = IF fails THEN [err EXCEPT ![r] = "method"] ELSE err
  /\ UNCHANGED <<sending, bad, wire, open, out>>

\* (Mutant) timeout = 0: the handler has no timer.
NoTimeout(r) == at[Handler(r)] = "select" /\ FALSE /\ UNCHANGED vars

\* The timer wins: the handler answers, and the worker will wait on called
\* for ever.
Timeout(r) ==
  /\ at[Handler(r)] = "select"
  /\ err' = [err EXCEPT ![r] = "timeout"]
  /\ Goto(Handler(r), "lock")
  /\ UNCHANGED <<sending, bad, wire, open, out>>

\* sent <- struct{}{} meets <-sent: both end, and wg.Done() runs.
Sent(r) ==
  /\ at[Handler(r)] = "sent"
  /\ at[Worker(r)] = "sent"
  /\ at' = [at EXCEPT ![Handler(r)] = "done", ![Worker(r)] = "done"]
  /\ UNCHANGED <<sending, bad, err, wire, open, out>>

\* The connection is over; methods that never returned may still run.
Closed == at[Loop] = "closed" /\ UNCHANGED vars
-----------------------------------------------------------------------------
Serve == \/ AcceptOptions \/ RefuseOptions
         \/ \E r \in Reqs : ReadRequest(r) \/ (\E u \in BOOLEAN : ReadBadRequest(r, u))
         \/ ReadFails \/ WaitReturns

SendResponse(a) == Lock(a) \/ WriteHeader(a) \/ WriteBody(a) \/ WriteBodyFails(a)

Handle(r) == (\E fails \in BOOLEAN : Called(r, fails)) \/ Timeout(r) \/ Sent(r)

Next == \/ Serve
        \/ \E a \in Agents : SendResponse(a)
        \/ \E r \in Reqs : Handle(r) \/ MethodReturns(r) \/ ClientSends(r)
        \/ ClientHangsUp
        \/ Closed

Spec == Init /\ [][Next]_vars

\* The server's goroutines run and its writes end (the client reads); nothing
\* is assumed of the user's methods or of what the client sends.
Fairness == /\ WF_vars(Serve)
            /\ \A a \in Agents : WF_vars(SendResponse(a))
            /\ \A r \in Reqs : WF_vars(Handle(r))

FairSpec == Spec /\ Fairness
-----------------------------------------------------------------------------
(* What a connection promises                                              *)

Headers(r) == {i \in 1..Len(out) : out[i].part = "header" /\ out[i].req = r}

Answered(r) == \E i \in Headers(r) : i < Len(out) /\ out[i + 1].part = "body"

\* Handler and worker never both answer a request, whichever of the timer and
\* the method is first (server.go:193-216): a client would take the second
\* response for that of another call or of none.
AtMostOneResponse == \A r \in Reqs : Cardinality(Headers(r)) <= 1

\* Every header but a last one is followed at once by the body of the same
\* response ("make sure to send a complete request", server.go:108): a reply
\* if the header has no error, and none if it has, although handler and worker
\* share the header (server.go:195, 212).
WellFramed ==
  \A i \in 1..Len(out) :
    IF out[i].part = "header"
      THEN i < Len(out) => /\ out[i + 1].part = "body"
                           /\ out[i + 1].req = out[i].req
                           /\ out[i].err = "nil" <=> out[i + 1].reply
      ELSE i > 1 /\ out[i - 1].part = "header" /\ out[i - 1].req = out[i].req

\* The connection is closed only when everything that was started on it has
\* been answered, unless a body that did not encode closed it before: the last
\* response is not cut off by wg.Wait and Close (server.go:121-125).
ClosedMeansAnswered ==
  at[Loop] = "closed" /\ (\A r \in Reqs : Headers(r) # {} => Answered(r)) =>
    \A r \in Reqs : at[Handler(r)] # "none" => Answered(r)

\* A request that arrives is answered or sees its connection closed, even if
\* its method never returns, unless the options' decoder swallowed it.
AnsweredOrClosed ==
  \A r \in Reqs : r \in sent ~> (Answered(r) \/ ~open \/ stream = "mute")

\* Once the client has gone the connection is closed, whatever the methods do.
HangUpClosesConn == hungUp ~> at[Loop] = "closed"

\* wg.Wait "waits for all requests to be processed" (server.go:124): no method
\* of this connection still runs when it has returned.
WaitCoversMethods ==
  at[Loop] = "closed" => \A r \in Reqs : at[Worker(r)] \in {"none", "done"}
=============================================================================
