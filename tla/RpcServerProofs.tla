-------------------------- MODULE RpcServerProofs ---------------------------
(***************************************************************************)
(* One connection of the server for any set of requests.  The invariant    *)
(* says who may still answer a request, and what the end of the stream     *)
(* looks like while somebody holds sending.                                *)
(***************************************************************************)
EXTENDS RpcServer, FiniteSetTheorems, TLAPS

Steps == {"options", "read", "wait", "closed", "none", "select", "sent", "done",
          "run", "called"} \cup Writing

TypeInv == TypeOK /\ at \in [Agents -> Steps]

\* Who holds sending is in the middle of a response, and nobody else is.
LockInv == \A a \in Agents : at[a] \in {"header", "body"} <=> sending = a

\* Handler and worker of a request: one of them answers.
PairInv ==
  \A r \in Reqs :
    /\ at[Handler(r)] = "none" <=> at[Worker(r)] = "none"
    /\ at[Worker(r)] \in Writing \cup {"sent"} <=> at[Handler(r)] = "sent"
    /\ at[Worker(r)] = "done" => at[Handler(r)] = "done"

\* The loop has not seen the request.
Fresh(r) == r \notin sent \/ r \in inbox

FreshInv ==
  \A r \in Reqs : Fresh(r) => at[Handler(r)] = "none" /\ bad # r /\ err[r] = "nil"

\* What the loop refuses it has given to nobody.
BadInv ==
  /\ bad # NoReq <=> at[Loop] \in Writing
  /\ \A r \in Reqs : bad = r => at[Handler(r)] = "none"

\* The error in the header is that of the one who answers.
ErrInv ==
  \A r \in Reqs :
    /\ at[Handler(r)] = "select" => err[r] = "nil"
    /\ at[Handler(r)] \in Writing => err[r] = "timeout"
    /\ at[Handler(r)] = "sent" => err[r] \in {"nil", "method"}

\* Nobody has answered the request yet.
Unwritten(r) == \/ Fresh(r)
                \/ at[Handler(r)] \in {"select", "lock", "header"}
                \/ at[Worker(r)] \in {"lock", "header"}
                \/ bad = r /\ at[Loop] \in {"lock", "header"}

IsHeader(i, r) == out[i].part = "header" /\ out[i].req = r

HeaderInv ==
  \A r \in Reqs :
    /\ \A i, j \in 1..Len(out) : IsHeader(i, r) /\ IsHeader(j, r) => i = j
    /\ Unwritten(r) => \A i \in 1..Len(out) : ~IsHeader(i, r)

\* What went out last, while the connection is there: the header of the one
\* who is to write a body, or no header.
TailInv ==
  open =>
    IF sending # Free /\ at[sending] = "body"
      THEN /\ out # <<>>
           /\ out[Len(out)] = [part |-> "header", req |-> Subject(sending),
                               err |-> err[Subject(sending)]]
      ELSE out # <<>> => out[Len(out)].part = "body"

\* The stream ends in a header whose body did not encode.
CutOff == ~open /\ out # <<>> /\ out[Len(out)].part = "header"

CloseInv ==
  /\ at[Loop] = "closed" => \A r \in Reqs : at[Handler(r)] \in {"none", "done"}
  /\ at[Loop] = "options" => \A r \in Reqs : at[Handler(r)] = "none"
  /\ ~open => at[Loop] = "closed" \/ CutOff

Answers(r) == \E i \in 1..(Len(out) - 1) : IsHeader(i, r) /\ out[i + 1].part = "body"

\* Who is through has answered, unless the stream was cut off.
DoneInv ==
  \A r \in Reqs : at[Handler(r)] = "done" \/ at[Worker(r)] = "sent" => Answers(r) \/ CutOff

IInv == /\ TypeInv /\ LockInv /\ PairInv /\ FreshInv /\ BadInv /\ ErrInv
        /\ HeaderInv /\ TailInv /\ CloseInv /\ DoneInv /\ WellFramed
-----------------------------------------------------------------------------
\* Loop, handlers and workers are all different.
LEMMA AgentFacts ==
  /\ Loop \in Agents /\ Loop \notin Handlers /\ Loop \notin Workers /\ Free \notin Agents
  /\ \A r \in Reqs :
       /\ Handler(r) \in Agents /\ Handler(r) # Loop /\ Handler(r) # Free
       /\ Worker(r) \in Agents /\ Worker(r) # Loop /\ Worker(r) # Free
       /\ Handler(r) \in Handlers /\ Handler(r) \notin Workers
       /\ Worker(r) \in Workers /\ Worker(r) \notin Handlers
       /\ Handler(r)[1] = r /\ Worker(r)[1] = r
  /\ \A r, q \in Reqs : /\ Handler(r) # Worker(q)
                        /\ Handler(r) = Handler(q) => r = q
                        /\ Worker(r) = Worker(q) => r = q
  /\ \A a \in Agents : \/ a = Loop
                       \/ \E r \in Reqs : a = Handler(r)
                       \/ \E r \in Reqs : a = Worker(r)
BY ServerAssumption DEF Agents, Handlers, Workers, Handler, Worker

LEMMA ClientSendsStep ==
  ASSUME IInv, NEW r \in Reqs, ClientSends(r)
  PROVE  IInv'
<1> USE AgentFacts
<1>1. TypeInv'
  BY DEF IInv, TypeInv, TypeOK, Steps, Errors, ClientSends, Goto, wire, Acquire, Writing
<1>2. LockInv' /\ PairInv'
  BY DEF IInv, TypeInv, LockInv, PairInv, ClientSends, Goto, wire, Acquire, Writing
<1>3. FreshInv' /\ BadInv'
  BY DEF IInv, TypeInv, TypeOK, FreshInv, BadInv, PairInv, Fresh, ClientSends, Goto, wire,
         Acquire, Writing
<1>4. ErrInv'
  BY DEF IInv, TypeInv, TypeOK, ErrInv, FreshInv, PairInv, Fresh, ClientSends, Goto, wire,
         Acquire, Writing
<1>5. HeaderInv'
  BY DEF IInv, TypeInv, TypeOK, HeaderInv, PairInv, FreshInv, BadInv, Unwritten, Fresh, IsHeader,
         ClientSends, Goto, wire, Acquire, Writing
<1>6. TailInv'
  BY DEF IInv, TypeInv, TypeOK, TailInv, LockInv, PairInv, FreshInv, BadInv, Subject,
         ClientSends, Goto, wire, Acquire, Writing
<1>7. CloseInv'
  BY DEF IInv, TypeInv, TypeOK, CloseInv, CutOff, ClientSends, Goto, wire, Acquire, Writing
<1>8. DoneInv'
  BY DEF IInv, TypeInv, DoneInv, PairInv, Answers, IsHeader, CutOff, ClientSends, Goto, wire,
         Acquire, Writing
<1>9. WellFramed'
  BY DEF IInv, WellFramed, ClientSends, Goto, wire, Acquire, Writing
<1> QED
  BY <1>1, <1>2, <1>3, <1>4, <1>5, <1>6, <1>7, <1>8, <1>9 DEF IInv

LEMMA ClientHangsUpStep ==
  ASSUME IInv, ClientHangsUp
  PROVE  IInv'
<1> USE AgentFacts
<1>1. TypeInv'
  BY DEF IInv, TypeInv, TypeOK, Steps, Errors, ClientHangsUp, Goto, wire, Acquire, Writing
<1>2. LockInv' /\ PairInv'
  BY DEF IInv, TypeInv, LockInv, PairInv, ClientHangsUp, Goto, wire, Acquire, Writing
<1>3. FreshInv' /\ BadInv'
  BY DEF IInv, TypeInv, TypeOK, FreshInv, BadInv, PairInv, Fresh, ClientHangsUp, Goto, wire,
         Acquire, Writing
<1>4. ErrInv'
  BY DEF IInv, TypeInv, TypeOK, ErrInv, FreshInv, PairInv, Fresh, ClientHangsUp, Goto, wire,
         Acquire, Writing
<1>5. HeaderInv'
  BY DEF IInv, TypeInv, TypeOK, HeaderInv, PairInv, FreshInv, BadInv, Unwritten, Fresh, IsHeader,
         ClientHangsUp, Goto, wire, Acquire, Writing
<1>6. TailInv'
  BY DEF IInv, TypeInv, TypeOK, TailInv, LockInv, PairInv, FreshInv, BadInv, Subject,
         ClientHangsUp, Goto, wire, Acquire, Writing
<1>7. CloseInv'
  BY DEF IInv, TypeInv, TypeOK, CloseInv, CutOff, ClientHangsUp, Goto, wire, Acquire, Writing
<1>8. DoneInv'
  BY DEF IInv, TypeInv, DoneInv, PairInv, Answers, IsHeader, CutOff, ClientHangsUp, Goto, wire,
         Acquire, Writing
<1>9. WellFramed'
  BY DEF IInv, WellFramed, ClientHangsUp, Goto, wire, Acquire, Writing
<1> QED
  BY <1>1, <1>2, <1>3, <1>4, <1>5, <1>6, <1>7, <1>8, <1>9 DEF IInv

LEMMA AcceptOptionsStep ==
  ASSUME IInv, AcceptOptions
  PROVE  IInv'
<1> USE AgentFacts
<1>1. TypeInv'
  BY DEF IInv, TypeInv, TypeOK, Steps, Errors, AcceptOptions, Goto, wire, Acquire, Writing
<1>2. LockInv' /\ PairInv'
  BY DEF IInv, TypeInv, LockInv, PairInv, AcceptOptions, Goto, wire, Acquire, Writing
<1>3. FreshInv' /\ BadInv'
  BY DEF IInv, TypeInv, TypeOK, FreshInv, BadInv, PairInv, Fresh, AcceptOptions, Goto, wire,
         Acquire, Writing
<1>4. ErrInv'
  BY DEF IInv, TypeInv, TypeOK, ErrInv, FreshInv, PairInv, Fresh, AcceptOptions, Goto, wire,
         Acquire, Writing
<1>5. HeaderInv'
  BY DEF IInv, TypeInv, TypeOK, HeaderInv, PairInv, FreshInv, BadInv, Unwritten, Fresh, IsHeader,
         AcceptOptions, Goto, wire, Acquire, Writing
<1>6. TailInv'
  BY DEF IInv, TypeInv, TypeOK, TailInv, LockInv, PairInv, FreshInv, BadInv, Subject,
         AcceptOptions, Goto, wire, Acquire, Writing
<1>7. CloseInv'
  BY DEF IInv, TypeInv, TypeOK, CloseInv, CutOff, AcceptOptions, Goto, wire, Acquire, Writing
<1>8. DoneInv'
  BY DEF IInv, TypeInv, DoneInv, PairInv, Answers, IsHeader, CutOff, AcceptOptions, Goto, wire,
         Acquire, Writing
<1>9. WellFramed'
  BY DEF IInv, WellFramed, AcceptOptions, Goto, wire, Acquire, Writing
<1> QED
  BY <1>1, <1>2, <1>3, <1>4, <1>5, <1>6, <1>7, <1>8, <1>9 DEF IInv

LEMMA RefuseOptionsStep ==
  ASSUME IInv, RefuseOptions
  PROVE  IInv'
<1> USE AgentFacts
<1>1. TypeInv'
  <2>1. at' = [at EXCEPT ![Loop] = "closed"] /\ open' = FALSE
        /\ UNCHANGED <<sending, bad, err, stream, sent, inbox, hungUp, out>>
    BY DEF RefuseOptions, Goto, wire
  <2>2. /\ at' \in [Agents -> Steps] /\ at'[Loop] = "closed"
        /\ \A r \in Reqs : at'[Handler(r)] = at[Handler(r)] /\ at'[Worker(r)] = at[Worker(r)]
    BY <2>1 DEF IInv, TypeInv, Steps
  <2> QED
    BY <2>1, <2>2 DEF IInv, TypeInv, TypeOK
<1>2. LockInv' /\ PairInv'
  BY DEF IInv, TypeInv, LockInv, PairInv, RefuseOptions, Goto, wire, Acquire, Writing
<1>3. FreshInv' /\ BadInv'
  BY DEF IInv, TypeInv, TypeOK, FreshInv, BadInv, PairInv, Fresh, RefuseOptions, Goto, wire,
         Acquire, Writing
<1>4. ErrInv'
  BY DEF IInv, TypeInv, TypeOK, ErrInv, FreshInv, PairInv, Fresh, RefuseOptions, Goto, wire,
         Acquire, Writing
<1>5. HeaderInv'
  BY DEF IInv, TypeInv, TypeOK, HeaderInv, PairInv, FreshInv, BadInv, Unwritten, Fresh, IsHeader,
         RefuseOptions, Goto, wire, Acquire, Writing
<1>6. TailInv'
  BY DEF IInv, TypeInv, TypeOK, TailInv, LockInv, PairInv, FreshInv, BadInv, Subject,
         RefuseOptions, Goto, wire, Acquire, Writing
<1>7. CloseInv'
  BY DEF IInv, TypeInv, TypeOK, CloseInv, CutOff, RefuseOptions, Goto, wire, Acquire, Writing
<1>8. DoneInv'
  BY DEF IInv, TypeInv, DoneInv, PairInv, Answers, IsHeader, CutOff, RefuseOptions, Goto, wire,
         Acquire, Writing
<1>9. WellFramed'
  BY DEF IInv, WellFramed, RefuseOptions, Goto, wire, Acquire, Writing
<1> QED
  BY <1>1, <1>2, <1>3, <1>4, <1>5, <1>6, <1>7, <1>8, <1>9 DEF IInv

LEMMA ReadRequestStep ==
  ASSUME IInv, NEW r \in Reqs, ReadRequest(r)
  PROVE  IInv'
<1> USE AgentFacts
<1>1. TypeInv'
  BY DEF IInv, TypeInv, TypeOK, Steps, Errors, ReadRequest, Goto, wire, Acquire, Writing
<1>11. /\ r \in inbox /\ at[Handler(r)] = "none" /\ at[Worker(r)] = "none"
       /\ at' = [at EXCEPT ![Handler(r)] = "select", ![Worker(r)] = "run"]
       /\ UNCHANGED <<sending, bad, err, sent, open, out>>
  BY DEF IInv, FreshInv, Fresh, PairInv, ReadRequest
<1>12. at'[Handler(r)] = "select" /\ at'[Worker(r)] = "run"
  BY <1>11 DEF IInv, TypeInv
<1>13. \A a \in Agents : a # Handler(r) /\ a # Worker(r) => at'[a] = at[a]
  BY <1>11 DEF IInv, TypeInv
<1>14. sending # Handler(r) /\ sending # Worker(r)
  BY <1>11 DEF IInv, LockInv
<1>2. LockInv' /\ PairInv'
  <2>1. LockInv'
    BY <1>11, <1>12, <1>13, <1>14 DEF IInv, LockInv
  <2>2. PairInv'
    <3> SUFFICES ASSUME NEW q \in Reqs
                 PROVE  /\ at'[Handler(q)] = "none" <=> at'[Worker(q)] = "none"
                        /\ at'[Worker(q)] \in Writing \cup {"sent"} <=> at'[Handler(q)] = "sent"
                        /\ at'[Worker(q)] = "done" => at'[Handler(q)] = "done"
      BY DEF PairInv
    <3>1. CASE q = r
      BY <3>1, <1>12 DEF Writing
    <3>2. CASE q # r
      BY <3>2, <1>13 DEF IInv, PairInv
    <3> QED
      BY <3>1, <3>2
  <2> QED
    BY <2>1, <2>2
<1>3. FreshInv' /\ BadInv'
  BY DEF IInv, TypeInv, TypeOK, FreshInv, BadInv, PairInv, Fresh, ReadRequest, Goto, wire,
         Acquire, Writing
<1>4. ErrInv'
  BY DEF IInv, TypeInv, TypeOK, ErrInv, FreshInv, PairInv, Fresh, ReadRequest, Goto, wire,
         Acquire, Writing
<1>5. HeaderInv'
  BY DEF IInv, TypeInv, TypeOK, HeaderInv, PairInv, FreshInv, BadInv, Unwritten, Fresh, IsHeader,
         ReadRequest, Goto, wire, Acquire, Writing
<1>6. TailInv'
  BY <1>11, <1>13, <1>14 DEF IInv, TypeInv, TypeOK, TailInv, Subject
<1>7. CloseInv'
  BY DEF IInv, TypeInv, TypeOK, CloseInv, CutOff, ReadRequest, Goto, wire, Acquire, Writing
<1>8. DoneInv'
  BY DEF IInv, TypeInv, DoneInv, PairInv, Answers, IsHeader, CutOff, ReadRequest, Goto, wire,
         Acquire, Writing
<1>9. WellFramed'
  BY DEF IInv, WellFramed, ReadRequest, Goto, wire, Acquire, Writing
<1> QED
  BY <1>1, <1>2, <1>3, <1>4, <1>5, <1>6, <1>7, <1>8, <1>9 DEF IInv

LEMMA ReadBadRequestStep ==
  ASSUME IInv, NEW r \in Reqs, NEW u \in BOOLEAN, ReadBadRequest(r, u)
  PROVE  IInv'
<1> USE AgentFacts
<1>1. TypeInv'
  BY DEF IInv, TypeInv, TypeOK, Steps, Errors, ReadBadRequest, Goto, wire, Acquire, Writing
<1>2. LockInv' /\ PairInv'
  BY DEF IInv, TypeInv, LockInv, PairInv, ReadBadRequest, Goto, wire, Acquire, Writing
<1>3. FreshInv' /\ BadInv'
  BY DEF IInv, TypeInv, TypeOK, FreshInv, BadInv, PairInv, Fresh, ReadBadRequest, Goto, wire,
         Acquire, Writing
<1>4. ErrInv'
  BY DEF IInv, TypeInv, TypeOK, ErrInv, FreshInv, PairInv, Fresh, ReadBadRequest, Goto, wire,
         Acquire, Writing
<1>5. HeaderInv'
  BY DEF IInv, TypeInv, TypeOK, HeaderInv, PairInv, FreshInv, BadInv, Unwritten, Fresh, IsHeader,
         ReadBadRequest, Goto, wire, Acquire, Writing
<1>6. TailInv'
  <2>1. /\ at[Loop] = "read" /\ r \in inbox
        /\ at' = [at EXCEPT ![Loop] = "lock"]
        /\ err' = [err EXCEPT ![r] = "request"]
        /\ UNCHANGED <<sending, open, out>>
    BY DEF ReadBadRequest, Goto
  <2>2. sending # Loop /\ at[Handler(r)] = "none" /\ at[Worker(r)] = "none"
    BY <2>1 DEF IInv, LockInv, FreshInv, Fresh, PairInv
  <2>3. sending # Free => sending \in Agents /\ at'[sending] = at[sending]
    BY <2>1, <2>2 DEF IInv, TypeInv, TypeOK
  <2>4. sending # Free /\ at[sending] = "body" =>
          Subject(sending)' = Subject(sending) /\ err'[Subject(sending)] = err[Subject(sending)]
    BY <2>1, <2>2, <2>3 DEF IInv, TypeInv, TypeOK, Subject
  <2> QED
    BY <2>1, <2>3, <2>4 DEF IInv, TailInv
<1>7. CloseInv'
  BY DEF IInv, TypeInv, TypeOK, CloseInv, CutOff, ReadBadRequest, Goto, wire, Acquire, Writing
<1>8. DoneInv'
  BY DEF IInv, TypeInv, DoneInv, PairInv, Answers, IsHeader, CutOff, ReadBadRequest, Goto, wire,
         Acquire, Writing
<1>9. WellFramed'
  BY DEF IInv, WellFramed, ReadBadRequest, Goto, wire, Acquire, Writing
<1> QED
  BY <1>1, <1>2, <1>3, <1>4, <1>5, <1>6, <1>7, <1>8, <1>9 DEF IInv

LEMMA ReadFailsStep ==
  ASSUME IInv, ReadFails
  PROVE  IInv'
<1> USE AgentFacts
<1>1. TypeInv'
  BY DEF IInv, TypeInv, TypeOK, Steps, Errors, ReadFails, Goto, wire, Acquire, Writing
<1>2. LockInv' /\ PairInv'
  BY DEF IInv, TypeInv, LockInv, PairInv, ReadFails, Goto, wire, Acquire, Writing
<1>3. FreshInv' /\ BadInv'
  BY DEF IInv, TypeInv, TypeOK, FreshInv, BadInv, PairInv, Fresh, ReadFails, Goto, wire, Acquire,
         Writing
<1>4. ErrInv'
  BY DEF IInv, TypeInv, TypeOK, ErrInv, FreshInv, PairInv, Fresh, ReadFails, Goto, wire, Acquire,
         Writing
<1>5. HeaderInv'
  BY DEF IInv, TypeInv, TypeOK, HeaderInv, PairInv, FreshInv, BadInv, Unwritten, Fresh, IsHeader,
         ReadFails, Goto, wire, Acquire, Writing
<1>6. TailInv'
  BY DEF IInv, TypeInv, TypeOK, TailInv, LockInv, PairInv, FreshInv, BadInv, Subject, ReadFails,
         Goto, wire, Acquire, Writing
<1>7. CloseInv'
  BY DEF IInv, TypeInv, TypeOK, CloseInv, CutOff, ReadFails, Goto, wire, Acquire, Writing
<1>8. DoneInv'
  BY DEF IInv, TypeInv, DoneInv, PairInv, Answers, IsHeader, CutOff, ReadFails, Goto, wire,
         Acquire, Writing
<1>9. WellFramed'
  BY DEF IInv, WellFramed, ReadFails, Goto, wire, Acquire, Writing
<1> QED
  BY <1>1, <1>2, <1>3, <1>4, <1>5, <1>6, <1>7, <1>8, <1>9 DEF IInv

LEMMA WaitReturnsStep ==
  ASSUME IInv, WaitReturns
  PROVE  IInv'
<1> USE AgentFacts
<1>1. TypeInv'
  <2>1. at' = [at EXCEPT ![Loop] = "closed"] /\ open' = FALSE
        /\ UNCHANGED <<sending, bad, err, stream, sent, inbox, hungUp, out>>
    BY DEF WaitReturns, Goto, wire
  <2>2. /\ at' \in [Agents -> Steps] /\ at'[Loop] = "closed"
        /\ \A r \in Reqs : at'[Handler(r)] = at[Handler(r)] /\ at'[Worker(r)] = at[Worker(r)]
    BY <2>1 DEF IInv, TypeInv, Steps
  <2> QED
    BY <2>1, <2>2 DEF IInv, TypeInv, TypeOK
<1>2. LockInv' /\ PairInv'
  BY DEF IInv, TypeInv, LockInv, PairInv, WaitReturns, Goto, wire, Acquire, Writing, HandlersDone
<1>3. FreshInv' /\ BadInv'
  BY DEF IInv, TypeInv, TypeOK, FreshInv, BadInv, PairInv, Fresh, WaitReturns, Goto, wire,
         Acquire, Writing, HandlersDone
<1>4. ErrInv'
  BY DEF IInv, TypeInv, TypeOK, ErrInv, FreshInv, PairInv, Fresh, WaitReturns, Goto, wire,
         Acquire, Writing, HandlersDone
<1>5. HeaderInv'
  BY DEF IInv, TypeInv, TypeOK, HeaderInv, PairInv, FreshInv, BadInv, Unwritten, Fresh, IsHeader,
         WaitReturns, Goto, wire, Acquire, Writing, HandlersDone
<1>6. TailInv'
  BY DEF IInv, TypeInv, TypeOK, TailInv, LockInv, PairInv, FreshInv, BadInv, Subject,
         WaitReturns, Goto, wire, Acquire, Writing, HandlersDone
<1>7. CloseInv'
  BY DEF IInv, TypeInv, TypeOK, BadInv, CloseInv, CutOff, WaitReturns, Goto, wire, Acquire,
         Writing, HandlersDone
<1>8. DoneInv'
  BY DEF IInv, TypeInv, DoneInv, PairInv, Answers, IsHeader, CutOff, WaitReturns, Goto, wire,
         Acquire, Writing, HandlersDone
<1>9. WellFramed'
  BY DEF IInv, WellFramed, WaitReturns, Goto, wire, Acquire, Writing, HandlersDone
<1> QED
  BY <1>1, <1>2, <1>3, <1>4, <1>5, <1>6, <1>7, <1>8, <1>9 DEF IInv

LEMMA LockStep ==
  ASSUME IInv, NEW a \in Agents, Lock(a)
  PROVE  IInv'
<1> USE AgentFacts
<1>1. TypeInv'
  BY DEF IInv, TypeInv, TypeOK, Steps, Errors, Lock, Goto, wire, Acquire, Writing
<1>2. LockInv' /\ PairInv'
  BY DEF IInv, TypeInv, LockInv, PairInv, Lock, Goto, wire, Acquire, Writing
<1>3. FreshInv' /\ BadInv'
  BY DEF IInv, TypeInv, TypeOK, FreshInv, BadInv, PairInv, Fresh, Lock, Goto, wire, Acquire, Writing
<1>4. ErrInv'
  BY DEF IInv, TypeInv, TypeOK, ErrInv, FreshInv, PairInv, Fresh, Lock, Goto, wire, Acquire, Writing
<1>5. HeaderInv'
  BY DEF IInv, TypeInv, TypeOK, HeaderInv, PairInv, FreshInv, BadInv, Unwritten, Fresh, IsHeader,
         Lock, Goto, wire, Acquire, Writing
<1>6. TailInv'
  BY DEF IInv, TypeInv, TypeOK, TailInv, LockInv, PairInv, FreshInv, BadInv, Subject, Lock, Goto,
         wire, Acquire, Writing
<1>7. CloseInv'
  BY DEF IInv, TypeInv, TypeOK, CloseInv, CutOff, Lock, Goto, wire, Acquire, Writing
<1>8. DoneInv'
  BY DEF IInv, TypeInv, DoneInv, PairInv, Answers, IsHeader, CutOff, Lock, Goto, wire, Acquire,
         Writing
<1>9. WellFramed'
  BY DEF IInv, WellFramed, Lock, Goto, wire, Acquire, Writing
<1> QED
  BY <1>1, <1>2, <1>3, <1>4, <1>5, <1>6, <1>7, <1>8, <1>9 DEF IInv

LEMMA MethodReturnsStep ==
  ASSUME IInv, NEW r \in Reqs, MethodReturns(r)
  PROVE  IInv'
<1> USE AgentFacts
<1>1. TypeInv'
  BY DEF IInv, TypeInv, TypeOK, Steps, Errors, MethodReturns, Goto, wire, Acquire, Writing
<1>2. LockInv' /\ PairInv'
  BY DEF IInv, TypeInv, LockInv, PairInv, MethodReturns, Goto, wire, Acquire, Writing
<1>3. FreshInv' /\ BadInv'
  BY DEF IInv, TypeInv, TypeOK, FreshInv, BadInv, PairInv, Fresh, MethodReturns, Goto, wire,
         Acquire, Writing
<1>4. ErrInv'
  BY DEF IInv, TypeInv, TypeOK, ErrInv, FreshInv, PairInv, Fresh, MethodReturns, Goto, wire,
         Acquire, Writing
<1>5. HeaderInv'
  BY DEF IInv, TypeInv, TypeOK, HeaderInv, PairInv, FreshInv, BadInv, Unwritten, Fresh, IsHeader,
         MethodReturns, Goto, wire, Acquire, Writing
<1>6. TailInv'
  BY DEF IInv, TypeInv, TypeOK, TailInv, LockInv, PairInv, FreshInv, BadInv, Subject,
         MethodReturns, Goto, wire, Acquire, Writing
<1>7. CloseInv'
  BY DEF IInv, TypeInv, TypeOK, CloseInv, CutOff, MethodReturns, Goto, wire, Acquire, Writing
<1>8. DoneInv'
  BY DEF IInv, TypeInv, DoneInv, PairInv, Answers, IsHeader, CutOff, MethodReturns, Goto, wire,
         Acquire, Writing
<1>9. WellFramed'
  BY DEF IInv, WellFramed, MethodReturns, Goto, wire, Acquire, Writing
<1> QED
  BY <1>1, <1>2, <1>3, <1>4, <1>5, <1>6, <1>7, <1>8, <1>9 DEF IInv

LEMMA CalledStep ==
  ASSUME IInv, NEW r \in Reqs, NEW f \in BOOLEAN, Called(r, f)
  PROVE  IInv'
<1> USE AgentFacts
<1>1. TypeInv'
  BY DEF IInv, TypeInv, TypeOK, Steps, Errors, Called, Goto, wire, Acquire, Writing
<1>2. LockInv' /\ PairInv'
  BY DEF IInv, TypeInv, LockInv, PairInv, Called, Goto, wire, Acquire, Writing
<1>3. FreshInv' /\ BadInv'
  BY DEF IInv, TypeInv, TypeOK, FreshInv, BadInv, PairInv, Fresh, Called, Goto, wire, Acquire,
         Writing
<1>4. ErrInv'
  BY DEF IInv, TypeInv, TypeOK, ErrInv, FreshInv, PairInv, Fresh, Called, Goto, wire, Acquire,
         Writing
<1>5. HeaderInv'
  BY DEF IInv, TypeInv, TypeOK, HeaderInv, PairInv, FreshInv, BadInv, Unwritten, Fresh, IsHeader,
         Called, Goto, wire, Acquire, Writing
<1>6. TailInv'
  BY DEF IInv, TypeInv, TypeOK, TailInv, LockInv, PairInv, FreshInv, BadInv, Subject, Called,
         Goto, wire, Acquire, Writing
<1>7. CloseInv'
  BY DEF IInv, TypeInv, TypeOK, CloseInv, CutOff, Called, Goto, wire, Acquire, Writing
<1>8. DoneInv'
  BY DEF IInv, TypeInv, DoneInv, PairInv, Answers, IsHeader, CutOff, Called, Goto, wire, Acquire,
         Writing
<1>9. WellFramed'
  BY DEF IInv, WellFramed, Called, Goto, wire, Acquire, Writing
<1> QED
  BY <1>1, <1>2, <1>3, <1>4, <1>5, <1>6, <1>7, <1>8, <1>9 DEF IInv

LEMMA TimeoutStep ==
  ASSUME IInv, NEW r \in Reqs, Timeout(r)
  PROVE  IInv'
<1> USE AgentFacts
<1>1. TypeInv'
  BY DEF IInv, TypeInv, TypeOK, Steps, Errors, Timeout, Goto, wire, Acquire, Writing
<1>2. LockInv' /\ PairInv'
  BY DEF IInv, TypeInv, LockInv, PairInv, Timeout, Goto, wire, Acquire, Writing
<1>3. FreshInv' /\ BadInv'
  BY DEF IInv, TypeInv, TypeOK, FreshInv, BadInv, PairInv, Fresh, Timeout, Goto, wire, Acquire,
         Writing
<1>4. ErrInv'
  BY DEF IInv, TypeInv, TypeOK, ErrInv, FreshInv, PairInv, Fresh, Timeout, Goto, wire, Acquire,
         Writing
<1>5. HeaderInv'
  BY DEF IInv, TypeInv, TypeOK, HeaderInv, PairInv, FreshInv, BadInv, Unwritten, Fresh, IsHeader,
         Timeout, Goto, wire, Acquire, Writing
<1>6. TailInv'
  BY DEF IInv, TypeInv, TypeOK, TailInv, LockInv, PairInv, FreshInv, BadInv, Subject, Timeout,
         Goto, wire, Acquire, Writing
<1>7. CloseInv'
  BY DEF IInv, TypeInv, TypeOK, CloseInv, CutOff, Timeout, Goto, wire, Acquire, Writing
<1>8. DoneInv'
  BY DEF IInv, TypeInv, DoneInv, PairInv, Answers, IsHeader, CutOff, Timeout, Goto, wire,
         Acquire, Writing
<1>9. WellFramed'
  BY DEF IInv, WellFramed, Timeout, Goto, wire, Acquire, Writing
<1> QED
  BY <1>1, <1>2, <1>3, <1>4, <1>5, <1>6, <1>7, <1>8, <1>9 DEF IInv

LEMMA SentStep ==
  ASSUME IInv, NEW r \in Reqs, Sent(r)
  PROVE  IInv'
<1> USE AgentFacts
<1>1. TypeInv'
  BY DEF IInv, TypeInv, TypeOK, Steps, Errors, Sent, Goto, wire, Acquire, Writing
<1>2. LockInv' /\ PairInv'
  BY DEF IInv, TypeInv, LockInv, PairInv, Sent, Goto, wire, Acquire, Writing
<1>3. FreshInv' /\ BadInv'
  BY DEF IInv, TypeInv, TypeOK, FreshInv, BadInv, PairInv, Fresh, Sent, Goto, wire, Acquire, Writing
<1>4. ErrInv'
  BY DEF IInv, TypeInv, TypeOK, ErrInv, FreshInv, PairInv, Fresh, Sent, Goto, wire, Acquire, Writing
<1>5. HeaderInv'
  BY DEF IInv, TypeInv, TypeOK, HeaderInv, PairInv, FreshInv, BadInv, Unwritten, Fresh, IsHeader,
         Sent, Goto, wire, Acquire, Writing
<1>6. TailInv'
  BY DEF IInv, TypeInv, TypeOK, TailInv, LockInv, PairInv, FreshInv, BadInv, Subject, Sent, Goto,
         wire, Acquire, Writing
<1>7. CloseInv'
  BY DEF IInv, TypeInv, TypeOK, CloseInv, CutOff, Sent, Goto, wire, Acquire, Writing
<1>8. DoneInv'
  BY DEF IInv, TypeInv, DoneInv, PairInv, Answers, IsHeader, CutOff, Sent, Goto, wire, Acquire,
         Writing
<1>9. WellFramed'
  BY DEF IInv, WellFramed, Sent, Goto, wire, Acquire, Writing
<1> QED
  BY <1>1, <1>2, <1>3, <1>4, <1>5, <1>6, <1>7, <1>8, <1>9 DEF IInv

\* Who is in the middle of a response holds sending, and answers a request
\* that is neither unread nor over.
LEMMA HolderFacts ==
  ASSUME IInv, NEW a \in Agents, at[a] \in {"header", "body"}
  PROVE  /\ sending = a /\ Subject(a) \in Reqs /\ ~Fresh(Subject(a))
         /\ a = Loop => bad = Subject(a)
         /\ a # Loop => \/ a = Handler(Subject(a)) /\ err[Subject(a)] = "timeout"
                        \/ a = Worker(Subject(a)) /\ err[Subject(a)] \in {"nil", "method"}
         /\ at[Loop] = "closed" => FALSE
<1> USE AgentFacts
<1>1. sending = a
  BY DEF IInv, LockInv
<1>2. CASE a = Loop
  BY <1>1, <1>2 DEF IInv, TypeInv, TypeOK, BadInv, FreshInv, Subject, Writing
<1>3. ASSUME NEW r \in Reqs, a = Handler(r)
      PROVE  /\ Subject(a) = r /\ ~Fresh(r) /\ err[r] = "timeout" /\ at[Loop] # "closed"
  BY <1>3 DEF IInv, ErrInv, FreshInv, CloseInv, Subject, Writing
<1>4. ASSUME NEW r \in Reqs, a = Worker(r)
      PROVE  /\ Subject(a) = r /\ ~Fresh(r) /\ err[r] \in {"nil", "method"} /\ at[Loop] # "closed"
  <2>1. at[Handler(r)] = "sent"
    BY <1>4 DEF IInv, PairInv, Writing
  <2> QED
    BY <1>4, <2>1 DEF IInv, ErrInv, FreshInv, CloseInv, Subject
<1> QED
  BY <1>1, <1>2, <1>3, <1>4

LEMMA WriteHeaderStep ==
  ASSUME IInv, NEW a \in Agents, WriteHeader(a)
  PROVE  IInv'
<1> USE AgentFacts
<1>1. PICK r \in Reqs :
        /\ at[a] = "header" /\ sending = a /\ r = Subject(a) /\ ~Fresh(r) /\ at[Loop] # "closed"
        /\ a = Loop => bad = r
        /\ a # Loop => a = Handler(r) \/ a = Worker(r)
  BY HolderFacts DEF WriteHeader
<1> DEFINE h == [part |-> "header", req |-> r, err |-> err[r]]
<1>2. /\ at' = [at EXCEPT ![a] = "body"]
      /\ UNCHANGED <<sending, bad, err, stream, sent, inbox, hungUp, open>>
      /\ out' = IF open THEN Append(out, h) ELSE out
  BY <1>1 DEF WriteHeader, Goto, Emit, wire
<1>3. at'[a] = "body" /\ \A b \in Agents : b # a => at'[b] = at[b]
  BY <1>2 DEF IInv, TypeInv
<1>4. /\ out \in Seq(Frames)
      /\ Len(out) \in Nat
  BY DEF IInv, TypeInv, TypeOK
<1>5. open => /\ Len(out') = Len(out) + 1
              /\ \A i \in 1..Len(out) : out'[i] = out[i]
              /\ out'[Len(out) + 1] = h
  BY <1>2, <1>4
<1>6. TypeInv'
  <2>1. h \in Frames
    BY <1>1 DEF IInv, TypeInv, TypeOK, Frames
  <2>2. out' \in Seq(Frames)
    BY <1>2, <1>4, <2>1
  <2> QED
    BY <1>2, <1>3, <2>2 DEF IInv, TypeInv, TypeOK, Steps, Writing
<1>7. LockInv' /\ PairInv'
  BY <1>1, <1>2, <1>3 DEF IInv, LockInv, PairInv, Writing
<1>8. FreshInv' /\ BadInv' /\ ErrInv'
  BY <1>1, <1>2, <1>3 DEF IInv, FreshInv, BadInv, ErrInv, Fresh, Writing
<1>9. HeaderInv'
  <2>1. \A q \in Reqs : Unwritten(q)' => Unwritten(q) /\ q # r
    BY <1>1, <1>2, <1>3 DEF IInv, PairInv, BadInv, Unwritten, Fresh, Writing
  <2>2. Unwritten(r)
    BY <1>1 DEF Unwritten
  <2>3. CASE open
    BY <2>1, <2>2, <2>3, <1>4, <1>5 DEF IInv, HeaderInv, IsHeader
  <2>4. CASE ~open
    BY <2>1, <2>4, <1>2 DEF IInv, HeaderInv, IsHeader
  <2> QED
    BY <2>3, <2>4 DEF IInv, TypeInv, TypeOK
<1>10. TailInv'
  <2>1. Subject(a)' = r
    BY <1>1, <1>2 DEF Subject
  <2>2. open => out' # <<>>
    BY <1>4, <1>5
  <2> QED
    BY <1>1, <1>2, <1>3, <1>4, <1>5, <2>1, <2>2 DEF TailInv
<1>11. CloseInv'
  BY <1>1, <1>2, <1>3 DEF IInv, CloseInv, CutOff
<1>12. DoneInv'
  <2>1. \A q \in Reqs : Answers(q) => Answers(q)'
    <3>1. CASE open
      BY <3>1, <1>4, <1>5 DEF Answers, IsHeader
    <3>2. CASE ~open
      BY <3>2, <1>2 DEF Answers, IsHeader
    <3> QED
      BY <3>1, <3>2
  <2>2. CutOff => CutOff'
    BY <1>2 DEF CutOff
  <2> QED
    BY <1>3, <2>1, <2>2 DEF IInv, DoneInv
<1>13. WellFramed'
  <2>1. CASE open
    <3>1. Len(out) > 0 => out[Len(out)].part = "body"
      BY <1>1, <1>4, <2>1 DEF IInv, TailInv
    <3>2. h.part = "header"
      OBVIOUS
    <3> HIDE DEF h
    <3> SUFFICES ASSUME NEW i \in 1..Len(out')
                 PROVE  IF out'[i].part = "header"
                          THEN i < Len(out') => /\ out'[i + 1].part = "body"
                                                /\ out'[i + 1].req = out'[i].req
                                                /\ out'[i].err = "nil" <=> out'[i + 1].reply
                          ELSE i > 1 /\ out'[i - 1].part = "header" /\ out'[i - 1].req = out'[i].req
      BY DEF WellFramed
    <3>3. CASE i = Len(out) + 1
      BY <2>1, <3>2, <3>3, <1>5
    <3>4. CASE i = Len(out)
      BY <2>1, <3>1, <3>4, <1>4, <1>5 DEF IInv, WellFramed
    <3>5. CASE i < Len(out)
      BY <2>1, <3>5, <1>4, <1>5 DEF IInv, WellFramed
    <3> QED
      BY <2>1, <3>3, <3>4, <3>5, <1>4, <1>5
  <2>2. CASE ~open
    BY <2>2, <1>2 DEF IInv, WellFramed
  <2> QED
    BY <2>1, <2>2
<1> QED
  BY <1>6, <1>7, <1>8, <1>9, <1>10, <1>11, <1>12, <1>13 DEF IInv

LEMMA WriteBodyStep ==
  ASSUME IInv, NEW a \in Agents, WriteBody(a)
  PROVE  IInv'
<1> USE AgentFacts
<1>1. PICK r \in Reqs :
        /\ at[a] = "body" /\ sending = a /\ r = Subject(a) /\ ~Fresh(r) /\ at[Loop] # "closed"
        /\ \/ a = Handler(r) /\ err[r] = "timeout"
           \/ a = Worker(r) /\ err[r] \in {"nil", "method"}
  BY HolderFacts DEF WriteBody
<1> DEFINE b == [part |-> "body", req |-> r, reply |-> a \in Workers /\ err[r] # "method"]
<1>2. /\ at' = [at EXCEPT ![a] = After(a)]
      /\ sending' = Free
      /\ UNCHANGED <<bad, err, stream, sent, inbox, hungUp, open>>
      /\ out' = IF open THEN Append(out, b) ELSE out
  BY <1>1 DEF WriteBody, Goto, Emit, wire
<1>3. /\ at'[a] = IF a = Handler(r) THEN "done" ELSE "sent"
      /\ \A c \in Agents : c # a => at'[c] = at[c]
  BY <1>1, <1>2 DEF IInv, TypeInv, After
<1>4. /\ out \in Seq(Frames)
      /\ Len(out) \in Nat
  BY DEF IInv, TypeInv, TypeOK
<1>5. open => /\ Len(out') = Len(out) + 1
              /\ \A i \in 1..Len(out) : out'[i] = out[i]
              /\ out'[Len(out) + 1] = b
  BY <1>2, <1>4
<1>6. open => /\ Len(out) > 0
              /\ out[Len(out)] = [part |-> "header", req |-> r, err |-> err[r]]
  BY <1>1, <1>4 DEF IInv, TailInv
<1>7. TypeInv'
  <2>1. b \in Frames
    <3>1. b.reply \in BOOLEAN
      BY <1>1
    <3> QED
      BY <1>1, <3>1 DEF Frames
  <2>2. out' \in Seq(Frames)
    BY <1>2, <1>4, <2>1
  <2> QED
    BY <1>1, <1>2, <1>3, <2>2 DEF IInv, TypeInv, TypeOK, Steps, Writing
<1>8. LockInv' /\ PairInv'
  BY <1>1, <1>2, <1>3 DEF IInv, TypeInv, TypeOK, LockInv, PairInv, Writing
<1>9. FreshInv' /\ BadInv' /\ ErrInv'
  BY <1>1, <1>2, <1>3 DEF IInv, FreshInv, BadInv, ErrInv, PairInv, Fresh, Writing
<1>10. HeaderInv'
  <2>1. \A q \in Reqs : Unwritten(q)' => Unwritten(q)
    BY <1>1, <1>2, <1>3 DEF Unwritten, Fresh
  <2>2. CASE open
    BY <2>1, <2>2, <1>4, <1>5 DEF IInv, HeaderInv, IsHeader
  <2>3. CASE ~open
    BY <2>1, <2>3, <1>2 DEF IInv, HeaderInv, IsHeader
  <2> QED
    BY <2>2, <2>3
<1>11. TailInv'
  BY <1>2, <1>4, <1>5 DEF TailInv
<1>12. CloseInv'
  BY <1>1, <1>2, <1>3 DEF IInv, CloseInv, CutOff
<1>13. DoneInv'
  <2>1. \A q \in Reqs : Answers(q) => Answers(q)'
    <3>1. CASE open
      <4> SUFFICES ASSUME NEW q \in Reqs, NEW i \in 1..(Len(out) - 1),
                          IsHeader(i, q), out[i + 1].part = "body"
                   PROVE  /\ i \in 1..(Len(out') - 1)
                          /\ IsHeader(i, q)' /\ out'[i + 1].part = "body"
        BY DEF Answers
      <4>1. /\ i \in 1..Len(out) /\ i + 1 \in 1..Len(out)
            /\ i \in 1..(Len(out') - 1)
        BY <3>1, <1>4, <1>5
      <4>2. out'[i] = out[i] /\ out'[i + 1] = out[i + 1]
        BY <3>1, <4>1, <1>5
      <4> QED
        BY <4>1, <4>2 DEF IsHeader
    <3>2. CASE ~open
      BY <3>2, <1>2 DEF Answers, IsHeader
    <3> QED
      BY <3>1, <3>2
  <2>2. CutOff => CutOff'
    BY <1>2 DEF CutOff
  <2>3. open => Answers(r)'
    <3> SUFFICES ASSUME open PROVE Answers(r)'
      OBVIOUS
    <3>1. Len(out) \in 1..(Len(out') - 1)
      BY <1>4, <1>5, <1>6
    <3>2. out'[Len(out)].part = "header" /\ out'[Len(out)].req = r /\ out'[Len(out) + 1].part = "body"
      BY <1>4, <1>5, <1>6
    <3> QED
      BY <3>1, <3>2 DEF Answers, IsHeader
  <2>4. ~open => CutOff
    BY <1>1 DEF IInv, CloseInv
  <2>5. SUFFICES ASSUME NEW q \in Reqs, at'[Handler(q)] = "done" \/ at'[Worker(q)] = "sent"
                 PROVE  Answers(q)' \/ CutOff'
    BY DEF DoneInv
  <2>6. q = r \/ at[Handler(q)] = "done" \/ at[Worker(q)] = "sent"
    BY <1>1, <1>3, <2>5
  <2>7. CASE q = r
    BY <2>2, <2>3, <2>4, <2>7
  <2> QED
    BY <2>1, <2>2, <2>6, <2>7 DEF IInv, DoneInv
<1>14. WellFramed'
  <2>1. CASE open
    <3>1. err[r] = "nil" <=> b.reply
      BY <1>1
    <3>2. WellFramed
      BY DEF IInv
    <3>3. /\ b.part = "body" /\ b.req = r
          /\ out[Len(out)].part = "header" /\ out[Len(out)].req = r /\ out[Len(out)].err = err[r]
      BY <2>1, <1>6
    <3> HIDE DEF b
    <3>4. ASSUME NEW i \in 1..Len(out')
          PROVE  IF out'[i].part = "header"
                   THEN i < Len(out') => /\ out'[i + 1].part = "body"
                                         /\ out'[i + 1].req = out'[i].req
                                         /\ out'[i].err = "nil" <=> out'[i + 1].reply
                   ELSE i > 1 /\ out'[i - 1].part = "header" /\ out'[i - 1].req = out'[i].req
      <4>1. CASE i < Len(out)
        <5>1. /\ i \in 1..Len(out) /\ i + 1 \in 1..Len(out)
              /\ i > 1 => i - 1 \in 1..Len(out)
          BY <4>1, <1>4
        <5>2. /\ out'[i] = out[i] /\ out'[i + 1] = out[i + 1]
              /\ i > 1 => out'[i - 1] = out[i - 1]
          BY <2>1, <5>1, <1>5
        <5> QED
          BY <3>2, <4>1, <5>1, <5>2 DEF WellFramed
      <4>2. CASE i = Len(out)
        <5>1. out'[i] = out[i] /\ out'[i + 1] = b
          BY <2>1, <4>2, <1>4, <1>5, <1>6
        <5> QED
          BY <3>1, <3>3, <4>2, <5>1
      <4>3. CASE i = Len(out) + 1
        <5>1. out'[i] = b /\ i - 1 = Len(out) /\ i > 1 /\ out'[i - 1] = out[Len(out)]
          BY <2>1, <4>3, <1>4, <1>5, <1>6
        <5> QED
          BY <3>3, <5>1
      <4> QED
        BY <2>1, <4>1, <4>2, <4>3, <1>4, <1>5
    <3> QED
      BY <3>4 DEF WellFramed
  <2>2. CASE ~open
    BY <2>2, <1>2 DEF IInv, WellFramed
  <2> QED
    BY <2>1, <2>2
<1> QED
  BY <1>7, <1>8, <1>9, <1>10, <1>11, <1>12, <1>13, <1>14 DEF IInv

LEMMA WriteBodyFailsStep ==
  ASSUME IInv, NEW a \in Agents, WriteBodyFails(a)
  PROVE  IInv'
<1> USE AgentFacts
<1>1. PICK r \in Reqs :
        /\ at[a] = "body" /\ sending = a /\ ~Fresh(r) /\ at[Loop] # "closed"
        /\ a = Loop \/ a = Worker(r)
        /\ a = Loop => bad = r
  BY HolderFacts DEF WriteBodyFails
<1>2. /\ at' = [at EXCEPT ![a] = After(a)]
      /\ sending' = Free /\ open' = FALSE
      /\ bad' = IF a = Loop THEN NoReq ELSE bad
      /\ UNCHANGED <<err, stream, sent, inbox, hungUp, out>>
  BY DEF WriteBodyFails, Goto, wire
<1>3. /\ at'[a] = IF a = Loop THEN "read" ELSE "sent"
      /\ \A c \in Agents : c # a => at'[c] = at[c]
  BY <1>1, <1>2 DEF IInv, TypeInv, After
<1>4. CutOff'
  <2>1. CASE open
    BY <2>1, <1>1, <1>2 DEF IInv, TailInv, CutOff
  <2>2. CASE ~open
    BY <2>2, <1>1, <1>2 DEF IInv, CloseInv, CutOff
  <2> QED
    BY <2>1, <2>2
<1>5. TypeInv'
  <2>1. at' \in [Agents -> Steps]
    BY <1>2, <1>1 DEF IInv, TypeInv, Steps, After
  <2>2. CASE a = Loop
    <3>1. /\ at'[Loop] = "read" /\ bad' = NoReq
          /\ \A q \in Reqs : at'[Handler(q)] = at[Handler(q)] /\ at'[Worker(q)] = at[Worker(q)]
      BY <1>2, <1>3, <2>2
    <3> QED
      BY <1>2, <2>1, <3>1 DEF IInv, TypeInv, TypeOK
  <2>3. CASE a = Worker(r)
    <3>1. /\ at'[Loop] = at[Loop] /\ at'[Worker(r)] = "sent"
          /\ \A q \in Reqs : /\ at'[Handler(q)] = at[Handler(q)]
                             /\ q # r => at'[Worker(q)] = at[Worker(q)]
      BY <1>3, <2>3
    <3>2. ASSUME NEW q \in Reqs
          PROVE  /\ at'[Handler(q)] \in {"none", "select", "sent", "done"} \cup Writing
                 /\ at'[Worker(q)] \in {"none", "run", "called", "sent", "done"} \cup Writing
      <4>1. /\ at[Handler(q)] \in {"none", "select", "sent", "done"} \cup Writing
            /\ at[Worker(q)] \in {"none", "run", "called", "sent", "done"} \cup Writing
        BY DEF IInv, TypeInv, TypeOK
      <4>2. /\ at'[Handler(q)] = at[Handler(q)]
            /\ at'[Worker(q)] = "sent" \/ at'[Worker(q)] = at[Worker(q)]
        BY <3>1
      <4> QED
        BY <4>1, <4>2
    <3>3. bad' = bad
      BY <1>2, <2>3
    <3> QED
      BY <1>2, <2>1, <3>1, <3>2, <3>3 DEF IInv, TypeInv, TypeOK
  <2> QED
    BY <1>1, <2>2, <2>3
<1>6. LockInv' /\ PairInv'
  BY <1>1, <1>2, <1>3 DEF IInv, LockInv, PairInv, Writing
<1>7. FreshInv' /\ BadInv' /\ ErrInv'
  BY <1>1, <1>2, <1>3, ServerAssumption DEF IInv, FreshInv, BadInv, ErrInv, Fresh, Writing
<1>8. HeaderInv'
  <2>1. \A q \in Reqs : Unwritten(q)' => Unwritten(q)
    BY <1>1, <1>2, <1>3 DEF Unwritten, Fresh
  <2> QED
    BY <2>1, <1>2 DEF IInv, HeaderInv, IsHeader
<1>9. TailInv' /\ WellFramed'
  BY <1>2 DEF IInv, TailInv, WellFramed
<1>10. CloseInv' /\ DoneInv'
  <2>1. \A q \in Reqs : at'[Handler(q)] = at[Handler(q)]
    BY <1>1, <1>3
  <2> QED
    <3>1. CloseInv'
      BY <1>1, <1>2, <1>3, <1>4, <2>1 DEF IInv, CloseInv
    <3>2. DoneInv'
      BY <1>4 DEF DoneInv
    <3> QED
      BY <3>1, <3>2
<1> QED
  BY <1>5, <1>6, <1>7, <1>8, <1>9, <1>10 DEF IInv

LEMMA InitIInv == Init => IInv
<1> SUFFICES ASSUME Init PROVE IInv
  OBVIOUS
<1> USE AgentFacts
<1>1. /\ at \in [Agents -> Steps] /\ at[Loop] = "options" /\ \A a \in Agents : a # Loop => at[a] = "none"
      /\ sending = Free /\ bad = NoReq /\ err = [r \in Reqs |-> "nil"] /\ stream = "options"
      /\ sent = {} /\ inbox = {} /\ hungUp = FALSE /\ open = TRUE /\ out = <<>>
  BY DEF Init, Steps
<1>2. TypeInv
  <2>1. out \in Seq(Frames) /\ err \in [Reqs -> Errors]
    BY <1>1 DEF Errors
  <2> QED
    BY <1>1, <2>1 DEF TypeInv, TypeOK
<1>3. LockInv /\ PairInv /\ FreshInv /\ BadInv /\ ErrInv
  BY <1>1, ServerAssumption DEF LockInv, PairInv, FreshInv, BadInv, ErrInv, Writing
<1>4. HeaderInv /\ TailInv /\ CloseInv /\ DoneInv /\ WellFramed
  BY <1>1 DEF HeaderInv, TailInv, CloseInv, DoneInv, WellFramed
<1> QED
  BY <1>2, <1>3, <1>4 DEF IInv

\* The invariant holds of every connection.
THEOREM Invariance == Spec => []IInv
<1>1. IInv /\ [Next]_vars => IInv'
  <2> SUFFICES ASSUME IInv, [Next]_vars PROVE IInv'
    OBVIOUS
  <2>1. CASE Serve
    BY <2>1, AcceptOptionsStep, RefuseOptionsStep, ReadRequestStep, ReadBadRequestStep,
       ReadFailsStep, WaitReturnsStep DEF Serve
  <2>2. CASE \E a \in Agents : SendResponse(a)
    BY <2>2, LockStep, WriteHeaderStep, WriteBodyStep, WriteBodyFailsStep DEF SendResponse
  <2>3. CASE \E r \in Reqs : Handle(r) \/ MethodReturns(r) \/ ClientSends(r)
    BY <2>3, CalledStep, TimeoutStep, SentStep, MethodReturnsStep, ClientSendsStep DEF Handle
  <2>4. CASE ClientHangsUp
    BY <2>4, ClientHangsUpStep
  <2>5. CASE UNCHANGED vars
    <3> USE <2>5 DEF vars, IInv
    <3>1. TypeInv' /\ LockInv' /\ PairInv'
      BY DEF TypeInv, TypeOK, LockInv, PairInv
    <3>2. FreshInv' /\ BadInv' /\ ErrInv'
      BY DEF FreshInv, BadInv, ErrInv, Fresh
    <3>3. HeaderInv' /\ TailInv' /\ CloseInv'
      BY DEF HeaderInv, TailInv, CloseInv, Unwritten, Fresh, IsHeader, Subject, CutOff
    <3>4. DoneInv' /\ WellFramed'
      BY DEF DoneInv, WellFramed, Answers, IsHeader, CutOff
    <3> QED
      BY <3>1, <3>2, <3>3, <3>4
  <2> QED
    BY <2>1, <2>2, <2>3, <2>4, <2>5 DEF Next, Closed
<1> QED
  BY InitIInv, <1>1, PTL DEF Spec

\* The variables of a connection keep their types.
THEOREM TypeCorrect == Spec => []TypeOK
<1>1. IInv => TypeOK
  BY DEF IInv, TypeInv
<1> QED
  BY Invariance, <1>1, PTL

\* However timers, methods and refusals race, a request is answered at most
\* once (server.go:193-216).
THEOREM AnsweredOnce == Spec => []AtMostOneResponse
<1>1. IInv => AtMostOneResponse
  <2> SUFFICES ASSUME IInv, NEW r \in Reqs PROVE Cardinality(Headers(r)) <= 1
    BY DEF AtMostOneResponse
  <2>1. \A i, j \in Headers(r) : i = j
    BY DEF IInv, HeaderInv, IsHeader, Headers
  <2>2. CASE Headers(r) = {}
    BY <2>2, FS_EmptySet
  <2>3. CASE Headers(r) # {}
    <3>1. PICK i \in Headers(r) : Headers(r) = {i}
      BY <2>1, <2>3
    <3> QED
      BY <3>1, FS_Singleton
  <2> QED
    BY <2>2, <2>3
<1> QED
  BY Invariance, <1>1, PTL

\* Responses never mix, and a header announces the body that follows it
\* (server.go:108, 178-184, 195, 212).
THEOREM ResponsesWhole == Spec => []WellFramed
<1>1. IInv => WellFramed
  BY DEF IInv
<1> QED
  BY Invariance, <1>1, PTL

\* The close cuts no response off (server.go:121-125).
THEOREM NothingCutOff == Spec => []ClosedMeansAnswered
<1>1. IInv => ClosedMeansAnswered
  <2> SUFFICES ASSUME IInv, at[Loop] = "closed",
                      \A r \in Reqs : Headers(r) # {} => Answered(r),
                      NEW r \in Reqs, at[Handler(r)] # "none"
               PROVE  Answered(r)
    BY DEF ClosedMeansAnswered
  <2>1. Len(out) \in Nat /\ \A i \in 1..Len(out) : out[i].req \in Reqs
    BY DEF IInv, TypeInv, TypeOK, Frames
  <2>2. ~CutOff
    <3> SUFFICES ASSUME CutOff PROVE FALSE
      OBVIOUS
    <3>1. Len(out) \in 1..Len(out) /\ IsHeader(Len(out), out[Len(out)].req)
      BY <2>1 DEF CutOff, IsHeader
    <3>2. \A i \in Headers(out[Len(out)].req) : i = Len(out)
      BY <2>1, <3>1 DEF IInv, HeaderInv, IsHeader, Headers
    <3>3. Headers(out[Len(out)].req) # {}
      BY <3>1 DEF Headers, IsHeader
    <3> QED
      BY <2>1, <3>1, <3>2, <3>3 DEF Answered
  <2>3. Answers(r)
    BY <2>2 DEF IInv, CloseInv, DoneInv
  <2> QED
    BY <2>1, <2>3 DEF Answers, Answered, Headers, IsHeader
<1> QED
  BY Invariance, <1>1, PTL
=============================================================================
