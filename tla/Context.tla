------------------------------ MODULE Context ------------------------------
(***************************************************************************)
(* geeweb's Context (context.go): Next runs the chain of a request's       *)
(* handlers.  Each handler may return, panic, or call Next itself, so the  *)
(* steps follow a stack of activations; Recovery (recovery.go) is the one  *)
(* handler of the package that defers something.  Which chain a request    *)
(* gets is Gee's matter.                                                   *)
(*                                                                         *)
(* Grain.  A request has its goroutine and its Context to itself, so one   *)
(* request at a time stands for them all.  A handler is what it is (kind)  *)
(* and the group that registered it; what handlers write to the response   *)
(* is left out.                                                            *)
(***************************************************************************)
EXTENDS Integers, Sequences, SequencesExt

CONSTANT MaxNext  \* bound: how far Next is called past the end of the chain

ASSUME ContextAssumption == MaxNext \in Nat

VARIABLES
  chain,     \* c.handlers
  index,     \* c.index
  stack,     \* the activations: Loop is Next's loop, i the handler chain[i]
  panicked,  \* a handler of this request panicked
  ran        \* the handlers of this request in the order they began (history)

context == <<chain, index, stack, panicked, ran>>

Loop     == 0
Kinds    == {"user", "recovery"}  \* of a middleware
Handlers == [group : Nat, kind : Kinds \cup {"route", "404"}]

ContextTypeOK ==
  /\ chain \in Seq(Handlers)
  /\ index \in Nat \cup {-1}
  /\ stack \in Seq(0..Len(chain))
  /\ panicked \in BOOLEAN
  /\ ran \in Seq(1..Len(chain))

\* No request yet.
ContextInit ==
  /\ chain = <<>>
  /\ index = -1
  /\ stack = <<>>
  /\ panicked = FALSE
  /\ ran = <<>>

\* newContext's index is -1, and handle calls Next when the chain is complete.
Begin ==
  /\ stack = <<>>
  /\ chain' \in Seq(Handlers)
  /\ index' = 0
  /\ stack' = <<Loop>>
  /\ panicked' = FALSE
  /\ ran' = <<>>
-----------------------------------------------------------------------------
(* Next and the handlers it runs                                           *)

OnTop(frames) == ~panicked /\ stack # <<>> /\ Last(stack) \in frames
Current == index + 1   \* where the chain's c.handlers[c.index] is
Users   == {i \in DOMAIN chain : chain[i].kind \in {"user", "route"}}

\* Next calls a handler.
Call ==
  /\ OnTop({Loop})
  /\ index < Len(chain)
  /\ chain[Current].kind # "recovery"
  /\ stack' = Append(stack, Current)
  /\ ran' = Append(ran, Current)
  /\ UNCHANGED <<chain, index, panicked>>

\* Recovery defers its function and calls Next.
CallRecovery ==
  /\ OnTop({Loop})
  /\ index < Len(chain)
  /\ chain[Current].kind = "recovery"
  /\ stack' = stack \o <<Current, Loop>>
  /\ index' = index + 1
  /\ ran' = Append(ran, Current)
  /\ UNCHANGED <<chain, panicked>>

\* The loop of Next is at the end of the chain.
NextReturns ==
  /\ OnTop({Loop})
  /\ index >= Len(chain)
  /\ stack' = Front(stack)
  /\ UNCHANGED <<chain, index, panicked, ran>>

\* (Mutant) Next calls one handler and has no loop.
ReturnsFromNext ==
  /\ OnTop(DOMAIN chain)
  /\ stack' = Front(Front(stack))
  /\ UNCHANGED <<chain, index, panicked, ran>>

\* A handler returns to the loop that called it, which goes to the next index.
HandlerReturns ==
  /\ OnTop(DOMAIN chain)
  /\ stack' = Front(stack)
  /\ index' = index + 1
  /\ UNCHANGED <<chain, panicked, ran>>

\* (Mutant) Next does not move the index before its loop.
CallsNextInPlace ==
  /\ OnTop(Users)
  /\ index < Len(chain) + MaxNext
  /\ Len(ran) <= Len(chain)
  /\ stack' = Append(stack, Loop)
  /\ UNCHANGED <<chain, index, panicked, ran>>

\* A handler calls Next, for the first time or again.
CallsNext ==
  /\ OnTop(Users)
  /\ index < Len(chain) + MaxNext
  /\ index' = index + 1
  /\ stack' = Append(stack, Loop)
  /\ UNCHANGED <<chain, panicked, ran>>

Panics ==
  /\ OnTop(Users)
  /\ panicked' = TRUE
  /\ stack' = Front(stack)
  /\ UNCHANGED <<chain, index, ran>>

\* The panic takes the activations away one by one.  In Recovery's, the
\* deferred function recovers and calls trace, which slices its 32 counters
\* by runtime.Caller's first result, the address of an instruction: trace
\* panics in turn, Fail is not reached, and the new panic goes on to net/http.
Unwind ==
  /\ panicked
  /\ stack # <<>>
  /\ stack' = Front(stack)
  /\ UNCHANGED <<chain, index, panicked, ran>>
-----------------------------------------------------------------------------
Serve == \/ Call \/ CallRecovery \/ NextReturns \/ HandlerReturns
         \/ CallsNext \/ Panics \/ Unwind

ContextNext == Begin \/ Serve

ContextSpec == ContextInit /\ [][ContextNext]_context
-----------------------------------------------------------------------------
(* What a context promises                                                 *)

\* No handler runs twice or out of order, however often the handlers before
\* it call Next: they all share one index (context.go:37-43).
RunsInOrder == ran = [i \in 1..Len(ran) |-> i] /\ Len(ran) <= Len(chain)

\* A handler that gets the control back from Next, and a request that ends,
\* find the whole chain run: a middleware cannot keep the handlers behind it
\* from running, and the code after its Next comes last (logger.go:9-12).
NextRunsTheRest ==
  ~panicked => \/ Len(ran) = Len(chain)
               \/ stack # <<>> /\ Last(stack) \in {Loop, Len(ran)}
=============================================================================
