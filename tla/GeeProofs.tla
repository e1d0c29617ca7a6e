----------------------------- MODULE GeeProofs ------------------------------
(***************************************************************************)
(* The middleware chain for any chain of handlers, any number of calls of  *)
(* Next and any registration.  What holds of a context is proved of        *)
(* ContextSpec, which the engine's Spec implements.  The invariant says    *)
(* where the shared index stands when Next's loop, or a handler, has the   *)
(* control.                                                                *)
(*                                                                         *)
(* Then the router, for any segments, registrations and paths: what insert *)
(* keeps of a tree (Grown), that search, which is recursive, is defined on *)
(* such a tree and finds a node of it, and so that whatever is found was   *)
(* registered.                                                             *)
(*                                                                         *)
(* Last, routes registered in a good order: what their tree holds (Holds), *)
(* that search finds the best of those that match, that its parameters     *)
(* give the path again, and that ServeHTTP chooses the middlewares of the  *)
(* groups around it.                                                       *)
(***************************************************************************)
EXTENDS Gee, SequenceTheorems, WellFoundedInduction, TLAPS

\* Loops and handlers take turns on the stack, a loop at the bottom.
Alternating ==
  /\ stack # <<>> => stack[1] = Loop
  /\ \A i \in 1..(Len(stack) - 1) : (stack[i] = Loop) <=> (stack[i + 1] # Loop)

\* All handlers have begun, and the index is past them.
Exhausted == Len(ran) = Len(chain) /\ index >= Len(chain)

\* The index is at the next handler to begin when a loop has the control, and
\* at the handler last begun when that one has it.
IndexInStep ==
  ~panicked =>
    /\ stack = <<>> => Len(ran) = Len(chain)
    /\ stack # <<>> /\ Last(stack) = Loop => index = Len(ran) \/ Exhausted
    /\ stack # <<>> /\ Last(stack) # Loop =>
         (Last(stack) = Len(ran) /\ index = Len(ran) - 1) \/ Exhausted

IInv == ContextTypeOK /\ RunsInOrder /\ Alternating /\ IndexInStep
-----------------------------------------------------------------------------
\* What popping a stack leaves.
LEMMA FrontProperties ==
  ASSUME NEW S, NEW s \in Seq(S), s # <<>>
  PROVE  /\ Front(s) \in Seq(S)
         /\ Len(s) \in Nat \ {0}
         /\ Len(Front(s)) = Len(s) - 1
         /\ \A i \in 1..(Len(s) - 1) : Front(s)[i] = s[i]
<1>1. Len(s) \in Nat /\ Len(s) # 0 /\ \A i \in 1..(Len(s) - 1) : s[i] \in S
  OBVIOUS
<1>2. PICK n \in Nat : Len(s) = n + 1
  <2>1. \A m \in Nat : m # 0 => \E n \in Nat : m = n + 1
    <3> SUFFICES ASSUME NEW m \in Nat, m # 0 PROVE m - 1 \in Nat /\ m = (m - 1) + 1
      OBVIOUS
    <3> QED
      OBVIOUS
  <2> QED
    BY <1>1, <2>1
<1>3. \A i \in 1..n : s[i] \in S
  BY <1>1, <1>2
<1> DEFINE f == SubSeq(s, 1, n)
<1>4. /\ f \in Seq(S)
      /\ Len(f) = IF 1 <= n THEN n - 1 + 1 ELSE 0
      /\ \A i \in 1..(n - 1 + 1) : f[i] = s[1 + i - 1]
  BY <1>3, SubSeqProperties
<1>5. Front(s) = f
  BY <1>2 DEF Front
<1> HIDE DEF f
<1>6. Len(f) = n /\ \A i \in 1..n : f[i] = s[i]
  BY <1>4
<1> QED
  BY <1>1, <1>2, <1>4, <1>5, <1>6

LEMMA InitIInv == ContextInit => IInv
<1> SUFFICES ASSUME ContextInit PROVE IInv
  OBVIOUS
<1>1. ContextTypeOK
  <2>1. chain \in Seq(Handlers) /\ stack \in Seq(0..Len(chain)) /\ ran \in Seq(1..Len(chain))
    BY DEF ContextInit
  <2>2. index \in Nat \cup {-1} /\ panicked \in BOOLEAN
    BY DEF ContextInit
  <2> QED
    BY <2>1, <2>2 DEF ContextTypeOK
<1>2. RunsInOrder
  BY DEF ContextInit, RunsInOrder
<1>3. Alternating /\ IndexInStep
  BY DEF ContextInit, Alternating, IndexInStep
<1> QED
  BY <1>1, <1>2, <1>3 DEF IInv

LEMMA BeginStep == IInv /\ Begin => IInv'
<1> SUFFICES ASSUME IInv, Begin PROVE IInv'
  OBVIOUS
<1>1. ContextTypeOK'
  <2>1. chain' \in Seq(Handlers) /\ Len(chain') \in Nat
    BY DEF Begin
  <2>2. stack' \in Seq(0..Len(chain')) /\ ran' \in Seq(1..Len(chain'))
    BY <2>1 DEF Begin, Loop
  <2>3. index' \in Nat \cup {-1} /\ panicked' \in BOOLEAN
    BY DEF Begin
  <2> QED
    BY <2>1, <2>2, <2>3 DEF ContextTypeOK
<1>2. RunsInOrder'
  BY DEF Begin, RunsInOrder
<1>3. Alternating'
  BY DEF Begin, Alternating
<1>4. IndexInStep'
  BY DEF Begin, IndexInStep, Last
<1> QED
  BY <1>1, <1>2, <1>3, <1>4 DEF IInv

\* A loop has the control: its index is where the next handler begins.
LEMMA AtLoop ==
  ASSUME IInv, OnTop({Loop})
  PROVE  /\ Len(stack) \in Nat \ {0}
         /\ stack[Len(stack)] = Loop
         /\ index < Len(chain) => index = Len(ran)
         /\ index >= Len(chain) => Len(ran) = Len(chain)
<1>1. stack # <<>> /\ Last(stack) = Loop /\ ~panicked
  BY DEF OnTop
<1>2. Len(stack) \in Nat \ {0} /\ stack[Len(stack)] = Loop
  BY <1>1 DEF IInv, ContextTypeOK, Last
<1>3. index = Len(ran) \/ Exhausted
  BY <1>1 DEF IInv, IndexInStep
<1>4. Len(ran) \in Nat /\ Len(chain) \in Nat /\ Len(ran) <= Len(chain)
  BY DEF IInv, ContextTypeOK, RunsInOrder
<1>5. index \in Int
  BY DEF IInv, ContextTypeOK
<1> QED
  BY <1>2, <1>3, <1>4, <1>5 DEF Exhausted

LEMMA CallStep == IInv /\ Call => IInv'
<1> SUFFICES ASSUME IInv, Call PROVE IInv'
  OBVIOUS
<1>1. index = Len(ran) /\ Len(stack) \in Nat \ {0} /\ stack[Len(stack)] = Loop
  BY AtLoop DEF Call
<1>2. ContextTypeOK'
  BY <1>1 DEF IInv, Call, Current, ContextTypeOK
<1>3. RunsInOrder'
  BY <1>1 DEF IInv, Call, Current, ContextTypeOK, RunsInOrder
<1>4. Alternating'
  BY <1>1 DEF IInv, Call, Current, ContextTypeOK, Alternating, Loop
<1>5. IndexInStep'
  <2>1. index \in Nat /\ Len(ran) \in Nat
    BY <1>1 DEF IInv, ContextTypeOK
  <2>2. Len(ran') = Len(ran) + 1 /\ index' = index
    BY DEF IInv, ContextTypeOK, Call
  <2>3. stack' # <<>> /\ stack'[Len(stack')] = index + 1
    <3>1. stack \in Seq(0..Len(chain)) /\ Current \in 0..Len(chain) /\ Current = index + 1
      BY <2>1 DEF IInv, ContextTypeOK, Call, Current
    <3>2. stack' = Append(stack, Current)
      BY DEF Call
    <3> QED
      BY <3>1, <3>2, AppendProperties
  <2> QED
    BY <1>1, <2>1, <2>2, <2>3 DEF IndexInStep, Last, Loop
<1> QED
  BY <1>2, <1>3, <1>4, <1>5 DEF IInv

LEMMA CallRecoveryStep == IInv /\ CallRecovery => IInv'
<1> SUFFICES ASSUME IInv, CallRecovery PROVE IInv'
  OBVIOUS
<1>1. index = Len(ran) /\ Len(stack) \in Nat \ {0} /\ stack[Len(stack)] = Loop
  BY AtLoop DEF CallRecovery
<1>2. ContextTypeOK'
  BY <1>1 DEF IInv, CallRecovery, Current, ContextTypeOK, Loop
<1>3. RunsInOrder'
  BY <1>1 DEF IInv, CallRecovery, Current, ContextTypeOK, RunsInOrder
<1>4. Alternating'
  <2>1. stack \in Seq(0..Len(chain)) /\ Alternating
    BY DEF IInv, ContextTypeOK
  <2>2. Current \in Nat /\ Current # Loop /\ Loop \in Nat /\ stack' = stack \o <<Current, Loop>>
    BY <1>1 DEF IInv, RunsInOrder, CallRecovery, Current, ContextTypeOK, Loop
  <2>3. /\ Len(stack') = Len(stack) + 2
        /\ stack'[Len(stack) + 1] = Current /\ stack'[Len(stack) + 2] = Loop
        /\ \A i \in 1..Len(stack) : stack'[i] = stack[i]
    BY <1>1, <2>1, <2>2
  <2>4. stack'[1] = Loop
    <3>1. 1 \in 1..Len(stack) /\ stack # <<>>
      BY <1>1
    <3> QED
      BY <2>1, <2>3, <3>1 DEF Alternating
  <2>5. ASSUME NEW i \in 1..(Len(stack') - 1)
        PROVE  (stack'[i] = Loop) <=> (stack'[i + 1] # Loop)
    <3>1. i \in 1..(Len(stack) - 1) \/ i = Len(stack) \/ i = Len(stack) + 1
      BY <1>1, <2>3
    <3>2. CASE i \in 1..(Len(stack) - 1)
      <4>1. i \in 1..Len(stack) /\ i + 1 \in 1..Len(stack)
        BY <1>1, <3>2
      <4> QED
        BY <2>1, <2>3, <3>2, <4>1 DEF Alternating
    <3>3. CASE i = Len(stack)
      BY <1>1, <2>2, <2>3, <3>3
    <3>4. CASE i = Len(stack) + 1
      BY <1>1, <2>2, <2>3, <3>4
    <3> QED
      BY <3>1, <3>2, <3>3, <3>4
  <2> QED
    BY <2>4, <2>5 DEF Alternating
<1>5. IndexInStep'
  <2>1. index \in Nat /\ Len(ran) \in Nat
    BY <1>1 DEF IInv, ContextTypeOK
  <2>2. Len(ran') = Len(ran) + 1 /\ index' = index + 1
    BY DEF IInv, ContextTypeOK, CallRecovery
  <2>3. stack' # <<>> /\ stack'[Len(stack')] = Loop
    BY <1>1 DEF IInv, ContextTypeOK, CallRecovery, Loop
  <2> QED
    BY <1>1, <2>1, <2>2, <2>3 DEF IndexInStep, Last
<1> QED
  BY <1>2, <1>3, <1>4, <1>5 DEF IInv

\* A pop keeps the turns, and leaves a handler above a loop and a loop above
\* a handler.
LEMMA PopKeepsTurns ==
  ASSUME IInv, stack # <<>>, stack' = Front(stack)
  PROVE  /\ Alternating'
         /\ stack' # <<>> => (Last(stack)' = Loop <=> Last(stack) # Loop)
         /\ Last(stack) # Loop => stack' # <<>>
<1>1. /\ stack' \in Seq(0..Len(chain))
      /\ Len(stack) \in Nat \ {0}
      /\ Len(stack') = Len(stack) - 1
      /\ \A i \in 1..(Len(stack) - 1) : stack'[i] = stack[i]
  BY FrontProperties DEF IInv, ContextTypeOK
<1>2. Alternating'
  <2>1. Alternating
    BY DEF IInv
  <2>2. stack' # <<>> => Len(stack') # 0
    BY <1>1
  <2>3. stack' # <<>> => stack'[1] = stack[1]
    BY <1>1, <2>2
  <2>4. \A i \in 1..(Len(stack') - 1) : /\ i \in 1..(Len(stack) - 1)
                                        /\ stack'[i] = stack[i] /\ stack'[i + 1] = stack[i + 1]
    BY <1>1
  <2> QED
    BY <2>1, <2>3, <2>4 DEF Alternating
<1>3. stack' # <<>> => (Last(stack)' = Loop <=> Last(stack) # Loop)
  BY <1>1 DEF IInv, Alternating, Last, Loop
<1>4. Last(stack) # Loop => stack' # <<>>
  BY <1>1 DEF IInv, Alternating, Last, Loop
<1> QED
  BY <1>2, <1>3, <1>4

LEMMA NextReturnsStep == IInv /\ NextReturns => IInv'
<1> SUFFICES ASSUME IInv, NextReturns PROVE IInv'
  OBVIOUS
<1>1. stack # <<>> /\ Last(stack) = Loop /\ Len(ran) = Len(chain)
  BY AtLoop DEF NextReturns, OnTop
<1>2. Alternating' /\ (stack' # <<>> => Last(stack)' # Loop)
  BY <1>1, PopKeepsTurns DEF NextReturns
<1>3. ContextTypeOK'
  BY <1>1, FrontProperties DEF IInv, NextReturns, ContextTypeOK
<1>4. RunsInOrder'
  BY DEF IInv, NextReturns, RunsInOrder
<1>5. IndexInStep'
  BY <1>1, <1>2 DEF NextReturns, IndexInStep, Exhausted
<1> QED
  BY <1>2, <1>3, <1>4, <1>5 DEF IInv

LEMMA HandlerReturnsStep == IInv /\ HandlerReturns => IInv'
<1> SUFFICES ASSUME IInv, HandlerReturns PROVE IInv'
  OBVIOUS
<1>1. ~panicked /\ stack # <<>> /\ Last(stack) # Loop
  BY DEF IInv, HandlerReturns, OnTop, ContextTypeOK, Loop
<1>2. Alternating' /\ stack' # <<>> /\ Last(stack)' = Loop
  BY <1>1, PopKeepsTurns DEF HandlerReturns
<1>3. ContextTypeOK'
  BY <1>1, FrontProperties DEF IInv, HandlerReturns, ContextTypeOK
<1>4. RunsInOrder'
  BY DEF IInv, HandlerReturns, RunsInOrder
<1>5. (Last(stack) = Len(ran) /\ index = Len(ran) - 1) \/ Exhausted
  BY <1>1 DEF IInv, IndexInStep
<1>6. Len(ran) \in Nat /\ Len(chain) \in Nat /\ index \in Int
  BY DEF IInv, ContextTypeOK
<1>7. index' = Len(ran') \/ Exhausted'
  BY <1>5, <1>6 DEF HandlerReturns, Exhausted
<1>8. IndexInStep'
  BY <1>2, <1>7 DEF IndexInStep
<1> QED
  BY <1>2, <1>3, <1>4, <1>8 DEF IInv

LEMMA CallsNextStep == IInv /\ CallsNext => IInv'
<1> SUFFICES ASSUME IInv, CallsNext PROVE IInv'
  OBVIOUS
<1>1. ~panicked /\ stack # <<>> /\ Last(stack) # Loop /\ Len(stack) \in Nat \ {0}
  BY DEF IInv, CallsNext, OnTop, Users, ContextTypeOK, Loop
<1>2. ContextTypeOK'
  BY DEF IInv, CallsNext, ContextTypeOK, Loop
<1>3. RunsInOrder'
  BY DEF IInv, CallsNext, RunsInOrder
<1>4. Alternating'
  BY <1>1 DEF IInv, CallsNext, ContextTypeOK, Alternating, Last, Loop
<1>5. IndexInStep'
  <2>1. index \in Int /\ Len(ran) \in Nat /\ Len(chain) \in Nat
    BY DEF IInv, ContextTypeOK
  <2>2. (index = Len(ran) - 1) \/ Exhausted
    BY <1>1 DEF IInv, IndexInStep
  <2>3. index' = index + 1 /\ UNCHANGED <<ran, chain>>
    BY DEF CallsNext
  <2>4. index' = Len(ran') \/ Exhausted'
    BY <2>1, <2>2, <2>3 DEF Exhausted
  <2>5. stack' # <<>> /\ stack'[Len(stack')] = Loop
    <3>1. stack \in Seq(0..Len(chain)) /\ Loop \in 0..Len(chain)
      BY <2>1 DEF IInv, ContextTypeOK, Loop
    <3>2. stack' = Append(stack, Loop)
      BY DEF CallsNext
    <3> QED
      BY <3>1, <3>2, AppendProperties
  <2> QED
    BY <2>4, <2>5 DEF IndexInStep, Last
<1> QED
  BY <1>2, <1>3, <1>4, <1>5 DEF IInv

LEMMA PanicStep == IInv /\ (Panics \/ Unwind) => IInv'
<1> SUFFICES ASSUME IInv, Panics \/ Unwind PROVE IInv'
  OBVIOUS
<1>1. /\ stack # <<>> /\ stack' = Front(stack)
      /\ panicked' = TRUE
      /\ UNCHANGED <<chain, index, ran>>
  BY DEF Panics, Unwind, OnTop, IInv, ContextTypeOK
<1>2. ContextTypeOK'
  BY <1>1, FrontProperties DEF IInv, ContextTypeOK
<1>3. Alternating'
  BY <1>1, PopKeepsTurns
<1> QED
  BY <1>1, <1>2, <1>3 DEF IInv, RunsInOrder, IndexInStep

LEMMA StepIInv == IInv /\ [ContextNext]_context => IInv'
<1>1. ASSUME IInv, UNCHANGED context PROVE IInv'
  <2> USE <1>1 DEF context, IInv
  <2>1. ContextTypeOK'
    BY DEF ContextTypeOK
  <2>2. RunsInOrder'
    BY DEF RunsInOrder
  <2>3. Alternating' /\ IndexInStep'
    BY DEF Alternating, IndexInStep, Exhausted, Last
  <2> QED
    BY <2>1, <2>2, <2>3
<1> QED
  BY <1>1, BeginStep, CallStep, CallRecoveryStep, NextReturnsStep, HandlerReturnsStep,
     CallsNextStep, PanicStep DEF ContextNext, Serve

LEMMA Invariance == ContextSpec => []IInv
BY InitIInv, StepIInv, PTL DEF ContextSpec
-----------------------------------------------------------------------------
\* The engine's steps leave the context alone or are the context's own, so what
\* holds of a context holds in the engine.
LEMMA EngineRunsContexts == Spec => ContextSpec
<1>1. Init => ContextInit
  BY DEF Init
<1>2. [Next]_vars => [ContextNext]_context
  <2> SUFFICES ASSUME [Next]_vars PROVE [ContextNext]_context
    OBVIOUS
  <2>1. CASE Register
    BY <2>1 DEF Register, Group, Use, Static, AddRoute
  <2>2. CASE Run
    BY <2>2 DEF Run
  <2>3. CASE \E mt \in Methods, path \in Paths : ServeHTTP(mt, path)
    BY <2>3 DEF ServeHTTP, ContextNext
  <2>4. CASE Serve /\ UNCHANGED <<setup, params>>
    BY <2>4 DEF ContextNext
  <2>5. CASE UNCHANGED vars
    BY <2>5 DEF vars
  <2> QED
    BY <2>1, <2>2, <2>3, <2>4, <2>5 DEF Next
<1> QED
  BY <1>1, <1>2, PTL DEF Spec, ContextSpec

\* The types of a context.
THEOREM ContextTyped == ContextSpec => []ContextTypeOK
<1>1. IInv => ContextTypeOK
  BY DEF IInv
<1> QED
  BY Invariance, <1>1, PTL

\* However handlers nest and repeat their calls of Next, no handler of a
\* request runs twice or out of order (context.go:37-43).
THEOREM HandlersRunInOrder == Spec => []RunsInOrder
<1>1. IInv => RunsInOrder
  BY DEF IInv
<1> QED
  BY Invariance, EngineRunsContexts, <1>1, PTL

\* A handler that gets the control back from Next, and the server when the
\* request ends, find that the whole chain has begun (context.go:40).
THEOREM ChainRunsToItsEnd == Spec => []NextRunsTheRest
<1>1. IInv => NextRunsTheRest
  BY DEF IInv, IndexInStep, Exhausted, NextRunsTheRest
<1> QED
  BY Invariance, EngineRunsContexts, <1>1, PTL

-----------------------------------------------------------------------------
(* Induction, and functions that are defined step by step                  *)

LEMMA Least ==
  ASSUME NEW S \in SUBSET Nat, S # {}
  PROVE  \E x \in S : \A y \in S : x <= y
<1>1. IsWellFoundedOn(OpToRel(<, Nat), Nat)
  BY NatLessThanWellFounded
<1>2. PICK x \in S : \A y \in S : ~(<<y, x>> \in OpToRel(<, Nat))
  BY <1>1, WFMin
<1>3. \A y \in S : ~(y < x)
  BY <1>2 DEF OpToRel
<1> QED
  BY <1>3

LEMMA Induction ==
  ASSUME NEW N \in Nat, NEW T, 0 \in T,
         \A i \in 1..N : i - 1 \in T => i \in T
  PROVE  \A i \in 0..N : i \in T
<1> DEFINE Out == {i \in 0..N : i \notin T}
<1> SUFFICES ASSUME Out # {} PROVE FALSE
  OBVIOUS
<1>1. Out \in SUBSET Nat
  OBVIOUS
<1>2. PICK x \in Out : \A y \in Out : x <= y
  BY <1>1, Least
<1>3. x \in 0..N /\ x \notin T /\ x # 0
  OBVIOUS
<1>4. x \in 1..N /\ x - 1 \in 0..N /\ ~(x <= x - 1)
  BY <1>3
<1>5. x - 1 \in T
  BY <1>2, <1>4
<1> QED
  BY <1>3, <1>4, <1>5

\* g starts with z and goes on with F.
Continues(g, S, z, F, n) ==
  g \in [0..n -> S] /\ g[0] = z /\ \A i \in 1..n : g[i] = F[i][g[i - 1]]

LEMMA Continued ==
  ASSUME NEW S, NEW z \in S, NEW N \in Nat, NEW F \in [1..N -> [S -> S]]
  PROVE  \E g : Continues(g, S, z, F, N)
<1> DEFINE T == {n \in 0..N : \E g : Continues(g, S, z, F, n)}
<1>1. 0 \in T
  <2>1. Continues([i \in 0..0 |-> z], S, z, F, 0)
    BY DEF Continues
  <2> QED
    BY <2>1
<1>2. ASSUME NEW n \in 1..N, n - 1 \in T
      PROVE  n \in T
  <2>1. PICK g : Continues(g, S, z, F, n - 1)
    BY <1>2
  <2> DEFINE h == [i \in 0..n |-> IF i = n THEN F[n][g[n - 1]] ELSE g[i]]
  <2>2. \A i \in 0..(n - 1) : h[i] = g[i] /\ g[i] \in S
    BY <2>1 DEF Continues
  <2>3. n \in 0..n /\ n - 1 \in 0..(n - 1) /\ g[n - 1] \in S
    <3>1. n \in 0..n /\ n - 1 \in 0..(n - 1)
      OBVIOUS
    <3> HIDE DEF h
    <3> QED
      BY <2>2, <3>1
  <2>4. h[n] = F[n][h[n - 1]] /\ h[n] \in S
    <3>1. F[n][g[n - 1]] \in S
      BY <2>3
    <3> QED
      BY <2>2, <2>3, <3>1
  <2>5. h \in [0..n -> S]
    <3>1. \A i \in 0..n : i = n \/ i \in 0..(n - 1)
      OBVIOUS
    <3>2. \A i \in 0..n : h[i] \in S
      <4> HIDE DEF h
      <4> QED
        BY <2>2, <2>4, <3>1
    <3> QED
      BY <3>2
  <2>6. h[0] = z /\ \A i \in 1..(n - 1) : h[i] = F[i][h[i - 1]]
    <3>1. g[0] = z /\ \A i \in 1..(n - 1) : g[i] = F[i][g[i - 1]]
      BY <2>1 DEF Continues
    <3>2. 0 \in 0..(n - 1) /\ \A i \in 1..(n - 1) : i \in 0..(n - 1) /\ i - 1 \in 0..(n - 1)
      OBVIOUS
    <3> HIDE DEF h
    <3> QED
      BY <2>2, <3>1, <3>2
  <2> HIDE DEF h
  <2>7. \A i \in 1..n : h[i] = F[i][h[i - 1]]
    <3>1. \A i \in 1..n : i = n \/ i \in 1..(n - 1)
      OBVIOUS
    <3> QED
      BY <2>4, <2>6, <3>1
  <2>8. Continues(h, S, z, F, n)
    BY <2>5, <2>6, <2>7 DEF Continues
  <2> QED
    BY <2>8
<1> HIDE DEF T
<1>3. \A i \in 0..N : i \in T
  BY <1>1, <1>2, Induction
<1>4. N \in T
  BY <1>3
<1> QED
  BY <1>4 DEF T

LEMMA FirstIsOne ==
  ASSUME NEW N \in Nat, NEW I \in SUBSET (1..N), I # {}
  PROVE  Min(I) \in I /\ Min(I) # 0
<1>1. I \in SUBSET Nat
  OBVIOUS
<1>2. PICK x \in I : \A y \in I : x <= y
  BY <1>1, Least
<1>3. Min(I) \in I
  BY <1>2 DEF Min
<1> QED
  BY <1>3
-----------------------------------------------------------------------------
(* Paths                                                                   *)

LEMMA SeqFacts ==
  ASSUME NEW S, NEW s \in Seq(S)
  PROVE  Len(s) \in Nat /\ \A i \in 1..Len(s) : s[i] \in S
OBVIOUS

LEMMA AppendFacts ==
  ASSUME NEW S, NEW s \in Seq(S), NEW x \in S
  PROVE  /\ Append(s, x) \in Seq(S) /\ Append(s, x) # <<>>
         /\ Len(Append(s, x)) = Len(s) + 1
         /\ Front(Append(s, x)) = s /\ Last(Append(s, x)) = x
<1>1. /\ Append(s, x) \in Seq(S)
      /\ Len(Append(s, x)) = Len(s) + 1 /\ Len(s) \in Nat
      /\ Append(s, x)[Len(s) + 1] = x
      /\ \A i \in 1..Len(s) : Append(s, x)[i] = s[i]
  OBVIOUS
<1>2. Append(s, x) # <<>>
  <2>1. Len(<<>>) = 0
    OBVIOUS
  <2> QED
    BY <1>1, <2>1
<1> DEFINE t == Append(s, x)
<1> HIDE DEF t
<1>3. /\ Front(t) \in Seq(S) /\ Len(Front(t)) = Len(t) - 1
      /\ \A i \in 1..(Len(t) - 1) : Front(t)[i] = t[i]
  BY <1>1, <1>2, FrontProperties DEF t
<1>4. Len(Front(t)) = Len(s) /\ \A i \in 1..Len(s) : Front(t)[i] = s[i]
  BY <1>1, <1>3 DEF t
<1>5. Front(t) = s
  BY <1>3, <1>4, SeqEqual
<1>6. Last(t) = x
  BY <1>1 DEF Last, t
<1> QED
  BY <1>1, <1>2, <1>5, <1>6 DEF t

LEMMA AppendElements ==
  ASSUME NEW S, NEW s \in Seq(S), NEW x \in S
  PROVE  /\ Append(s, x) \in Seq(S)
         /\ Len(Append(s, x)) = Len(s) + 1
         /\ Append(s, x)[Len(s) + 1] = x
         /\ \A i \in 1..Len(s) : Append(s, x)[i] = s[i]
OBVIOUS

\* A sequence is what is before its last element, and that.
LEMMA AppendBack ==
  ASSUME NEW S, NEW s \in Seq(S), Len(s) # 0
  PROVE  Append(Front(s), Last(s)) = s
<1>1. Len(s) \in Nat /\ \A i \in 1..Len(s) : s[i] \in S
  BY SeqFacts
<1>2. s # <<>> /\ Len(s) \in 1..Len(s)
  <2>1. Len(<<>>) = 0
    OBVIOUS
  <2> QED
    BY <1>1, <2>1
<1>3. /\ Front(s) \in Seq(S) /\ Len(Front(s)) = Len(s) - 1
      /\ \A i \in 1..(Len(s) - 1) : Front(s)[i] = s[i]
  BY <1>2, FrontProperties
<1>4. Last(s) \in S /\ Last(s) = s[Len(s)]
  BY <1>1, <1>2 DEF Last
<1> DEFINE t == Append(Front(s), Last(s))
<1>5. /\ t \in Seq(S) /\ Len(t) = Len(Front(s)) + 1 /\ t[Len(Front(s)) + 1] = Last(s)
      /\ \A i \in 1..Len(Front(s)) : t[i] = Front(s)[i]
  BY <1>3, <1>4, AppendElements
<1> HIDE DEF t
<1>6. Len(t) = Len(s) /\ t[Len(s)] = s[Len(s)] /\ \A i \in 1..(Len(s) - 1) : t[i] = s[i]
  BY <1>1, <1>3, <1>4, <1>5
<1>7. \A i \in 1..Len(s) : i = Len(s) \/ i \in 1..(Len(s) - 1)
  BY <1>1
<1>8. t = s
  <2>1. \A i \in 1..Len(t) : t[i] = s[i]
    BY <1>6, <1>7
  <2> QED
    BY <1>5, <1>6, <2>1, SeqEqual
<1> QED
  BY <1>8 DEF t

\* kept holds what NonEmpty keeps of the beginnings of a path.
Keeps(kept, path) ==
  /\ kept \in [0..Len(path) -> Seq(Segments)]
  /\ kept[0] = <<>>
  /\ \A i \in 1..Len(path) :
       kept[i] = IF path[i] = Empty THEN kept[i - 1] ELSE Append(kept[i - 1], path[i])

LEMMA NonEmptyDefined ==
  ASSUME NEW path \in Seq(Segments)
  PROVE  \E kept : Keeps(kept, path) /\ NonEmpty(path) = kept[Len(path)]
<1> DEFINE N == Len(path)
           S == Seq(Segments)
           Step(i, s) == IF path[i] = Empty THEN s ELSE Append(s, path[i])
           Is(f) == f = [i \in 0..N |-> IF i = 0 THEN <<>>
                                        ELSE IF path[i] = Empty THEN f[i - 1]
                                             ELSE Append(f[i - 1], path[i])]
           F == [i \in 1..N |-> [s \in S |-> Step(i, s)]]
           kept == CHOOSE f : Is(f)
<1>1. NonEmpty(path) = kept[N]
  BY DEF NonEmpty
<1>2. N \in Nat /\ \A i \in 1..N : path[i] \in Segments
  BY SeqFacts
<1>3. <<>> \in S
  OBVIOUS
<1>4. \A i \in 1..N, s \in S : Step(i, s) \in S
  BY <1>2
<1> HIDE DEF N, S
<1>5. F \in [1..N -> [S -> S]]
  BY <1>4
<1>6. \A i \in 1..N, s \in S : F[i][s] = Step(i, s)
  OBVIOUS
<1> HIDE DEF F
<1>7. PICK g : Continues(g, S, <<>>, F, N)
  BY <1>2, <1>3, <1>5, Continued
<1>8. g \in [0..N -> S] /\ g[0] = <<>> /\ \A i \in 1..N : g[i] = Step(i, g[i - 1])
  <2>1. g \in [0..N -> S] /\ g[0] = <<>> /\ \A i \in 1..N : g[i] = F[i][g[i - 1]]
    BY <1>7 DEF Continues
  <2>2. \A i \in 1..N : i - 1 \in 0..N
    BY <1>2
  <2>3. \A i \in 1..N : g[i - 1] \in S
    BY <2>1, <2>2
  <2> HIDE DEF Step
  <2> QED
    BY <1>6, <2>1, <2>3
<1>9. Is(g)
  <2>1. \A i \in 0..N : i = 0 \/ i \in 1..N
    BY <1>2
  <2>2. \A i \in 0..N : g[i] = IF i = 0 THEN <<>> ELSE Step(i, g[i - 1])
    BY <1>8, <2>1
  <2>3. g = [i \in 0..N |-> g[i]]
    BY <1>8
  <2> QED
    BY <2>2, <2>3
<1>10. Is(kept)
  <2> HIDE DEF Is
  <2> QED
    BY <1>9
<1> HIDE DEF kept
<1>11. kept[0] = <<>> /\ \A i \in 1..N : kept[i] = Step(i, kept[i - 1])
  <2>1. \A i \in 0..N : kept[i] = IF i = 0 THEN <<>> ELSE Step(i, kept[i - 1])
    BY <1>10, Zenon
  <2>2. 0 \in 0..N /\ \A i \in 1..N : i \in 0..N /\ i # 0
    BY <1>2
  <2> HIDE DEF Step
  <2> QED
    BY <2>1, <2>2, Zenon
<1> DEFINE T == {i \in 0..N : kept[i] \in S}
<1>12. 0 \in T
  BY <1>2, <1>3, <1>11
<1>13. ASSUME NEW i \in 1..N, i - 1 \in T
       PROVE  i \in T
  <2>1. kept[i] = Step(i, kept[i - 1]) /\ kept[i - 1] \in S
    BY <1>11, <1>13
  <2>2. kept[i] \in S
    BY <1>4, <2>1
  <2> QED
    BY <1>2, <2>2
<1>14. \A i \in 0..N : kept[i] \in S
  <2> HIDE DEF T
  <2>1. \A i \in 0..N : i \in T
    BY <1>2, <1>12, <1>13, Induction
  <2> QED
    BY <2>1 DEF T
<1>15. DOMAIN kept = 0..N /\ kept = [i \in DOMAIN kept |-> kept[i]]
  BY <1>10, Zenon
<1>16. kept \in [0..N -> S]
  BY <1>14, <1>15
<1>17. Keeps(kept, path)
  BY <1>11, <1>16 DEF Keeps, N, S
<1> QED
  BY <1>1, <1>17 DEF N

LEMMA NonEmptyIsPath ==
  ASSUME NEW path \in Seq(Segments)
  PROVE  NonEmpty(path) \in Seq(Segments)
<1>1. PICK kept : Keeps(kept, path) /\ NonEmpty(path) = kept[Len(path)]
  BY NonEmptyDefined
<1>2. Len(path) \in 0..Len(path)
  OBVIOUS
<1> QED
  BY <1>1, <1>2 DEF Keeps

LEMMA PartsArePath ==
  ASSUME NEW path \in Seq(Segments)
  PROVE  parsePattern(path) \in Seq(Segments) /\ Len(parsePattern(path)) \in Nat
<1> DEFINE parts == NonEmpty(path)
           I == {i \in 1..Len(parts) : parts[i] \in Stars}
<1>1. parts \in Seq(Segments) /\ Len(parts) \in Nat
  BY NonEmptyIsPath, SeqFacts
<1>2. SelectInSeq(parts, LAMBDA item : item \in Stars) = IF I # {} THEN Min(I) ELSE 0
  BY DEF SelectInSeq
<1> HIDE DEF parts
<1>3. I # {} => Min(I) \in 1..Len(parts)
  BY <1>1, FirstIsOne
<1>4. \A m \in 1..Len(parts) : SubSeq(parts, 1, m) \in Seq(Segments)
  BY <1>1, SubSeqProperties
<1>5. parsePattern(path) \in Seq(Segments)
  BY <1>1, <1>2, <1>3, <1>4 DEF parsePattern, parts
<1> QED
  BY <1>5, SeqFacts
-----------------------------------------------------------------------------
(* Trees                                                                   *)

\* A node for every beginning of a label and for every child, and a pattern
\* only where as many parts lead to as it has.
Grown(tree) ==
  /\ <<>> \in DOMAIN tree
  /\ DOMAIN tree \subseteq Seq(Segments)
  /\ \A n \in DOMAIN tree :
       /\ n = <<>> \/ Front(n) \in DOMAIN tree
       /\ tree[n].pattern \in Seq(Segments)
       /\ tree[n].children \in Seq(Segments)
       /\ \A i \in 1..Len(tree[n].children) : Append(n, tree[n].children[i]) \in DOMAIN tree
       /\ tree[n].pattern # NoPattern => Len(parsePattern(tree[n].pattern)) = Len(n)

LEMMA RootIsGrown == Grown(RootOnly)
<1>1. DOMAIN RootOnly = {<<>>} /\ RootOnly[<<>>] = NewNode
  BY DEF RootOnly
<1>2. NewNode.pattern = NoPattern /\ NewNode.children = <<>> /\ NoPattern = <<>>
  BY DEF NewNode, NoPattern
<1>3. <<>> \in Seq(Segments) /\ 1..Len(<<>>) = {}
  OBVIOUS
<1> QED
  BY <1>1, <1>2, <1>3 DEF Grown

LEMMA NodeAtFacts ==
  ASSUME NEW tree, Grown(tree), NEW n
  PROVE  /\ NodeAt(tree, n).pattern \in Seq(Segments)
         /\ NodeAt(tree, n).children \in Seq(Segments)
<1>1. CASE n \in DOMAIN tree
  BY <1>1 DEF Grown, NodeAt
<1>2. CASE n \notin DOMAIN tree
  BY <1>2 DEF NodeAt, NewNode, NoPattern
<1> QED
  BY <1>1, <1>2

\* Where insert goes from a node for a part.
Chosen(tree, n, part) ==
  IF matchChild(NodeAt(tree, n), part) = 0 THEN part
  ELSE NodeAt(tree, n).children[matchChild(NodeAt(tree, n), part)]

LEMMA ChosenIsSegment ==
  ASSUME NEW tree, Grown(tree), NEW n, NEW part \in Segments
  PROVE  Chosen(tree, n, part) \in Segments
<1> DEFINE kids == NodeAt(tree, n).children
           I == {i \in 1..Len(kids) : Matching(kids[i], part)}
<1>1. kids \in Seq(Segments) /\ Len(kids) \in Nat
  BY NodeAtFacts, SeqFacts
<1>2. matchChild(NodeAt(tree, n), part) = IF I # {} THEN Min(I) ELSE 0
  BY DEF matchChild, SelectInSeq
<1>3. I # {} => Min(I) \in 1..Len(kids)
  BY <1>1, FirstIsOne
<1>4. matchChild(NodeAt(tree, n), part) # 0 => matchChild(NodeAt(tree, n), part) \in 1..Len(kids)
  BY <1>2, <1>3
<1> QED
  BY <1>1, <1>4 DEF Chosen

\* The labels that insert visits, one part longer each.
LEMMA VisitedFacts ==
  ASSUME NEW tree, Grown(tree), NEW parts \in Seq(Segments)
  PROVE  /\ DOMAIN Visited(tree, parts) = 0..Len(parts)
         /\ Visited(tree, parts)[0] = <<>>
         /\ \A h \in 0..Len(parts) : Visited(tree, parts)[h] \in Seq(Segments)
         /\ \A h \in 0..Len(parts) : Len(Visited(tree, parts)[h]) = h
         /\ \A h \in 1..Len(parts) : Front(Visited(tree, parts)[h]) = Visited(tree, parts)[h - 1]
         /\ \A h \in 1..Len(parts) :
              LET n == Visited(tree, parts)[h - 1]
              IN  Visited(tree, parts)[h] = Append(n, Chosen(tree, n, parts[h]))
<1> DEFINE N == Len(parts)
           S == Seq(Segments)
           Step(h, n) == Append(n, Chosen(tree, n, parts[h]))
           Is(f) == f = [h \in 0..N |->
                          IF h = 0 THEN <<>>
                          ELSE LET n   == f[h - 1]
                                   old == matchChild(NodeAt(tree, n), parts[h])
                               IN  Append(n, IF old = 0 THEN parts[h]
                                             ELSE NodeAt(tree, n).children[old])]
           F == [h \in 1..N |-> [n \in S |-> Step(h, n)]]
           at == CHOOSE f : Is(f)
<1>1. Visited(tree, parts) = at
  BY DEF Visited
<1>2. N \in Nat /\ \A i \in 1..N : parts[i] \in Segments
  BY SeqFacts
<1>3. <<>> \in S
  OBVIOUS
<1> HIDE DEF N
<1>4. \A i \in 1..N, n \in S : /\ Step(i, n) \in S
                               /\ Len(Step(i, n)) = Len(n) + 1
                               /\ Front(Step(i, n)) = n
  <2> SUFFICES ASSUME NEW i \in 1..N, NEW n \in S
               PROVE  Step(i, n) \in S /\ Len(Step(i, n)) = Len(n) + 1 /\ Front(Step(i, n)) = n
    OBVIOUS
  <2>1. Chosen(tree, n, parts[i]) \in Segments
    BY <1>2, ChosenIsSegment
  <2> QED
    BY <2>1, AppendFacts
<1> HIDE DEF S
<1>5. F \in [1..N -> [S -> S]]
  BY <1>4
<1>6. \A i \in 1..N, n \in S : F[i][n] = Step(i, n)
  OBVIOUS
<1> HIDE DEF F
<1>7. PICK g : Continues(g, S, <<>>, F, N)
  BY <1>2, <1>3, <1>5, Continued
<1>8. g \in [0..N -> S] /\ g[0] = <<>> /\ \A i \in 1..N : g[i] = Step(i, g[i - 1])
  <2>1. g \in [0..N -> S] /\ g[0] = <<>> /\ \A i \in 1..N : g[i] = F[i][g[i - 1]]
    BY <1>7 DEF Continues
  <2>2. \A i \in 1..N : i - 1 \in 0..N
    BY <1>2
  <2>3. \A i \in 1..N : g[i - 1] \in S
    BY <2>1, <2>2
  <2> HIDE DEF Step
  <2> QED
    BY <1>6, <2>1, <2>3
<1>9. \A f : Is(f) <=> f = [h \in 0..N |-> IF h = 0 THEN <<>> ELSE Step(h, f[h - 1])]
  BY Zenon DEF Chosen
<1>10. Is(g)
  <2>1. \A i \in 0..N : i = 0 \/ i \in 1..N
    BY <1>2
  <2> HIDE DEF Step, Is
  <2>2. \A i \in 0..N : g[i] = IF i = 0 THEN <<>> ELSE Step(i, g[i - 1])
    BY <1>8, <2>1
  <2>3. g = [i \in 0..N |-> g[i]]
    BY <1>8
  <2>4. g = [h \in 0..N |-> IF h = 0 THEN <<>> ELSE Step(h, g[h - 1])]
    BY <2>2, <2>3
  <2> QED
    BY <1>9, <2>4
<1>11. Is(at)
  <2> HIDE DEF Is
  <2> QED
    BY <1>10
<1> HIDE DEF at, Is
<1>12. DOMAIN at = 0..N /\ at[0] = <<>> /\ \A i \in 1..N : at[i] = Step(i, at[i - 1])
  <2> HIDE DEF Step
  <2>1. at = [h \in 0..N |-> IF h = 0 THEN <<>> ELSE Step(h, at[h - 1])]
    BY <1>9, <1>11
  <2>2. \A i \in 0..N : at[i] = IF i = 0 THEN <<>> ELSE Step(i, at[i - 1])
    BY <2>1, Zenon
  <2>3. 0 \in 0..N /\ \A i \in 1..N : i \in 0..N /\ i # 0
    BY <1>2
  <2>4. DOMAIN at = 0..N
    BY <2>1, Zenon
  <2> QED
    BY <2>2, <2>3, <2>4, Zenon
<1> DEFINE T == {i \in 0..N : at[i] \in S /\ Len(at[i]) = i}
<1>13. 0 \in T
  <2>1. Len(<<>>) = 0 /\ 0 \in 0..N
    BY <1>2
  <2> QED
    BY <1>3, <1>12, <2>1
<1>14. ASSUME NEW i \in 1..N, i - 1 \in T
       PROVE  i \in T
  <2>1. at[i] = Step(i, at[i - 1]) /\ at[i - 1] \in S /\ Len(at[i - 1]) = i - 1
    BY <1>12, <1>14
  <2> HIDE DEF Step
  <2>2. at[i] \in S /\ Len(at[i]) = (i - 1) + 1
    BY <1>4, <2>1
  <2>3. i \in 0..N /\ (i - 1) + 1 = i
    BY <1>2
  <2> QED
    BY <2>2, <2>3
<1>15. \A i \in 0..N : at[i] \in S /\ Len(at[i]) = i
  <2> HIDE DEF T
  <2>1. \A i \in 0..N : i \in T
    BY <1>2, <1>13, <1>14, Induction
  <2> QED
    BY <2>1 DEF T
<1>16. ASSUME NEW i \in 1..N
       PROVE  Front(at[i]) = at[i - 1]
  <2>1. i - 1 \in 0..N
    BY <1>2
  <2>2. at[i] = Step(i, at[i - 1]) /\ at[i - 1] \in S
    BY <1>12, <1>15, <2>1
  <2> HIDE DEF Step
  <2> QED
    BY <1>4, <2>2
<1>17. \A i \in 1..N : at[i] = Append(at[i - 1], Chosen(tree, at[i - 1], parts[i]))
  BY <1>12
<1> HIDE DEF Step
<1> QED
  BY <1>1, <1>12, <1>15, <1>16, <1>17 DEF N, S

\* What insert leaves at a node: the new pattern at the end of its way, and
\* elsewhere what was there.
LEMMA InsertFacts ==
  ASSUME NEW tree, Grown(tree), NEW pattern \in Seq(Segments)
  PROVE  /\ Grown(insert(tree, pattern))
         /\ \A n \in DOMAIN insert(tree, pattern) :
              LET new == insert(tree, pattern)[n].pattern
              IN  new \in {NoPattern, pattern} \/ (n \in DOMAIN tree /\ new = tree[n].pattern)
<1> DEFINE parts == parsePattern(pattern)
           N     == Len(parts)
           at    == Visited(tree, parts)
           D     == DOMAIN tree \cup {at[h] : h \in DOMAIN at}
           Added(n) == /\ Len(n) < Len(parts)
                       /\ at[Len(n)] = n
                       /\ at[Len(n) + 1] \notin DOMAIN tree
           Pattern(n) == IF n = at[N] THEN pattern ELSE NodeAt(tree, n).pattern
           Kids(n) == IF Added(n) THEN Append(NodeAt(tree, n).children, Last(at[Len(n) + 1]))
                      ELSE NodeAt(tree, n).children
           new   == insert(tree, pattern)
<1>1. new = [n \in D |-> [pattern |-> Pattern(n), children |-> Kids(n)]]
  BY DEF insert
<1>2. parts \in Seq(Segments) /\ N \in Nat
  BY PartsArePath
<1>3. /\ DOMAIN at = 0..N /\ at[0] = <<>>
      /\ \A h \in 0..N : at[h] \in Seq(Segments) /\ Len(at[h]) = h
      /\ \A h \in 1..N : Front(at[h]) = at[h - 1]
  BY <1>2, VisitedFacts
<1> HIDE DEF at, parts, new
<1>4. /\ DOMAIN new = D
      /\ \A n \in D : new[n].pattern = Pattern(n) /\ new[n].children = Kids(n)
  BY <1>1
<1>5. D \subseteq Seq(Segments) /\ <<>> \in D
  BY <1>3 DEF Grown
<1>6. ASSUME NEW n \in D
      PROVE  n = <<>> \/ Front(n) \in D
  <2>1. CASE n \in DOMAIN tree
    BY <2>1 DEF Grown
  <2>2. CASE n \notin DOMAIN tree
    <3>1. PICK h \in 0..N : n = at[h]
      BY <1>3, <2>2
    <3>2. CASE h = 0
      BY <1>3, <3>1, <3>2
    <3>3. CASE h # 0
      <4>1. h \in 1..N /\ h - 1 \in 0..N
        BY <1>2, <3>3
      <4> QED
        BY <1>3, <3>1, <4>1
    <3> QED
      BY <3>2, <3>3
  <2> QED
    BY <2>1, <2>2
<1>7. ASSUME NEW n \in D
      PROVE  /\ Pattern(n) \in Seq(Segments)
             /\ Pattern(n) # NoPattern => Len(parsePattern(Pattern(n))) = Len(n)
             /\ Pattern(n) \in {NoPattern, pattern}
                  \/ (n \in DOMAIN tree /\ Pattern(n) = tree[n].pattern)
  <2>1. CASE n = at[N]
    <3>1. N \in 0..N
      BY <1>2
    <3>2. Len(n) = N
      BY <1>3, <2>1, <3>1
    <3> QED
      BY <2>1, <3>2 DEF parts
  <2>2. CASE n # at[N] /\ n \in DOMAIN tree
    BY <2>2 DEF Grown, NodeAt
  <2>3. CASE n # at[N] /\ n \notin DOMAIN tree
    BY <2>3 DEF NodeAt, NewNode, NoPattern
  <2> QED
    BY <2>1, <2>2, <2>3
<1>8. ASSUME NEW n \in D
      PROVE  /\ Kids(n) \in Seq(Segments)
             /\ \A i \in 1..Len(Kids(n)) : Append(n, Kids(n)[i]) \in D
  <2> DEFINE old == NodeAt(tree, n).children
  <2>1. old \in Seq(Segments) /\ Len(old) \in Nat
    BY NodeAtFacts, SeqFacts
  <2>2. \A i \in 1..Len(old) : Append(n, old[i]) \in D
    <3>1. CASE n \in DOMAIN tree
      BY <3>1 DEF Grown, NodeAt
    <3>2. CASE n \notin DOMAIN tree
      <4>1. old = <<>>
        BY <3>2 DEF NodeAt, NewNode
      <4>2. 1..Len(old) = {}
        BY <4>1
      <4> QED
        BY <4>2
    <3> QED
      BY <3>1, <3>2
  <2> HIDE DEF old, D
  <2>3. CASE ~Added(n)
    <3>1. Kids(n) = old
      BY <2>3 DEF old
    <3> QED
      BY <2>1, <2>2, <3>1
  <2>4. CASE Added(n)
    <3> DEFINE h == Len(n) + 1
               x == Last(at[h])
    <3>0. Kids(n) = Append(old, x)
      BY <2>4 DEF old
    <3>1. h \in 1..N /\ h - 1 = Len(n) /\ h \in 0..N
      <4>1. n \in Seq(Segments)
        BY <1>5
      <4>2. Len(n) \in Nat
        BY <4>1, SeqFacts
      <4> QED
        BY <1>2, <2>4, <4>2
    <3>2. at[h] \in Seq(Segments) /\ Len(at[h]) = h /\ Front(at[h]) = n
      BY <1>3, <2>4, <3>1
    <3> HIDE DEF h
    <3>3. x \in Segments
      <4>1. h \in 1..Len(at[h])
        BY <1>2, <3>1, <3>2
      <4> QED
        BY <3>2, <4>1, SeqFacts DEF Last
    <3>4. Append(n, x) = at[h]
      BY <3>1, <3>2, AppendBack
    <3>5. at[h] \in D
      BY <1>3, <3>1 DEF D
    <3> HIDE DEF x
    <3>6. /\ Append(old, x) \in Seq(Segments) /\ Len(Append(old, x)) = Len(old) + 1
          /\ Append(old, x)[Len(old) + 1] = x
          /\ \A i \in 1..Len(old) : Append(old, x)[i] = old[i]
      BY <2>1, <3>3, AppendElements
    <3>7. \A i \in 1..(Len(old) + 1) : i = Len(old) + 1 \/ i \in 1..Len(old)
      BY <2>1
    <3> HIDE DEF Added, Kids
    <3>8. ASSUME NEW i \in 1..(Len(old) + 1)
          PROVE  Append(n, Append(old, x)[i]) \in D
      BY <2>2, <3>4, <3>5, <3>6, <3>7
    <3> QED
      BY <3>0, <3>6, <3>8
  <2> QED
    BY <2>3, <2>4
<1> HIDE DEF D, Kids, Pattern
<1>9. Grown(new)
  BY <1>4, <1>5, <1>6, <1>7, <1>8 DEF Grown
<1>10. \A n \in DOMAIN new : \/ new[n].pattern \in {NoPattern, pattern}
                             \/ n \in DOMAIN tree /\ new[n].pattern = tree[n].pattern
  BY <1>4, <1>7
<1> QED
  BY <1>9, <1>10 DEF new
-----------------------------------------------------------------------------
(* What search finds                                                       *)

Reach(tree, parts) == {n \in DOMAIN tree : Len(n) <= Len(parts)}

\* What is found at a node by way of its children.
Below(tree, parts, found, n) ==
  LET kids == tree[n].children
      hit  == SelectInSeq(kids, LAMBDA c : /\ Matching(c, parts[Len(n) + 1])
                                           /\ found[Append(n, c)] # NoPattern)
  IN  IF hit = 0 THEN NoPattern ELSE found[Append(n, kids[hit])]

At(tree, parts, found, n) ==
  IF AtEnd(n, parts) THEN tree[n].pattern ELSE Below(tree, parts, found, n)

Finds(tree, parts, found) ==
  found = [n \in Reach(tree, parts) |-> At(tree, parts, found, n)]

\* The children of a node above the path's end are in reach, one part deeper.
LEMMA ChildInReach ==
  ASSUME NEW tree, Grown(tree), NEW parts \in Seq(Segments),
         NEW n \in Reach(tree, parts), ~AtEnd(n, parts)
  PROVE  \A i \in 1..Len(tree[n].children) :
           /\ Append(n, tree[n].children[i]) \in Reach(tree, parts)
           /\ Len(Append(n, tree[n].children[i])) = Len(n) + 1
<1>1. n \in DOMAIN tree /\ Len(n) <= Len(parts) /\ n \in Seq(Segments)
  BY DEF Reach, Grown
<1>2. Len(n) \in Nat /\ Len(parts) \in Nat /\ Len(n) # Len(parts)
  BY <1>1, SeqFacts DEF AtEnd
<1> DEFINE kids == tree[n].children
<1>3. kids \in Seq(Segments) /\ \A i \in 1..Len(kids) : Append(n, kids[i]) \in DOMAIN tree
  BY <1>1 DEF Grown
<1> HIDE DEF kids
<1>4. ASSUME NEW i \in 1..Len(kids)
      PROVE  Append(n, kids[i]) \in Reach(tree, parts) /\ Len(Append(n, kids[i])) = Len(n) + 1
  <2>1. kids[i] \in Segments
    BY <1>3, SeqFacts
  <2>2. Len(Append(n, kids[i])) = Len(n) + 1
    BY <1>1, <2>1, AppendElements
  <2> QED
    BY <1>2, <1>1, <1>3, <2>2 DEF Reach
<1> QED
  BY <1>4 DEF kids

\* The search below a node ends in one of its children, and depends on what
\* is found there only.
LEMMA BelowFacts ==
  ASSUME NEW tree, Grown(tree), NEW parts \in Seq(Segments),
         NEW n \in Reach(tree, parts), NEW f
  PROVE  \/ Below(tree, parts, f, n) = NoPattern
         \/ \E i \in 1..Len(tree[n].children) :
              Below(tree, parts, f, n) = f[Append(n, tree[n].children[i])]
<1> DEFINE kids == tree[n].children
           I == {i \in 1..Len(kids) : /\ Matching(kids[i], parts[Len(n) + 1])
                                      /\ f[Append(n, kids[i])] # NoPattern}
           hit == SelectInSeq(kids, LAMBDA c : /\ Matching(c, parts[Len(n) + 1])
                                               /\ f[Append(n, c)] # NoPattern)
<1>1. Below(tree, parts, f, n) = IF hit = 0 THEN NoPattern ELSE f[Append(n, kids[hit])]
  BY DEF Below
<1>2. hit = IF I # {} THEN Min(I) ELSE 0
  BY DEF SelectInSeq
<1>3. Len(kids) \in Nat
  BY SeqFacts DEF Grown, Reach
<1> HIDE DEF kids, hit
<1>4. I # {} => Min(I) \in 1..Len(kids)
  BY <1>3, FirstIsOne
<1> HIDE DEF I
<1> QED
  BY <1>1, <1>2, <1>4 DEF kids

LEMMA BelowSame ==
  ASSUME NEW tree, Grown(tree), NEW parts \in Seq(Segments),
         NEW n \in Reach(tree, parts), NEW f, NEW g,
         \A i \in 1..Len(tree[n].children) :
           f[Append(n, tree[n].children[i])] = g[Append(n, tree[n].children[i])]
  PROVE  Below(tree, parts, f, n) = Below(tree, parts, g, n)
<1> DEFINE kids == tree[n].children
           I(h) == {i \in 1..Len(kids) : /\ Matching(kids[i], parts[Len(n) + 1])
                                         /\ h[Append(n, kids[i])] # NoPattern}
           hit(h) == SelectInSeq(kids, LAMBDA c : /\ Matching(c, parts[Len(n) + 1])
                                                  /\ h[Append(n, c)] # NoPattern)
<1>1. \A h : Below(tree, parts, h, n) = IF hit(h) = 0 THEN NoPattern ELSE h[Append(n, kids[hit(h)])]
  BY DEF Below
<1>2. \A h : hit(h) = IF I(h) # {} THEN Min(I(h)) ELSE 0
  BY DEF SelectInSeq
<1>3. Len(kids) \in Nat
  BY SeqFacts DEF Grown, Reach
<1>4. I(f) = I(g)
  OBVIOUS
<1> HIDE DEF hit
<1>5. I(f) # {} => Min(I(f)) \in 1..Len(kids)
  BY <1>3, FirstIsOne
<1> HIDE DEF I
<1>6. hit(f) = hit(g) /\ (hit(f) = 0 \/ hit(f) \in 1..Len(kids))
  BY <1>2, <1>4, <1>5
<1> QED
  BY <1>1, <1>6

\* The recursion ends, for no path has more parts than it has.
LEMMA SearchDefined ==
  ASSUME NEW tree, Grown(tree), NEW parts \in Seq(Segments)
  PROVE  \E f : Finds(tree, parts, f)
<1> DEFINE N == Len(parts)
           D == Reach(tree, parts)
           From(f, h) == /\ DOMAIN f = D
                         /\ f = [n \in D |-> f[n]]
                         /\ \A n \in D : Len(n) >= N - h => f[n] = At(tree, parts, f, n)
           T == {h \in 0..N : \E f : From(f, h)}
<1>1. N \in Nat
  BY SeqFacts
<1>2. \A n \in D : Len(n) \in Nat /\ Len(n) <= N
  BY SeqFacts DEF Reach, Grown
<1> HIDE DEF D, N
<1>3. 0 \in T
  <2> DEFINE f == [n \in D |-> tree[n].pattern]
  <2>1. \A n \in D : Len(n) >= N - 0 => AtEnd(n, parts)
    BY <1>1, <1>2 DEF AtEnd, N
  <2>2. From(f, 0)
    BY <2>1 DEF At
  <2> HIDE DEF f, From
  <2> QED
    BY <1>1, <2>2
<1>4. ASSUME NEW h \in 1..N, h - 1 \in T
      PROVE  h \in T
  <2>1. PICK f : From(f, h - 1)
    BY <1>4
  <2> DEFINE g == [n \in D |-> IF Len(n) >= N - h THEN At(tree, parts, f, n) ELSE f[n]]
  <2>2. ASSUME NEW n \in D, Len(n) >= N - h
        PROVE  g[n] = At(tree, parts, g, n)
    <3>1. g[n] = At(tree, parts, f, n)
      BY <2>2
    <3>2. CASE AtEnd(n, parts)
      BY <3>1, <3>2 DEF At
    <3>3. CASE ~AtEnd(n, parts)
      <4> DEFINE kids == tree[n].children
      <4>1. ASSUME NEW i \in 1..Len(kids)
            PROVE  f[Append(n, kids[i])] = g[Append(n, kids[i])]
        <5> DEFINE k == Append(n, kids[i])
        <5>1. k \in D /\ Len(k) = Len(n) + 1
          BY <3>3, ChildInReach DEF D
        <5> HIDE DEF k
        <5>2. Len(k) >= N - h /\ Len(k) >= N - (h - 1)
          BY <1>1, <1>2, <2>2, <5>1
        <5>3. f[k] = At(tree, parts, f, k)
          BY <2>1, <5>1, <5>2
        <5>4. g[k] = At(tree, parts, f, k)
          BY <5>1, <5>2
        <5> QED
          BY <5>3, <5>4 DEF k
      <4>2. n \in Reach(tree, parts)
        BY <2>2 DEF D
      <4> HIDE DEF g
      <4>3. Below(tree, parts, f, n) = Below(tree, parts, g, n)
        BY <4>1, <4>2, BelowSame
      <4> QED
        BY <3>1, <3>3, <4>3 DEF At
    <3> QED
      BY <3>2, <3>3
  <2>3. From(g, h)
    <3>1. DOMAIN g = D
      OBVIOUS
    <3> HIDE DEF g
    <3>2. g = [n \in D |-> g[n]]
      BY DEF g
    <3> QED
      BY <2>2, <3>1, <3>2
  <2> HIDE DEF g, From
  <2> QED
    BY <1>1, <2>3
<1>5. N \in T
  <2> HIDE DEF T
  <2>1. \A h \in 0..N : h \in T
    BY <1>1, <1>3, <1>4, Induction
  <2> QED
    BY <1>1, <2>1
<1>6. PICK f : From(f, N)
  BY <1>5
<1>7. \A n \in D : f[n] = At(tree, parts, f, n)
  BY <1>1, <1>2, <1>6
<1>8. f = [n \in D |-> At(tree, parts, f, n)]
  BY <1>6, <1>7
<1> QED
  BY <1>8 DEF Finds, D

\* search finds the pattern of a node that is no deeper than the path.
LEMMA SearchFacts ==
  ASSUME NEW tree, Grown(tree), NEW parts \in Seq(Segments)
  PROVE  \/ search(tree, parts) = NoPattern
         \/ \E n \in DOMAIN tree : Len(n) <= Len(parts) /\ search(tree, parts) = tree[n].pattern
<1> DEFINE N == Len(parts)
           D == Reach(tree, parts)
           found == CHOOSE f : Finds(tree, parts, f)
           Outcomes == {NoPattern} \cup {tree[n].pattern : n \in D}
           T == {h \in 0..N : \A n \in D : Len(n) >= N - h => found[n] \in Outcomes}
<1>1. search(tree, parts) = found[<<>>]
  BY DEF search, Finds, Reach, At, Below
<1>2. Finds(tree, parts, found)
  BY SearchDefined
<1>3. N \in Nat /\ \A n \in D : Len(n) \in Nat /\ Len(n) <= N
  BY SeqFacts DEF Reach, Grown
<1> HIDE DEF found
<1>4. \A n \in D : found[n] = At(tree, parts, found, n)
  BY <1>2, Zenon DEF Finds
<1> HIDE DEF D, N
<1>5. \A n \in D : tree[n].pattern \in Outcomes
  OBVIOUS
<1>6. NoPattern \in Outcomes
  OBVIOUS
<1> HIDE DEF Outcomes
<1>7. 0 \in T
  <2>1. \A n \in D : Len(n) >= N - 0 => AtEnd(n, parts)
    BY <1>3 DEF AtEnd, N
  <2> QED
    BY <1>3, <1>4, <1>5, <2>1 DEF At
<1>8. ASSUME NEW h \in 1..N, h - 1 \in T
      PROVE  h \in T
  <2>1. ASSUME NEW n \in D, Len(n) >= N - h
        PROVE  found[n] \in Outcomes
    <3>1. CASE AtEnd(n, parts)
      BY <1>4, <1>5, <3>1 DEF At
    <3>2. CASE ~AtEnd(n, parts)
      <4> DEFINE kids == tree[n].children
      <4>1. ASSUME NEW i \in 1..Len(kids)
            PROVE  found[Append(n, kids[i])] \in Outcomes
        <5> DEFINE k == Append(n, kids[i])
        <5>1. k \in D /\ Len(k) = Len(n) + 1
          BY <3>2, ChildInReach DEF D
        <5> HIDE DEF k
        <5>2. Len(k) >= N - (h - 1)
          BY <1>3, <2>1, <5>1
        <5> QED
          BY <1>8, <5>1, <5>2 DEF k
      <4>2. found[n] = Below(tree, parts, found, n)
        BY <1>4, <3>2 DEF At
      <4>3. \/ Below(tree, parts, found, n) = NoPattern
            \/ \E i \in 1..Len(kids) : Below(tree, parts, found, n) = found[Append(n, kids[i])]
        BY BelowFacts DEF D
      <4> QED
        BY <1>6, <4>1, <4>2, <4>3
    <3> QED
      BY <3>1, <3>2
  <2> QED
    BY <1>3, <2>1
<1>9. N \in T
  <2> HIDE DEF T
  <2>1. \A h \in 0..N : h \in T
    BY <1>3, <1>7, <1>8, Induction
  <2> QED
    BY <1>3, <2>1
<1>10. <<>> \in D
  <2>1. Len(<<>>) = 0
    OBVIOUS
  <2>2. <<>> \in DOMAIN tree
    BY DEF Grown
  <2> QED
    BY <1>3, <2>1, <2>2 DEF Reach, D, N
<1>11. found[<<>>] \in Outcomes
  BY <1>3, <1>9, <1>10
<1> QED
  BY <1>1, <1>11 DEF Outcomes, D, Reach
-----------------------------------------------------------------------------
(* The engine                                                              *)

GroupsOK ==
  /\ groups \in Seq([prefix : Seq(Segments), middlewares : Seq(Kinds), parent : Nat])
  /\ \A g \in DOMAIN groups : groups[g].parent \in 0..(g - 1)

RoutesOK ==
  /\ routes \in Seq([method : Methods, pattern : Seq(Segments), group : Nat])
  /\ \A k \in DOMAIN handlers : handlers[k].group \in DOMAIN groups

\* Every pattern in a tree was registered, and has a handler.
Registered(mt, pattern) ==
  Key(mt, pattern) \in DOMAIN handlers /\ \E i \in Routes(mt) : routes[i].pattern = pattern

TreesOK ==
  /\ roots \in [Methods -> {roots[mt] : mt \in Methods}]
  /\ \A mt \in Methods : roots[mt] # NoTree =>
       /\ Grown(roots[mt])
       /\ \A n \in DOMAIN roots[mt] :
            roots[mt][n].pattern # NoPattern => Registered(mt, roots[mt][n].pattern)

EngineInv == GroupsOK /\ RoutesOK /\ TreesOK

LEMMA InitEngine == Init => EngineInv
<1> SUFFICES ASSUME Init PROVE EngineInv
  OBVIOUS
<1> DEFINE first == [prefix |-> <<>>, middlewares |-> <<>>, parent |-> 0]
<1>1. groups = <<first>> /\ handlers = NoRoutes /\ routes = <<>>
      /\ roots = [mt \in Methods |-> NoTree]
  BY DEF Init
<1>2. first \in [prefix : Seq(Segments), middlewares : Seq(Kinds), parent : Nat] /\ first.parent = 0
  OBVIOUS
<1> HIDE DEF first
<1>3. GroupsOK
  BY <1>1, <1>2 DEF GroupsOK
<1>4. RoutesOK
  BY <1>1 DEF RoutesOK, NoRoutes
<1>5. TreesOK
  BY <1>1 DEF TreesOK
<1> QED
  BY <1>3, <1>4, <1>5 DEF EngineInv

LEMMA GroupEngine ==
  ASSUME EngineInv, NEW g \in DOMAIN groups, NEW prefix \in GroupPrefixes, Group(g, prefix)
  PROVE  EngineInv'
<1> DEFINE S == [prefix : Seq(Segments), middlewares : Seq(Kinds), parent : Nat]
           more == [prefix |-> groups[g].prefix \o prefix, middlewares |-> <<>>, parent |-> g]
<1>1. /\ groups' = Append(groups, more)
      /\ UNCHANGED <<roots, handlers, routes>>
  BY DEF Group
<1>2. groups \in Seq(S) /\ Len(groups) \in Nat /\ DOMAIN groups = 1..Len(groups)
      /\ \A h \in DOMAIN groups : groups[h].parent \in 0..(h - 1)
  BY SeqFacts DEF EngineInv, GroupsOK
<1> HIDE DEF S
<1>3. g \in 1..Len(groups) /\ groups[g] \in S
  BY <1>2, SeqFacts
<1>4. more \in S /\ more.parent = g
  <2>1. prefix \in Seq(Segments) /\ groups[g].prefix \in Seq(Segments)
    BY <1>3, GeeAssumption DEF S
  <2>2. groups[g].prefix \o prefix \in Seq(Segments)
    BY <2>1, ConcatProperties
  <2> QED
    BY <1>3, <2>2 DEF S
<1> HIDE DEF more
<1>5. /\ groups' \in Seq(S) /\ Len(groups') = Len(groups) + 1
      /\ groups'[Len(groups) + 1] = more
      /\ \A h \in 1..Len(groups) : groups'[h] = groups[h]
  BY <1>1, <1>2, <1>4, AppendElements
<1>6. DOMAIN groups' = 1..(Len(groups) + 1)
  BY <1>5
<1>7. \A h \in 1..(Len(groups) + 1) : h \in 1..Len(groups) \/ h = Len(groups) + 1
  BY <1>2
<1>8. GroupsOK'
  <2>1. \A h \in DOMAIN groups' : groups'[h].parent \in 0..(h - 1)
    BY <1>2, <1>3, <1>4, <1>5, <1>6, <1>7
  <2> QED
    BY <1>5, <2>1 DEF GroupsOK, S
<1>9. RoutesOK'
  <2>1. DOMAIN groups \subseteq DOMAIN groups'
    BY <1>2, <1>6
  <2> QED
    BY <1>1, <2>1 DEF EngineInv, RoutesOK
<1>10. TreesOK'
  BY <1>1 DEF EngineInv, TreesOK, Registered, Routes, Key
<1> QED
  BY <1>8, <1>9, <1>10 DEF EngineInv

LEMMA UseEngine ==
  ASSUME EngineInv, NEW g \in DOMAIN groups, NEW kind \in Kinds, Use(g, kind)
  PROVE  EngineInv'
<1> DEFINE S == [prefix : Seq(Segments), middlewares : Seq(Kinds), parent : Nat]
           new == [groups[g] EXCEPT !.middlewares = Append(@, kind)]
<1>1. /\ groups' = [groups EXCEPT ![g].middlewares = Append(@, kind)]
      /\ UNCHANGED <<roots, handlers, routes>>
  BY DEF Use
<1>2. groups \in Seq(S) /\ Len(groups) \in Nat /\ DOMAIN groups = 1..Len(groups)
      /\ \A h \in DOMAIN groups : groups[h].parent \in 0..(h - 1)
  BY SeqFacts DEF EngineInv, GroupsOK
<1> HIDE DEF S
<1>3. groups[g] \in S
  BY <1>2, SeqFacts
<1>4. new \in S /\ new.parent = groups[g].parent
  <2>1. Append(groups[g].middlewares, kind) \in Seq(Kinds)
    BY <1>3 DEF S
  <2> QED
    BY <1>3, <2>1 DEF S
<1>5. groups' = [groups EXCEPT ![g] = new]
  BY <1>1
<1> HIDE DEF new
<1>6. groups' \in Seq(S) /\ DOMAIN groups' = DOMAIN groups
  BY <1>2, <1>4, <1>5, ExceptSeq
<1>7. \A h \in DOMAIN groups : groups'[h].parent = groups[h].parent
  BY <1>4, <1>5
<1>8. GroupsOK'
  BY <1>2, <1>6, <1>7 DEF GroupsOK, S
<1>9. RoutesOK' /\ TreesOK'
  BY <1>1, <1>6 DEF EngineInv, RoutesOK, TreesOK, Registered, Routes, Key
<1> QED
  BY <1>8, <1>9 DEF EngineInv

LEMMA AddRouteEngine ==
  ASSUME EngineInv, NEW g \in DOMAIN groups, NEW method \in Methods,
         NEW comp \in Seq(Segments), AddRoute(g, method, comp)
  PROVE  EngineInv'
<1> DEFINE S       == [method : Methods, pattern : Seq(Segments), group : Nat]
           pattern == groups[g].prefix \o comp
           key     == Key(method, pattern)
           tree    == IF roots[method] = NoTree THEN RootOnly ELSE roots[method]
           route   == [method |-> method, pattern |-> pattern, group |-> g]
<1>1. /\ roots' = [roots EXCEPT ![method] = insert(tree, pattern)]
      /\ handlers' = [k \in DOMAIN handlers \cup {key} |->
                        IF k = key THEN [group |-> g, kind |-> "route"] ELSE handlers[k]]
      /\ routes' = Append(routes, route)
      /\ groups' = groups
  BY DEF AddRoute
<1>2. g \in Nat /\ pattern \in Seq(Segments)
  <2> DEFINE G == [prefix : Seq(Segments), middlewares : Seq(Kinds), parent : Nat]
  <2>1. groups \in Seq(G)
    BY DEF EngineInv, GroupsOK
  <2> HIDE DEF G
  <2>2. groups[g] \in G /\ g \in Nat
    BY <2>1, SeqFacts
  <2>3. groups[g].prefix \in Seq(Segments)
    BY <2>2 DEF G
  <2> QED
    BY <2>2, <2>3, ConcatProperties
<1>3. routes \in Seq(S) /\ route \in S /\ route.pattern = pattern /\ route.method = method
  BY <1>2 DEF EngineInv, RoutesOK
<1> HIDE DEF S, pattern, route
<1>4. /\ routes' \in Seq(S) /\ Len(routes') = Len(routes) + 1 /\ Len(routes) \in Nat
      /\ routes'[Len(routes) + 1] = route
      /\ \A i \in 1..Len(routes) : routes'[i] = routes[i]
  BY <1>1, <1>3, AppendElements, SeqFacts
<1>5. /\ DOMAIN routes = 1..Len(routes) /\ DOMAIN routes' = 1..(Len(routes) + 1)
  BY <1>3, <1>4
<1>6. GroupsOK'
  BY <1>1 DEF EngineInv, GroupsOK
<1>7. RoutesOK'
  <2>1. \A k \in DOMAIN handlers' : handlers'[k].group \in DOMAIN groups
    BY <1>1 DEF EngineInv, RoutesOK
  <2> QED
    BY <1>1, <1>4, <2>1 DEF RoutesOK, S
<1> DEFINE Later(mt, q) ==
             /\ Key(mt, q) \in DOMAIN handlers'
             /\ \E i \in DOMAIN routes' : routes'[i].method = mt /\ routes'[i].pattern = q
<1>8. \A mt, q : Registered(mt, q) => Later(mt, q)
  <2> SUFFICES ASSUME NEW mt, NEW q, Registered(mt, q)
               PROVE  Later(mt, q)
    OBVIOUS
  <2>1. PICK i \in Routes(mt) : routes[i].pattern = q
    BY DEF Registered
  <2>2. i \in 1..Len(routes) /\ routes[i].method = mt
    BY <1>5, <2>1 DEF Routes
  <2>3. i \in DOMAIN routes' /\ routes'[i] = routes[i]
    BY <1>4, <1>5, <2>2
  <2>4. DOMAIN handlers \subseteq DOMAIN handlers'
    BY <1>1
  <2>5. Key(mt, q) \in DOMAIN handlers'
    BY <2>4 DEF Registered
  <2>6. \E j \in DOMAIN routes' : routes'[j].method = mt /\ routes'[j].pattern = q
    BY <2>1, <2>2, <2>3
  <2> QED
    BY <2>5, <2>6
<1>9. Later(method, pattern)
  <2>1. Key(method, pattern) \in DOMAIN handlers'
    BY <1>1
  <2>2. Len(routes) + 1 \in DOMAIN routes'
    BY <1>4, <1>5
  <2>3. \E j \in DOMAIN routes' : routes'[j].method = method /\ routes'[j].pattern = pattern
    BY <1>3, <1>4, <2>2
  <2> QED
    BY <2>1, <2>3
<1> HIDE DEF Later
<1>10. /\ Grown(tree)
       /\ \A n \in DOMAIN tree : tree[n].pattern # NoPattern => Registered(method, tree[n].pattern)
  <2>1. CASE roots[method] = NoTree
    BY <2>1, RootIsGrown DEF RootOnly, NewNode
  <2>2. CASE roots[method] # NoTree
    BY <2>2 DEF EngineInv, TreesOK
  <2> QED
    BY <2>1, <2>2
<1> DEFINE new == insert(tree, pattern)
<1> HIDE DEF tree
<1>11. /\ Grown(new)
       /\ \A n \in DOMAIN new : \/ new[n].pattern \in {NoPattern, pattern}
                                \/ n \in DOMAIN tree /\ new[n].pattern = tree[n].pattern
  BY <1>2, <1>10, InsertFacts
<1>12. DOMAIN roots = Methods /\ roots' = [roots EXCEPT ![method] = new]
  BY <1>1 DEF EngineInv, TreesOK
<1> HIDE DEF new
<1>13. ASSUME NEW mt \in Methods, roots'[mt] # NoTree
       PROVE  /\ Grown(roots'[mt])
              /\ \A n \in DOMAIN roots'[mt] :
                   roots'[mt][n].pattern # NoPattern => Later(mt, roots'[mt][n].pattern)
  <2>1. CASE mt = method
    <3>1. roots'[mt] = new
      BY <1>12, <2>1
    <3>2. ASSUME NEW n \in DOMAIN new, new[n].pattern # NoPattern
          PROVE  Later(mt, new[n].pattern)
      <4>1. CASE new[n].pattern = pattern
        BY <1>9, <2>1, <4>1
      <4>2. CASE new[n].pattern # pattern
        <5>1. n \in DOMAIN tree /\ new[n].pattern = tree[n].pattern
          BY <1>11, <3>2, <4>2
        <5>2. Registered(method, tree[n].pattern)
          BY <1>10, <3>2, <5>1
        <5> QED
          BY <1>8, <2>1, <5>1, <5>2
      <4> QED
        BY <4>1, <4>2
    <3> QED
      BY <1>11, <3>1, <3>2
  <2>2. CASE mt # method
    <3>1. roots'[mt] = roots[mt]
      BY <1>12, <2>2
    <3> QED
      BY <1>8, <1>13, <3>1 DEF EngineInv, TreesOK
  <2> QED
    BY <2>1, <2>2
<1>14. TreesOK'
  <2>1. roots' \in [Methods -> {roots'[mt] : mt \in Methods}]
    BY <1>12
  <2>2. \A mt, q : Later(mt, q) <=> Registered(mt, q)'
    BY DEF Later, Registered, Routes, Key
  <2> QED
    BY <1>13, <2>1, <2>2 DEF TreesOK
<1> QED
  BY <1>6, <1>7, <1>14 DEF EngineInv

LEMMA NextEngine ==
  ASSUME EngineInv, [Next]_vars
  PROVE  EngineInv'
<1>1. CASE UNCHANGED <<groups, roots, handlers, routes>>
  BY <1>1 DEF EngineInv, GroupsOK, RoutesOK, TreesOK, Registered, Routes, Key
<1>2. CASE Register
  <2>1. PICK g \in DOMAIN groups :
          \/ \E prefix \in GroupPrefixes : Group(g, prefix)
          \/ \E kind \in Kinds : Use(g, kind)
          \/ \E mt \in Methods, comp \in Comps : AddRoute(g, mt, comp)
          \/ \E comp \in Comps : Static(g, comp)
    BY <1>2 DEF Register
  <2>2. CASE \E prefix \in GroupPrefixes : Group(g, prefix)
    BY <2>2, GroupEngine
  <2>3. CASE \E kind \in Kinds : Use(g, kind)
    BY <2>3, UseEngine
  <2>4. CASE \E mt \in Methods, comp \in Comps : AddRoute(g, mt, comp)
    BY <2>4, AddRouteEngine, GeeAssumption
  <2>5. CASE \E comp \in Comps : Static(g, comp)
    <3>1. PICK comp \in Comps : Static(g, comp)
      BY <2>5
    <3>2. NonEmpty(comp) \in Seq(Segments) /\ Filepath \in Segments
      BY GeeAssumption, NonEmptyIsPath
    <3> DEFINE file == Append(NonEmpty(comp), Filepath)
    <3>3. file \in Seq(Segments)
      BY <3>2, AppendElements
    <3>4. AddRoute(g, "GET", file) /\ "GET" \in Methods
      BY <3>1, GeeAssumption DEF Static
    <3> HIDE DEF file
    <3> QED
      BY <3>3, <3>4, AddRouteEngine
  <2> QED
    BY <2>1, <2>2, <2>3, <2>4, <2>5
<1>3. CASE Run
  BY <1>1, <1>3 DEF Run
<1>4. CASE \E mt \in Methods, path \in Paths : ServeHTTP(mt, path)
  BY <1>1, <1>4 DEF ServeHTTP, setup
<1>5. CASE Serve /\ UNCHANGED <<setup, params>>
  BY <1>1, <1>5 DEF setup
<1>6. CASE UNCHANGED vars
  BY <1>1, <1>6 DEF vars, setup
<1> QED
  BY <1>2, <1>3, <1>4, <1>5, <1>6 DEF Next

LEMMA EngineInvariant == Spec => []EngineInv
BY InitEngine, NextEngine, PTL DEF Spec

\* The engine's variables keep their types: a group is nested in an earlier
\* one, every node of a tree hangs below another, and every handler belongs to
\* a group (gee.go:50-72, trie.go:35-51), for any segments and registrations.
THEOREM TypeCorrect == Spec => []TypeOK
<1>1. EngineInv /\ ContextTypeOK => TypeOK
  <2> SUFFICES ASSUME EngineInv, ContextTypeOK PROVE TypeOK
    OBVIOUS
  <2> DEFINE G == [prefix : Seq(Segments), middlewares : Seq(Kinds), parent : Nat]
  <2>1. \A g \in DOMAIN groups : /\ groups[g].parent \in 0..(g - 1)
                                 /\ groups[g].middlewares \in Seq(Kinds)
    <3>1. groups \in Seq(G) /\ \A g \in DOMAIN groups : groups[g].parent \in 0..(g - 1)
      BY DEF EngineInv, GroupsOK
    <3> HIDE DEF G
    <3>2. \A g \in DOMAIN groups : groups[g] \in G
      BY <3>1, SeqFacts
    <3> QED
      BY <3>1, <3>2 DEF G
  <2>2. \A mt \in Methods : \A n \in DOMAIN roots[mt] : n = <<>> \/ Front(n) \in DOMAIN roots[mt]
    <3> SUFFICES ASSUME NEW mt \in Methods, NEW n \in DOMAIN roots[mt]
                 PROVE  n = <<>> \/ Front(n) \in DOMAIN roots[mt]
      OBVIOUS
    <3>1. CASE roots[mt] = NoTree
      BY <3>1 DEF NoTree
    <3>2. CASE roots[mt] # NoTree
      BY <3>2 DEF EngineInv, TreesOK, Grown
    <3> QED
      BY <3>1, <3>2
  <2> QED
    BY <2>1, <2>2 DEF TypeOK, EngineInv, RoutesOK
<1> QED
  BY EngineInvariant, EngineRunsContexts, ContextTyped, <1>1, PTL

\* router.go:55-64, 73-77: what getRoute finds has a handler, and has no more
\* parts than the path, whatever was registered in whatever order.
THEOREM FoundHasHandler == Spec => []FoundIsServable
<1>1. EngineInv => FoundIsServable
  <2> SUFFICES ASSUME EngineInv, NEW mt \in Methods, NEW path \in Paths,
                      getRoute(roots[mt], path) # NoPattern
               PROVE  /\ Registered(mt, getRoute(roots[mt], path))
                      /\ Len(parsePattern(getRoute(roots[mt], path))) <= Len(parsePattern(path))
    BY Zenon DEF FoundIsServable, Registered
  <2> DEFINE tree  == roots[mt]
             parts == parsePattern(path)
  <2>1. tree # NoTree /\ getRoute(tree, path) = search(tree, parts)
    BY DEF getRoute
  <2>2. /\ Grown(tree)
        /\ \A n \in DOMAIN tree : tree[n].pattern # NoPattern => Registered(mt, tree[n].pattern)
    BY <2>1 DEF EngineInv, TreesOK
  <2>3. parts \in Seq(Segments) /\ Len(parts) \in Nat
    BY GeeAssumption, PartsArePath
  <2> HIDE DEF tree, parts
  <2>4. search(tree, parts) # NoPattern
    BY <2>1 DEF tree
  <2>5. PICK n \in DOMAIN tree : Len(n) <= Len(parts) /\ search(tree, parts) = tree[n].pattern
    BY <2>2, <2>3, <2>4, SearchFacts
  <2>6. Registered(mt, tree[n].pattern) /\ Len(parsePattern(tree[n].pattern)) = Len(n)
    BY <2>2, <2>4, <2>5 DEF Grown
  <2> QED
    BY <2>1, <2>5, <2>6 DEF tree, parts
<1> QED
  BY EngineInvariant, <1>1, PTL
-----------------------------------------------------------------------------
(* Beginnings of sequences                                                 *)

LEMMA Beginning ==
  ASSUME NEW S, NEW s \in Seq(S), NEW k \in 0..Len(s)
  PROVE  /\ SubSeq(s, 1, k) \in Seq(S)
         /\ Len(SubSeq(s, 1, k)) = k
         /\ \A i \in 1..k : SubSeq(s, 1, k)[i] = s[i]
<1>1. Len(s) \in Nat /\ k \in Nat /\ \A i \in 1..Len(s) : s[i] \in S
  BY SeqFacts
<1>2. \A i \in 1..k : s[i] \in S
  BY <1>1
<1> DEFINE f == SubSeq(s, 1, k)
<1>3. /\ f \in Seq(S)
      /\ Len(f) = IF 1 <= k THEN k - 1 + 1 ELSE 0
      /\ \A i \in 1..(k - 1 + 1) : f[i] = s[1 + i - 1]
  BY <1>1, <1>2, SubSeqProperties
<1> HIDE DEF f
<1>4. Len(f) = k /\ \A i \in 1..k : f[i] = s[i]
  BY <1>1, <1>3
<1> QED
  BY <1>3, <1>4 DEF f

LEMMA BeginningGrows ==
  ASSUME NEW S, NEW s \in Seq(S), NEW k \in 1..Len(s)
  PROVE  SubSeq(s, 1, k) = Append(SubSeq(s, 1, k - 1), s[k])
<1> DEFINE a == SubSeq(s, 1, k)
           b == SubSeq(s, 1, k - 1)
<1>1. Len(s) \in Nat /\ k \in 0..Len(s) /\ k - 1 \in 0..Len(s) /\ s[k] \in S
  BY SeqFacts
<1>2. /\ a \in Seq(S) /\ Len(a) = k /\ \A i \in 1..k : a[i] = s[i]
      /\ b \in Seq(S) /\ Len(b) = k - 1 /\ \A i \in 1..(k - 1) : b[i] = s[i]
  BY <1>1, Beginning
<1> HIDE DEF a, b
<1> DEFINE c == Append(b, s[k])
<1>3. c \in Seq(S) /\ Len(c) = Len(b) + 1 /\ c[Len(b) + 1] = s[k]
      /\ \A i \in 1..Len(b) : c[i] = b[i]
  BY <1>1, <1>2, AppendElements
<1> HIDE DEF c
<1>4. Len(c) = k /\ c[k] = s[k] /\ \A i \in 1..(k - 1) : c[i] = s[i]
  BY <1>1, <1>2, <1>3
<1>5. \A i \in 1..k : i = k \/ i \in 1..(k - 1)
  BY <1>1
<1>6. a = c
  <2>1. \A i \in 1..Len(a) : a[i] = c[i]
    BY <1>2, <1>4, <1>5
  <2> QED
    BY <1>2, <1>3, <1>4, <2>1, SeqEqual
<1> QED
  BY <1>6 DEF a, b, c

\* Two sequences with the same beginning have the same shorter beginnings.
LEMMA BeginningsAgree ==
  ASSUME NEW S, NEW s \in Seq(S), NEW t \in Seq(S), NEW k \in Nat, k <= Len(s), k <= Len(t)
  PROVE  SubSeq(s, 1, k) = SubSeq(t, 1, k) <=> \A i \in 1..k : s[i] = t[i]
<1> DEFINE a == SubSeq(s, 1, k)
           b == SubSeq(t, 1, k)
<1>1. k \in 0..Len(s) /\ k \in 0..Len(t)
  BY SeqFacts
<1>2. /\ a \in Seq(S) /\ Len(a) = k /\ \A i \in 1..k : a[i] = s[i]
      /\ b \in Seq(S) /\ Len(b) = k /\ \A i \in 1..k : b[i] = t[i]
  BY <1>1, Beginning
<1> HIDE DEF a, b
<1>3. (\A i \in 1..k : s[i] = t[i]) => a = b
  BY <1>2, SeqEqual
<1>4. a = b => \A i \in 1..k : s[i] = t[i]
  BY <1>2
<1> QED
  BY <1>3, <1>4 DEF a, b

\* A prefix is the beginning, element by element.
LEMMA PrefixElements ==
  ASSUME NEW S, NEW s \in Seq(S), NEW t \in Seq(S)
  PROVE  IsPrefix(s, t) <=> Len(s) <= Len(t) /\ \A i \in 1..Len(s) : s[i] = t[i]
<1>1. Len(s) \in Nat /\ Len(s) <= Len(s)
  BY SeqFacts
<1> QED
  BY <1>1, BeginningsAgree DEF IsPrefix

LEMMA NoSegments ==
  ASSUME NEW S, NEW s \in Seq(S)
  PROVE  Len(s) = 0 <=> s = <<>>
<1>1. Len(<<>>) = 0 /\ <<>> \in Seq(S)
  OBVIOUS
<1>2. Len(s) = 0 => \A i \in 1..Len(s) : s[i] = <<>>[i]
  OBVIOUS
<1> QED
  BY <1>1, <1>2, SeqEqual
-----------------------------------------------------------------------------
(* The parts of a pattern                                                  *)

\* NonEmpty keeps a beginning without empty segments, and adds nothing.
LEMMA NonEmptyFacts ==
  ASSUME NEW path \in Seq(Segments), NEW m \in 0..Len(path),
         \A k \in 1..m : path[k] # Empty
  PROVE  /\ Len(NonEmpty(path)) <= Len(path)
         /\ m <= Len(NonEmpty(path))
         /\ \A k \in 1..m : NonEmpty(path)[k] = path[k]
<1> DEFINE N == Len(path)
<1>1. PICK kept : Keeps(kept, path) /\ NonEmpty(path) = kept[N]
  BY NonEmptyDefined
<1>2. N \in Nat /\ m \in Nat /\ m <= N /\ \A i \in 1..N : path[i] \in Segments
  BY SeqFacts
<1>3. /\ \A i \in 0..N : kept[i] \in Seq(Segments)
      /\ kept[0] = <<>>
      /\ \A i \in 1..N :
           kept[i] = IF path[i] = Empty THEN kept[i - 1] ELSE Append(kept[i - 1], path[i])
  BY <1>1 DEF Keeps
<1> HIDE DEF N
<1> DEFINE Good(i) == /\ Len(kept[i]) \in Nat /\ Len(kept[i]) <= i
                      /\ i <= m => Len(kept[i]) = i
                      /\ i > m => m <= Len(kept[i])
                      /\ \A k \in 1..m : k <= i => kept[i][k] = path[k]
           T == {i \in 0..N : Good(i)}
<1>4. 0 \in T
  <2>1. Len(kept[0]) = 0
    BY <1>3
  <2>2. Good(0)
    BY <1>2, <2>1
  <2> QED
    BY <1>2, <2>2
<1>5. ASSUME NEW i \in 1..N, i - 1 \in T
      PROVE  i \in T
  <2>1. i - 1 \in 0..N /\ i \in 0..N /\ i \in Nat /\ i - 1 \in Nat
    BY <1>2
  <2>2. Good(i - 1) /\ kept[i - 1] \in Seq(Segments) /\ path[i] \in Segments
    BY <1>2, <1>3, <1>5, <2>1
  <2> DEFINE old == kept[i - 1]
             new == kept[i]
  <2>3. /\ Len(old) \in Nat /\ Len(old) <= i - 1
        /\ i - 1 <= m => Len(old) = i - 1
        /\ i - 1 > m => m <= Len(old)
        /\ \A k \in 1..m : k <= i - 1 => old[k] = path[k]
    BY <2>2
  <2>4. new = IF path[i] = Empty THEN old ELSE Append(old, path[i])
    BY <1>3
  <2>5. CASE path[i] = Empty
    <3>1. new = old
      BY <2>4, <2>5
    <3>2. i > m
      BY <1>2, <2>1, <2>5
    <3> HIDE DEF new, old
    <3>3. \A k \in 1..m : k <= i - 1
      BY <1>2, <2>1, <3>2
    <3>4. Len(new) \in Nat /\ Len(new) <= i /\ m <= Len(new)
      BY <1>2, <2>1, <2>3, <3>1, <3>2
    <3>5. \A k \in 1..m : new[k] = path[k]
      BY <2>3, <3>1, <3>3
    <3>6. Good(i)
      BY <1>2, <2>1, <3>2, <3>4, <3>5 DEF new
    <3> QED
      BY <2>1, <3>6
  <2>6. CASE path[i] # Empty
    <3>1. new = Append(old, path[i])
      BY <2>4, <2>6
    <3>2. /\ Len(new) = Len(old) + 1 /\ new[Len(old) + 1] = path[i]
          /\ \A k \in 1..Len(old) : new[k] = old[k]
      BY <2>2, <3>1, AppendElements
    <3> HIDE DEF new, old
    <3>3. /\ Len(new) \in Nat /\ Len(new) <= i
          /\ i <= m => Len(new) = i
          /\ i > m => m <= Len(new)
      BY <1>2, <2>1, <2>3, <3>2
    <3>4. ASSUME NEW k \in 1..m, k <= i
          PROVE  new[k] = path[k]
      <4>1. CASE k = i
        <5>1. Len(old) = i - 1
          BY <1>2, <2>1, <2>3, <4>1
        <5> QED
          BY <2>1, <3>2, <4>1, <5>1
      <4>2. CASE k # i
        <5>1. k <= i - 1
          BY <1>2, <2>1, <3>4, <4>2
        <5>2. k \in 1..Len(old)
          BY <1>2, <2>1, <2>3, <5>1
        <5> QED
          BY <2>3, <3>2, <5>1, <5>2
      <4> QED
        BY <4>1, <4>2
    <3>5. Good(i)
      BY <3>3, <3>4 DEF new
    <3> QED
      BY <2>1, <3>5
  <2> QED
    BY <2>5, <2>6
<1>6. N \in T
  <2> HIDE DEF T
  <2>1. \A i \in 0..N : i \in T
    BY <1>2, <1>4, <1>5, Induction
  <2> QED
    BY <1>2, <2>1
<1>7. Good(N)
  BY <1>6
<1> QED
  BY <1>1, <1>2, <1>7 DEF N

\* The parts are the beginning of the segments that are not empty up to the
\* first star, which only the last part can be.
LEMMA PartsFacts ==
  ASSUME NEW pattern \in Seq(Segments)
  PROVE  LET parts == parsePattern(pattern)
             path  == NonEmpty(pattern)
         IN  /\ Len(parts) \in Nat /\ Len(path) \in Nat /\ Len(parts) <= Len(path)
             /\ \A k \in 1..Len(parts) : parts[k] = path[k]
             /\ \A k \in 1..Len(parts) : parts[k] \in Stars => k = Len(parts)
             /\ Len(parts) = Len(path) \/ (Len(parts) # 0 /\ path[Len(parts)] \in Stars)
<1> DEFINE path  == NonEmpty(pattern)
           parts == parsePattern(pattern)
           I == {i \in 1..Len(path) : path[i] \in Stars}
           star == SelectInSeq(path, LAMBDA item : item \in Stars)
<1>1. path \in Seq(Segments) /\ Len(path) \in Nat
  BY NonEmptyIsPath, SeqFacts
<1>2. star = IF I # {} THEN Min(I) ELSE 0
  BY DEF SelectInSeq
<1>3. parts = IF star = 0 THEN path ELSE SubSeq(path, 1, star)
  BY DEF parsePattern
<1> HIDE DEF path, parts, star
<1>4. CASE I = {}
  BY <1>1, <1>2, <1>3, <1>4 DEF path, parts
<1>5. CASE I # {}
  <2>1. I \in SUBSET Nat
    OBVIOUS
  <2>2. PICK x \in I : \A y \in I : x <= y
    BY <1>5, <2>1, Least
  <2>3. star \in I /\ \A y \in I : star <= y
    <3> HIDE DEF I
    <3>1. star = CHOOSE z \in I : \A y \in I : z <= y
      BY <1>2, <1>5 DEF Min
    <3> QED
      BY <2>2, <3>1
  <2>4. star \in 0..Len(path) /\ star # 0 /\ star \in Nat /\ path[star] \in Stars
    BY <1>1, <2>3
  <2>5. Len(parts) = star /\ \A k \in 1..star : parts[k] = path[k]
    <3>1. parts = SubSeq(path, 1, star)
      BY <1>3, <2>4
    <3> QED
      BY <1>1, <2>4, <3>1, Beginning
  <2>6. ASSUME NEW k \in 1..star, parts[k] \in Stars
        PROVE  k = star
    <3>1. k \in I
      BY <1>1, <2>4, <2>5, <2>6
    <3>2. star <= k
      BY <2>3, <3>1
    <3> QED
      BY <2>4, <3>2
  <2> QED
    BY <1>1, <2>4, <2>5, <2>6 DEF path, parts
<1> QED
  BY <1>4, <1>5

LEMMA NoPatternHasNoParts == parsePattern(NoPattern) = <<>>
<1>1. NoPattern \in Seq(Segments) /\ Len(NoPattern) = 0
  BY DEF NoPattern
<1>2. 0 \in 0..Len(NoPattern) /\ \A k \in 1..0 : NoPattern[k] # Empty
  BY <1>1
<1>3. Len(NonEmpty(NoPattern)) <= 0
  BY <1>1, <1>2, NonEmptyFacts
<1>4. /\ Len(parsePattern(NoPattern)) \in Nat /\ Len(NonEmpty(NoPattern)) \in Nat
      /\ Len(parsePattern(NoPattern)) <= Len(NonEmpty(NoPattern))
  BY <1>1, PartsFacts
<1>5. Len(parsePattern(NoPattern)) = 0
  BY <1>3, <1>4
<1> QED
  BY <1>1, <1>5, PartsArePath, NoSegments
-----------------------------------------------------------------------------
(* A tree that holds routes registered in a good order                     *)

\* Of some routes rs, the parts, and the last of those with the same parts.
Parts(rs, i) == parsePattern(rs[i].pattern)

Newest(rs, I, i) == i \in I /\ \A j \in I : Parts(rs, j) = Parts(rs, i) => j <= i

\* The nodes are the beginnings of the routes' parts, every node is among its
\* parent's children, where a wild one comes last, and a node has the pattern
\* of the newest route with its label, if there is one.
Holds(tree, rs, I) ==
  /\ \A i \in I : \A h \in 0..Len(Parts(rs, i)) : SubSeq(Parts(rs, i), 1, h) \in DOMAIN tree
  /\ \A n \in DOMAIN tree : \/ n = <<>>
                            \/ \E i \in I : /\ Len(n) <= Len(Parts(rs, i))
                                            /\ n = SubSeq(Parts(rs, i), 1, Len(n))
  /\ \A n \in DOMAIN tree :
       /\ \A c \in Segments : Append(n, c) \in DOMAIN tree =>
            \E k \in 1..Len(tree[n].children) : tree[n].children[k] = c
       /\ \A k \in 1..Len(tree[n].children) :
            tree[n].children[k] \in Wild => k = Len(tree[n].children)
       /\ \/ tree[n].pattern = NoPattern /\ \A i \in I : Parts(rs, i) # n
          \/ \E i \in I : /\ Newest(rs, I, i)
                          /\ Parts(rs, i) = n
                          /\ tree[n].pattern = rs[i].pattern

LEMMA RootHolds == ASSUME NEW rs PROVE Holds(RootOnly, rs, {})
<1>1. DOMAIN RootOnly = {<<>>} /\ RootOnly[<<>>] = NewNode
  BY DEF RootOnly
<1>2. NewNode.pattern = NoPattern /\ NewNode.children = <<>> /\ 1..Len(<<>>) = {}
  BY DEF NewNode
<1>3. \A c \in Segments : Append(<<>>, c) # <<>>
  BY AppendFacts
<1> QED
  BY <1>1, <1>2, <1>3 DEF Holds

\* Where matchChild finds a child, it is one that matches.
LEMMA MatchFacts ==
  ASSUME NEW node, node.children \in Seq(Segments), NEW part
  PROVE  LET hit == matchChild(node, part)
         IN  /\ hit = 0 => \A k \in 1..Len(node.children) : ~Matching(node.children[k], part)
             /\ hit # 0 => hit \in 1..Len(node.children) /\ Matching(node.children[hit], part)
<1> DEFINE kids == node.children
           I == {i \in 1..Len(kids) : Matching(kids[i], part)}
<1>1. matchChild(node, part) = IF I # {} THEN Min(I) ELSE 0
  BY DEF matchChild, SelectInSeq
<1>2. Len(kids) \in Nat
  BY SeqFacts
<1> HIDE DEF kids
<1>3. I # {} => Min(I) \in I /\ Min(I) # 0
  BY <1>2, FirstIsOne
<1> QED
  BY <1>1, <1>3 DEF kids

\* No wild part leads insert away from the new pattern.
LEMMA InsertGoesStraight ==
  ASSUME NEW tree, Grown(tree), NEW rs, NEW I, Holds(tree, rs, I),
         \A i \in I : rs[i].pattern \in Seq(Segments),
         NEW parts \in Seq(Segments), \A i \in I : ~Hides(Parts(rs, i), parts)
  PROVE  \A h \in 0..Len(parts) : Visited(tree, parts)[h] = SubSeq(parts, 1, h)
<1> DEFINE N  == Len(parts)
           at == Visited(tree, parts)
           T  == {h \in 0..N : at[h] = SubSeq(parts, 1, h)}
<1>1. N \in Nat /\ \A h \in 1..N : parts[h] \in Segments
  BY SeqFacts
<1>2. /\ at[0] = <<>>
      /\ \A h \in 1..N : at[h] = Append(at[h - 1], Chosen(tree, at[h - 1], parts[h]))
  BY VisitedFacts
<1> HIDE DEF N, at
<1>3. 0 \in T
  <2>1. 0 \in 0..Len(parts)
    BY <1>1 DEF N
  <2>2. SubSeq(parts, 1, 0) = <<>>
    BY <2>1, Beginning, NoSegments
  <2>3. at[0] = SubSeq(parts, 1, 0) /\ 0 \in 0..N
    BY <1>1, <1>2, <2>2
  <2> QED
    BY <2>3, Zenon
<1>4. ASSUME NEW h \in 1..N, h - 1 \in T
      PROVE  h \in T
  <2> DEFINE n == SubSeq(parts, 1, h - 1)
             c == Chosen(tree, n, parts[h])
  <2>1. h \in 0..N /\ h - 1 \in 0..N /\ h \in Nat /\ (h - 1) + 1 = h /\ h # 0
    BY <1>1
  <2>2. at[h] = Append(n, c)
    BY <1>2, <1>4
  <2>3. SubSeq(parts, 1, h) = Append(n, parts[h])
    BY <1>4, BeginningGrows DEF N
  <2>4. n \in Seq(Segments) /\ Len(n) = h - 1 /\ \A k \in 1..(h - 1) : n[k] = parts[k]
    BY <2>1, Beginning DEF N
  <2>5. parts[h] \in Segments /\ c \in Segments
    BY <1>1, ChosenIsSegment
  <2>6. c = parts[h]
    <3> SUFFICES ASSUME c # parts[h] PROVE FALSE
      OBVIOUS
    <3> DEFINE kids == NodeAt(tree, n).children
               hit  == matchChild(NodeAt(tree, n), parts[h])
    <3>1. kids \in Seq(Segments)
      BY NodeAtFacts
    <3>2. hit # 0 /\ c = kids[hit]
      BY DEF Chosen
    <3>3. hit \in 1..Len(kids) /\ Matching(c, parts[h])
      BY <3>1, <3>2, MatchFacts
    <3>4. c \in Wild
      BY <3>3 DEF Matching
    <3>5. n \in DOMAIN tree /\ kids = tree[n].children
      <4>1. CASE n \notin DOMAIN tree
        <5>1. kids = <<>> /\ 1..Len(<<>>) = {}
          BY <4>1 DEF NodeAt, NewNode
        <5> QED
          BY <3>3, <5>1
      <4>2. CASE n \in DOMAIN tree
        BY <4>2 DEF NodeAt
      <4> QED
        BY <4>1, <4>2
    <3> DEFINE m == Append(n, c)
    <3>6. m \in DOMAIN tree
      BY <3>2, <3>3, <3>5 DEF Grown
    <3> HIDE DEF c, n
    <3>7. m # <<>> /\ Len(m) = h /\ m[h] = c /\ \A k \in 1..(h - 1) : m[k] = n[k]
      BY <2>1, <2>4, <2>5, AppendFacts, AppendElements
    <3>8. PICK i \in I : Len(m) <= Len(Parts(rs, i)) /\ m = SubSeq(Parts(rs, i), 1, Len(m))
      BY <3>6, <3>7 DEF Holds
    <3> DEFINE q == Parts(rs, i)
    <3>9. q \in Seq(Segments) /\ Len(q) \in Nat
      BY PartsArePath DEF Parts
    <3> HIDE DEF q, m
    <3>10. h \in 0..Len(q) /\ m = SubSeq(q, 1, h)
      BY <2>1, <3>7, <3>8, <3>9 DEF q
    <3>11. \A k \in 1..h : m[k] = q[k]
      BY <3>9, <3>10, Beginning
    <3>12. h \in 1..Len(q) /\ h <= Len(parts) /\ h - 1 \in Nat /\ h - 1 <= Len(q) /\ h - 1 <= Len(parts)
      BY <1>1, <2>1, <3>9, <3>10 DEF N
    <3>13. q[h] = c
      BY <2>1, <3>7, <3>11
    <3>14. \A k \in 1..(h - 1) : q[k] = parts[k]
      <4>1. \A k \in 1..(h - 1) : k \in 1..h
        BY <2>1
      <4> QED
        BY <2>4, <3>7, <3>11, <4>1
    <3>15. SubSeq(q, 1, h - 1) = SubSeq(parts, 1, h - 1)
      BY <3>9, <3>12, <3>14, BeginningsAgree
    <3>16. Hides(q, parts)
      BY <3>4, <3>12, <3>13, <3>15 DEF Hides
    <3> QED
      BY <3>16 DEF q
  <2> HIDE DEF c, n
  <2>7. at[h] = SubSeq(parts, 1, h)
    BY <2>2, <2>3, <2>6
  <2> QED
    BY <2>1, <2>7
<1>5. \A h \in 0..N : h \in T
  <2> HIDE DEF T
  <2> QED
    BY <1>1, <1>3, <1>4, Induction
<1> QED
  BY <1>5 DEF N, at

\* A route x that no earlier one hides: the tree holds it as well.
LEMMA InsertHolds ==
  ASSUME NEW tree, Grown(tree), NEW rs, NEW I \in SUBSET Nat, Holds(tree, rs, I),
         \A i \in I : rs[i].pattern \in Seq(Segments),
         NEW ts, NEW x \in Nat,
         \A i \in I : ts[i] = rs[i] /\ i < x,
         ts[x].pattern \in Seq(Segments),
         \A i \in I : ~Hides(Parts(rs, i), Parts(ts, x))
  PROVE  Holds(insert(tree, ts[x].pattern), ts, I \cup {x})
<1> DEFINE pattern == ts[x].pattern
           J     == I \cup {x}
           parts == parsePattern(pattern)
           N     == Len(parts)
           at    == Visited(tree, parts)
           D     == DOMAIN tree \cup {at[h] : h \in DOMAIN at}
           Added(n) == /\ Len(n) < Len(parts)
                       /\ at[Len(n)] = n
                       /\ at[Len(n) + 1] \notin DOMAIN tree
           Pattern(n) == IF n = at[N] THEN pattern ELSE NodeAt(tree, n).pattern
           Kids(n) == IF Added(n) THEN Append(NodeAt(tree, n).children, Last(at[Len(n) + 1]))
                      ELSE NodeAt(tree, n).children
           new   == insert(tree, pattern)
<1>1. new = [n \in D |-> [pattern |-> Pattern(n), children |-> Kids(n)]]
  BY DEF insert
<1>2. parts \in Seq(Segments) /\ N \in Nat /\ Parts(ts, x) = parts
  BY PartsArePath DEF Parts
<1>3. \A i \in I : Parts(ts, i) = Parts(rs, i)
  BY DEF Parts
<1>4. DOMAIN at = 0..N /\ \A h \in 0..N : at[h] = SubSeq(parts, 1, h)
  <2>1. DOMAIN at = 0..N
    BY <1>2, VisitedFacts
  <2>2. \A i \in I : ~Hides(Parts(rs, i), parts)
    BY <1>2
  <2>3. \A h \in 0..N : at[h] = SubSeq(parts, 1, h)
    <3> HIDE DEF parts
    <3> QED
      BY <1>2, <2>2, InsertGoesStraight
  <2> QED
    BY <2>1, <2>3
<1>5. \A h \in 0..N : at[h] \in Seq(Segments) /\ Len(at[h]) = h
  <2> HIDE DEF at, parts
  <2>1. \A h \in 0..N : SubSeq(parts, 1, h) \in Seq(Segments) /\ Len(SubSeq(parts, 1, h)) = h
    BY <1>2, Beginning
  <2> QED
    BY <1>4, <2>1, Zenon
<1>6. at[N] = parts /\ N \in 0..N
  BY <1>2, <1>4, SubSeqFull
<1>7. \A h \in 1..N : at[h] = Append(at[h - 1], parts[h]) /\ parts[h] \in Segments /\ h - 1 \in 0..N
  <2>1. \A h \in 1..N : h - 1 \in 0..N /\ h \in 0..N
    BY <1>2
  <2> QED
    BY <1>2, <1>4, <2>1, BeginningGrows, SeqFacts
<1> HIDE DEF at, parts, new
<1>8. /\ DOMAIN new = D
      /\ \A n \in D : new[n].pattern = Pattern(n) /\ new[n].children = Kids(n)
  BY <1>1
<1>9. DOMAIN tree \subseteq Seq(Segments) /\ D \subseteq Seq(Segments)
  <2>1. DOMAIN tree \subseteq Seq(Segments)
    BY DEF Grown
  <2> QED
    BY <1>4, <1>5, <2>1
<1>10. \A i \in J : \A h \in 0..Len(Parts(ts, i)) : SubSeq(Parts(ts, i), 1, h) \in D
  <2>1. ASSUME NEW i \in I, NEW h \in 0..Len(Parts(ts, i))
        PROVE  SubSeq(Parts(ts, i), 1, h) \in D
    BY <1>3, <2>1 DEF Holds
  <2>2. ASSUME NEW h \in 0..Len(Parts(ts, x))
        PROVE  SubSeq(Parts(ts, x), 1, h) \in D
    BY <1>2, <1>4
  <2> QED
    BY <2>1, <2>2
<1>11. ASSUME NEW n \in D, n # <<>>
       PROVE  \E i \in J : Len(n) <= Len(Parts(ts, i)) /\ n = SubSeq(Parts(ts, i), 1, Len(n))
  <2>1. CASE n \in DOMAIN tree
    <3>1. PICK i \in I : Len(n) <= Len(Parts(rs, i)) /\ n = SubSeq(Parts(rs, i), 1, Len(n))
      BY <1>11, <2>1 DEF Holds
    <3> QED
      BY <1>3, <3>1
  <2>2. CASE n \notin DOMAIN tree
    <3>1. PICK h \in 0..N : n = at[h]
      BY <1>4, <2>2
    <3>2. Len(n) = h /\ n = SubSeq(parts, 1, h) /\ h <= N
      BY <1>2, <1>4, <1>5, <3>1
    <3> QED
      BY <1>2, <3>2
  <2> QED
    BY <2>1, <2>2
\* The nodes of the new label that are not new, and the others.
<1>12. ASSUME NEW n \in D, Added(n)
       PROVE  LET h == Len(n) + 1
              IN  /\ h \in 1..N /\ n = at[h - 1] /\ at[h] = Append(n, parts[h])
                  /\ Kids(n) = Append(NodeAt(tree, n).children, parts[h])
                  /\ parts[h] \in Segments
                  /\ at[h] \notin DOMAIN tree
  <2> DEFINE h == Len(n) + 1
  <2>1. n \in Seq(Segments) /\ Len(n) \in Nat
    BY <1>9, SeqFacts
  <2>2. h \in 1..N /\ h - 1 = Len(n)
    BY <1>2, <1>12, <2>1
  <2>3. n = at[h - 1] /\ at[h] = Append(n, parts[h]) /\ parts[h] \in Segments
    BY <1>7, <1>12, <2>2
  <2>4. Last(at[h]) = parts[h]
    BY <2>1, <2>3, AppendFacts
  <2> HIDE DEF h
  <2>5. Kids(n) = Append(NodeAt(tree, n).children, parts[h])
    BY <1>12, <2>4 DEF h
  <2> QED
    BY <1>12, <2>2, <2>3, <2>5 DEF h
<1>13. ASSUME NEW n \in D
       PROVE  /\ NodeAt(tree, n).children \in Seq(Segments)
              /\ Kids(n) = NodeAt(tree, n).children \/ Added(n)
              /\ n \in DOMAIN tree \/ Len(NodeAt(tree, n).children) = 0
              /\ n \in DOMAIN tree => NodeAt(tree, n) = tree[n]
  <2>1. n \notin DOMAIN tree => NodeAt(tree, n).children = <<>> /\ Len(<<>>) = 0
    BY DEF NodeAt, NewNode
  <2> QED
    BY <2>1, NodeAtFacts DEF NodeAt
<1> HIDE DEF D, Added, Kids, Pattern
<1>14. ASSUME NEW n \in D, NEW c \in Segments, Append(n, c) \in D
       PROVE  \E k \in 1..Len(Kids(n)) : Kids(n)[k] = c
  <2> DEFINE old == NodeAt(tree, n).children
  <2>1. old \in Seq(Segments) /\ Len(old) \in Nat /\ n \in Seq(Segments)
    BY <1>9, <1>13, SeqFacts
  <2>2. CASE Append(n, c) \in DOMAIN tree
    <3>1. Front(Append(n, c)) = n /\ Append(n, c) # <<>>
      BY <2>1, AppendFacts
    <3>2. n \in DOMAIN tree
      BY <2>2, <3>1 DEF Grown
    <3>3. PICK k \in 1..Len(old) : old[k] = c
      <4>1. \E k \in 1..Len(tree[n].children) : tree[n].children[k] = c
        BY <2>2, <3>2 DEF Holds
      <4>2. NodeAt(tree, n) = tree[n]
        BY <1>13, <3>2
      <4> QED
        BY <4>1, <4>2
    <3>4. CASE Kids(n) = old
      BY <3>3, <3>4
    <3>5. CASE Added(n)
      <4>1. PICK p \in Segments : Kids(n) = Append(old, p)
        BY <1>12, <3>5
      <4> HIDE DEF old
      <4>2. Len(Kids(n)) = Len(old) + 1 /\ Kids(n)[k] = old[k] /\ k \in 1..(Len(old) + 1)
        BY <2>1, <4>1, AppendElements
      <4> QED
        BY <3>3, <4>2
    <3> QED
      BY <1>13, <3>4, <3>5
  <2>3. CASE Append(n, c) \notin DOMAIN tree
    <3>1. PICK h \in 0..N : Append(n, c) = at[h]
      <4>1. DOMAIN at = 0..N /\ Append(n, c) \in DOMAIN tree \cup {at[h] : h \in DOMAIN at}
        BY <1>4, <1>14 DEF D
      <4> QED
        BY <2>3, <4>1
    <3>2. Len(Append(n, c)) = Len(n) + 1 /\ Front(Append(n, c)) = n /\ Last(Append(n, c)) = c
          /\ Len(n) \in Nat
      BY <2>1, AppendFacts, SeqFacts
    <3>3. h = Len(n) + 1 /\ h \in 1..N /\ h - 1 = Len(n) /\ h - 1 \in 0..N
      BY <1>2, <1>5, <3>1, <3>2
    <3>4. at[h] = Append(at[h - 1], parts[h]) /\ at[h - 1] \in Seq(Segments) /\ parts[h] \in Segments
      BY <1>5, <1>7, <3>3
    <3>5. at[h - 1] = n /\ parts[h] = c
      BY <3>1, <3>2, <3>4, AppendFacts
    <3>6. Added(n)
      <4>1. Len(n) < N
        BY <1>2, <3>2, <3>3
      <4>2. at[Len(n)] = n /\ at[Len(n) + 1] \notin DOMAIN tree
        BY <2>3, <3>1, <3>3, <3>5
      <4> QED
        BY <4>1, <4>2 DEF Added
    <3>7. Kids(n) = Append(old, c)
      BY <1>12, <3>3, <3>5, <3>6
    <3> HIDE DEF old
    <3>8. Len(Kids(n)) = Len(old) + 1 /\ Kids(n)[Len(old) + 1] = c /\ Len(old) + 1 \in 1..(Len(old) + 1)
      BY <2>1, <3>7, AppendElements
    <3> QED
      BY <3>8
  <2> QED
    BY <2>2, <2>3
<1>15. ASSUME NEW n \in D, NEW k \in 1..Len(Kids(n)), Kids(n)[k] \in Wild
       PROVE  k = Len(Kids(n))
  <2> DEFINE old == NodeAt(tree, n).children
  <2>1. old \in Seq(Segments) /\ Len(old) \in Nat
    BY <1>13, SeqFacts
  <2>2. CASE Kids(n) = old
    <3>1. n \in DOMAIN tree
      BY <1>13, <1>15, <2>2
    <3> QED
      BY <1>13, <1>15, <2>2, <3>1 DEF Holds
  <2>3. CASE Added(n)
    <3> DEFINE h == Len(n) + 1
    <3>1. /\ h \in 1..N /\ n = at[h - 1] /\ at[h] = Append(n, parts[h])
          /\ Kids(n) = Append(old, parts[h]) /\ parts[h] \in Segments /\ at[h] \notin DOMAIN tree
      BY <1>12, <2>3
    <3> HIDE DEF h, old
    <3>2. Len(Kids(n)) = Len(old) + 1 /\ \A j \in 1..Len(old) : Kids(n)[j] = old[j]
      BY <2>1, <3>1, AppendElements
    <3>3. ~ (k \in 1..Len(old))
      <4> SUFFICES ASSUME k \in 1..Len(old) PROVE FALSE
        OBVIOUS
      <4>1. old[k] \in Wild
        BY <1>15, <3>2
      <4>2. Matching(old[k], parts[h])
        BY <4>1 DEF Matching
      <4> DEFINE hit == matchChild(NodeAt(tree, n), parts[h])
      <4>3. hit # 0 /\ hit \in 1..Len(old)
        BY <1>13, <4>2, MatchFacts DEF old
      <4>4. n \in DOMAIN tree /\ old = tree[n].children
        BY <1>13, <2>1, <4>3 DEF old
      <4>5. Append(n, old[hit]) \in DOMAIN tree
        BY <4>3, <4>4 DEF Grown
      <4>6. at[h] = Append(n, Chosen(tree, n, parts[h]))
        <5>1. \A j \in 1..N : at[j] = Append(at[j - 1], Chosen(tree, at[j - 1], parts[j]))
          BY <1>2, VisitedFacts DEF at
        <5> QED
          BY <3>1, <5>1
      <4>7. Chosen(tree, n, parts[h]) = old[hit]
        BY <4>3 DEF Chosen, old
      <4> QED
        BY <3>1, <4>5, <4>6, <4>7
    <3> QED
      BY <2>1, <3>2, <3>3
  <2> QED
    BY <1>13, <2>2, <2>3
<1>16. ASSUME NEW n \in D
       PROVE  \/ Pattern(n) = NoPattern /\ \A i \in J : Parts(ts, i) # n
              \/ \E i \in J : Newest(ts, J, i) /\ Parts(ts, i) = n /\ Pattern(n) = ts[i].pattern
  <2>1. CASE n = at[N]
    <3>1. Pattern(n) = ts[x].pattern /\ Parts(ts, x) = n
      BY <1>2, <1>6, <2>1 DEF Pattern
    <3>2. \A j \in J : j <= x
      OBVIOUS
    <3>3. Newest(ts, J, x)
      BY <3>2 DEF Newest
    <3> QED
      BY <3>1, <3>3
  <2>2. CASE n # at[N]
    <3>1. Parts(ts, x) # n
      BY <1>2, <1>6, <2>2
    <3>2. Pattern(n) = NodeAt(tree, n).pattern
      BY <2>2 DEF Pattern
    <3>3. CASE n \in DOMAIN tree
      <4>1. Pattern(n) = tree[n].pattern
        BY <1>13, <3>2, <3>3
      <4>2. CASE tree[n].pattern = NoPattern /\ \A i \in I : Parts(rs, i) # n
        BY <1>3, <3>1, <4>1, <4>2
      <4>3. CASE \E i \in I : Newest(rs, I, i) /\ Parts(rs, i) = n /\ tree[n].pattern = rs[i].pattern
        <5>1. PICK i \in I : Newest(rs, I, i) /\ Parts(rs, i) = n /\ tree[n].pattern = rs[i].pattern
          BY <4>3
        <5>2. Parts(ts, i) = n /\ Pattern(n) = ts[i].pattern
          BY <1>3, <4>1, <5>1
        <5>3. \A j \in J : Parts(ts, j) = Parts(ts, i) => j <= i
          BY <1>3, <3>1, <5>1, <5>2 DEF Newest
        <5> QED
          BY <5>2, <5>3 DEF Newest
      <4> QED
        BY <3>3, <4>2, <4>3 DEF Holds
    <3>4. CASE n \notin DOMAIN tree
      <4>1. Pattern(n) = NoPattern
        BY <3>2, <3>4 DEF NodeAt, NewNode
      <4>2. ASSUME NEW i \in I
            PROVE  Parts(ts, i) # n
        <5> DEFINE q == Parts(rs, i)
        <5>1. q \in Seq(Segments) /\ Len(q) \in 0..Len(q)
          BY PartsArePath DEF Parts
        <5>2. SubSeq(q, 1, Len(q)) \in DOMAIN tree
          BY <5>1 DEF Holds
        <5>3. SubSeq(q, 1, Len(q)) = q
          BY <5>1, SubSeqFull
        <5> QED
          BY <1>3, <3>4, <5>2, <5>3
      <4> QED
        BY <3>1, <4>1, <4>2
    <3> QED
      BY <3>3, <3>4
  <2> QED
    BY <2>1, <2>2
<1> HIDE DEF J
<1>17. Holds(new, ts, J)
  BY <1>8, <1>10, <1>11, <1>14, <1>15, <1>16 DEF Holds
<1> QED
  BY <1>17 DEF new, J
-----------------------------------------------------------------------------
(* What search finds in such a tree                                        *)

\* The routes that match a path, and those of them with these first parts;
\* the best of some of them.
HitsOf(rs, I, segs) == {i \in I : Matches(Parts(rs, i), segs)}

HitsBelow(rs, I, segs, n) ==
  {i \in I : /\ Len(n) <= Len(Parts(rs, i))
             /\ SubSeq(Parts(rs, i), 1, Len(n)) = n
             /\ Matches(Parts(rs, i), segs)}

BestOf(rs, I, hits, i) ==
  /\ i \in hits
  /\ Newest(rs, I, i)
  /\ \A j \in hits : Parts(rs, j) = Parts(rs, i) \/ Beats(Parts(rs, i), Parts(rs, j))

\* found is right at a node.
RightAt(found, rs, I, segs, n) ==
  LET hits == HitsBelow(rs, I, segs, n)
  IN  IF hits = {} THEN found[n] = NoPattern
      ELSE \E i \in hits : BestOf(rs, I, hits, i) /\ found[n] = rs[i].pattern

\* A node that the path leads to.
Along(tree, segs, n) ==
  /\ n \in Reach(tree, segs)
  /\ \A k \in 1..Len(n) : n[k] \in Wild \/ n[k] = segs[k]

\* Where search goes no further down, the routes that match end there.
LEMMA RightAtEnd ==
  ASSUME NEW tree, Grown(tree), NEW rs, NEW I \in SUBSET Nat, Holds(tree, rs, I),
         \A i \in I : rs[i].pattern \in Seq(Segments),
         NEW segs \in Seq(Segments), NEW found, NEW n,
         Along(tree, segs, n), AtEnd(n, segs), found[n] = tree[n].pattern
  PROVE  RightAt(found, rs, I, segs, n)
<1> DEFINE hits == HitsBelow(rs, I, segs, n)
<1>1. n \in DOMAIN tree /\ n \in Seq(Segments) /\ Len(n) \in Nat /\ Len(segs) \in Nat
      /\ Len(n) <= Len(segs)
  BY SeqFacts DEF Along, Reach, Grown
<1>2. ASSUME NEW i \in I, Parts(rs, i) = n
      PROVE  i \in hits
  <2>1. SubSeq(n, 1, Len(n)) = n
    BY <1>1, SubSeqFull
  <2>2. Matches(n, segs)
    BY <1>1 DEF AtEnd, Along, Matches
  <2> QED
    BY <1>1, <1>2, <2>1, <2>2 DEF HitsBelow
<1>3. ASSUME NEW i \in hits
      PROVE  i \in I /\ Parts(rs, i) = n
  <2> DEFINE q == Parts(rs, i)
  <2>1. i \in I /\ Len(n) <= Len(q) /\ SubSeq(q, 1, Len(n)) = n /\ Matches(q, segs)
    BY DEF HitsBelow
  <2>2. q \in Seq(Segments) /\ Len(q) \in Nat
    BY <2>1, PartsArePath DEF Parts
  <2>3. \A k \in 1..Len(q) : q[k] \in Stars => k = Len(q)
    BY <2>1, PartsFacts DEF Parts
  <2> HIDE DEF q
  <2>4. \A k \in 1..Len(n) : n[k] = q[k]
    <3>1. Len(n) \in 0..Len(q)
      BY <1>1, <2>1, <2>2
    <3> QED
      BY <2>1, <2>2, <3>1, Beginning
  <2>5. Len(q) = Len(n)
    <3>1. CASE Len(n) = Len(segs)
      <4>1. Len(q) <= Len(segs)
        BY <1>1, <2>1 DEF Matches
      <4> QED
        BY <1>1, <2>1, <2>2, <3>1, <4>1
    <3>2. CASE n # <<>> /\ Last(n) \in Stars
      <4>1. Len(n) # 0
        BY <1>1, <3>2, NoSegments
      <4>2. Len(n) \in 1..Len(n) /\ Len(n) \in 1..Len(q)
        BY <1>1, <2>1, <2>2, <4>1
      <4>3. q[Len(n)] \in Stars
        BY <2>4, <3>2, <4>2 DEF Last
      <4> QED
        BY <2>3, <4>2, <4>3
    <3> QED
      BY <3>1, <3>2 DEF AtEnd
  <2>6. q = n
    BY <2>1, <2>2, <2>5, SubSeqFull
  <2> QED
    BY <2>1, <2>6 DEF q
<1> HIDE DEF hits
<1>4. \/ found[n] = NoPattern /\ hits = {}
      \/ \E i \in hits : Newest(rs, I, i) /\ found[n] = rs[i].pattern
  <2>1. CASE tree[n].pattern = NoPattern /\ \A i \in I : Parts(rs, i) # n
    BY <1>3, <2>1
  <2>2. CASE \E i \in I : Newest(rs, I, i) /\ Parts(rs, i) = n /\ tree[n].pattern = rs[i].pattern
    BY <1>2, <2>2
  <2> QED
    BY <1>1, <2>1, <2>2 DEF Holds
<1>5. \A i \in hits : Newest(rs, I, i) => BestOf(rs, I, hits, i)
  BY <1>3 DEF BestOf
<1> QED
  BY <1>4, <1>5 DEF RightAt, hits

\* A child that matches is on the path's way as well, and what is below it is
\* below its parent; a route that matches goes on below such a child.
LEMMA AlongChild ==
  ASSUME NEW tree, Grown(tree), NEW segs \in Seq(Segments), NEW n,
         Along(tree, segs, n), ~AtEnd(n, segs),
         NEW k \in 1..Len(tree[n].children), Matching(tree[n].children[k], segs[Len(n) + 1])
  PROVE  Along(tree, segs, Append(n, tree[n].children[k]))
<1> DEFINE c == tree[n].children[k]
           m == Append(n, c)
<1>1. n \in Reach(tree, segs) /\ n \in Seq(Segments) /\ n \in DOMAIN tree /\ Len(n) \in Nat
  BY SeqFacts DEF Along, Reach, Grown
<1>2. c \in Segments
  BY <1>1, SeqFacts DEF Grown
<1>3. m \in Reach(tree, segs)
  BY <1>1, ChildInReach
<1>4. Matching(c, segs[Len(n) + 1])
  OBVIOUS
<1> HIDE DEF c, m
<1>5. Len(m) = Len(n) + 1 /\ m[Len(n) + 1] = c /\ \A j \in 1..Len(n) : m[j] = n[j]
  BY <1>1, <1>2, AppendElements DEF m
<1>6. \A j \in 1..Len(m) : j = Len(n) + 1 \/ j \in 1..Len(n)
  BY <1>1, <1>5
<1>7. \A j \in 1..Len(m) : m[j] \in Wild \/ m[j] = segs[j]
  BY <1>4, <1>5, <1>6 DEF Along, Matching
<1>8. Along(tree, segs, m)
  BY <1>3, <1>7 DEF Along
<1> QED
  BY <1>8 DEF c, m

LEMMA HitsAreBelow ==
  ASSUME NEW rs, NEW I, NEW segs \in Seq(Segments), NEW n \in Seq(Segments),
         NEW c \in Segments, NEW i \in I, rs[i].pattern \in Seq(Segments)
  PROVE  i \in HitsBelow(rs, I, segs, Append(n, c))
           <=> i \in HitsBelow(rs, I, segs, n) /\ Len(n) < Len(Parts(rs, i)) /\ Parts(rs, i)[Len(n) + 1] = c
<1> DEFINE q == Parts(rs, i)
           h == Len(n) + 1
<1>1. q \in Seq(Segments) /\ Len(q) \in Nat
  BY PartsArePath DEF Parts
<1>2. Len(n) \in Nat /\ Len(Append(n, c)) = h
  BY AppendFacts, SeqFacts
<1> HIDE DEF q
<1>3. Len(n) < Len(q) <=> h <= Len(q)
  BY <1>1, <1>2
<1>4. ASSUME h <= Len(q)
      PROVE  SubSeq(q, 1, h) = Append(n, c) <=> SubSeq(q, 1, Len(n)) = n /\ q[h] = c
  <2>1. h \in 1..Len(q) /\ h - 1 = Len(n)
    BY <1>1, <1>2, <1>4
  <2>2. SubSeq(q, 1, h) = Append(SubSeq(q, 1, Len(n)), q[h])
    BY <1>1, <2>1, BeginningGrows
  <2> DEFINE b == SubSeq(q, 1, Len(n))
  <2>3. b \in Seq(Segments) /\ q[h] \in Segments
    <3>1. Len(n) \in 0..Len(q)
      BY <1>1, <1>2, <2>1
    <3> QED
      BY <1>1, <2>1, <3>1, Beginning, SeqFacts
  <2> HIDE DEF b
  <2>4. Front(Append(b, q[h])) = b /\ Last(Append(b, q[h])) = q[h]
    BY <2>3, AppendFacts
  <2>5. Front(Append(n, c)) = n /\ Last(Append(n, c)) = c
    BY AppendFacts
  <2> QED
    BY <2>2, <2>4, <2>5 DEF b
<1>5. i \in HitsBelow(rs, I, segs, Append(n, c))
        <=> h <= Len(q) /\ SubSeq(q, 1, h) = Append(n, c) /\ Matches(q, segs)
  BY <1>2 DEF HitsBelow, q
<1>6. i \in HitsBelow(rs, I, segs, n)
        <=> Len(n) <= Len(q) /\ SubSeq(q, 1, Len(n)) = n /\ Matches(q, segs)
  BY DEF HitsBelow, q
<1>7. h <= Len(q) => Len(n) <= Len(q)
  BY <1>1, <1>2
<1> QED
  BY <1>3, <1>4, <1>5, <1>6, <1>7 DEF q

\* Further up, the first child below which a route matches has the best of
\* the routes, for a wild child comes last.
LEMMA RightAbove ==
  ASSUME NEW tree, Grown(tree), NEW rs, NEW I \in SUBSET Nat, Holds(tree, rs, I),
         \A i \in I : rs[i].pattern \in Seq(Segments),
         NEW segs \in Seq(Segments), NEW found, NEW n,
         Along(tree, segs, n), ~AtEnd(n, segs),
         found[n] = Below(tree, segs, found, n),
         \A k \in 1..Len(tree[n].children) : Matching(tree[n].children[k], segs[Len(n) + 1])
           => RightAt(found, rs, I, segs, Append(n, tree[n].children[k]))
  PROVE  RightAt(found, rs, I, segs, n)
<1> DEFINE kids == tree[n].children
           h    == Len(n) + 1
           hits == HitsBelow(rs, I, segs, n)
           Sub(c) == HitsBelow(rs, I, segs, Append(n, c))
           K   == {k \in 1..Len(kids) : /\ Matching(kids[k], segs[h])
                                        /\ found[Append(n, kids[k])] # NoPattern}
           hit == SelectInSeq(kids, LAMBDA c : /\ Matching(c, segs[Len(n) + 1])
                                               /\ found[Append(n, c)] # NoPattern)
<1>1. /\ n \in DOMAIN tree /\ n \in Seq(Segments) /\ Len(n) \in Nat /\ Len(segs) \in Nat
      /\ Len(n) <= Len(segs) /\ Len(n) # Len(segs) /\ ~(n # <<>> /\ Last(n) \in Stars)
  BY SeqFacts DEF Along, Reach, Grown, AtEnd
<1>2. kids \in Seq(Segments) /\ Len(kids) \in Nat /\ \A k \in 1..Len(kids) : kids[k] \in Segments
  BY <1>1, SeqFacts DEF Grown
<1>3. hit = IF K # {} THEN Min(K) ELSE 0
  BY DEF SelectInSeq
<1>4. found[n] = IF hit = 0 THEN NoPattern ELSE found[Append(n, kids[hit])]
  BY DEF Below
<1>5. \A k \in 1..Len(kids) : kids[k] \in Wild => k = Len(kids)
  BY <1>1 DEF Holds
<1>6. \A k \in 1..Len(kids) :
        Matching(kids[k], segs[h]) => RightAt(found, rs, I, segs, Append(n, kids[k]))
  OBVIOUS
<1> HIDE DEF hit, K
<1>7. \A c \in Segments, i \in I :
        i \in Sub(c) <=> i \in hits /\ Len(n) < Len(Parts(rs, i)) /\ Parts(rs, i)[h] = c
  <2> SUFFICES ASSUME NEW c \in Segments, NEW i \in I
               PROVE  i \in Sub(c) <=> /\ i \in hits /\ Len(n) < Len(Parts(rs, i))
                                       /\ Parts(rs, i)[h] = c
    OBVIOUS
  <2>1. rs[i].pattern \in Seq(Segments) /\ n \in Seq(Segments)
    BY <1>1
  <2> HIDE DEF kids
  <2> QED
    BY <2>1, HitsAreBelow
<1>8. hits \subseteq I /\ \A c : Sub(c) \subseteq I
  BY DEF HitsBelow
\* A route that matches goes on to a child that matches.
<1>9. ASSUME NEW i \in hits
      PROVE  \E k \in K : i \in Sub(kids[k]) /\ Parts(rs, i)[h] = kids[k]
  <2> DEFINE q == Parts(rs, i)
  <2>1. i \in I /\ Len(n) <= Len(q) /\ SubSeq(q, 1, Len(n)) = n /\ Matches(q, segs)
    BY DEF HitsBelow
  <2>2. q \in Seq(Segments) /\ Len(q) \in Nat
    BY <2>1, PartsArePath DEF Parts
  <2>3. \A j \in 0..Len(q) : SubSeq(q, 1, j) \in DOMAIN tree
    BY <2>1 DEF Holds
  <2> HIDE DEF q
  <2>4. Len(q) # Len(n)
    <3> SUFFICES ASSUME Len(q) = Len(n) PROVE FALSE
      OBVIOUS
    <3>1. q = n
      BY <2>1, <2>2, SubSeqFull
    <3> QED
      BY <1>1, <2>1, <3>1 DEF Matches
  <2>5. h \in 1..Len(q) /\ h \in 0..Len(q) /\ Len(n) < Len(q) /\ h - 1 = Len(n)
    BY <1>1, <2>1, <2>2, <2>4
  <2>6. q[h] \in Segments
    BY <2>2, <2>5, SeqFacts
  <2>7. Append(n, q[h]) \in DOMAIN tree
    <3>1. SubSeq(q, 1, h) = Append(SubSeq(q, 1, h - 1), q[h])
      BY <2>2, <2>5, BeginningGrows
    <3>2. SubSeq(q, 1, h) \in DOMAIN tree
      BY <2>3, <2>5
    <3> QED
      BY <2>1, <2>5, <3>1, <3>2
  <2>8. PICK k \in 1..Len(kids) : kids[k] = q[h]
    BY <1>1, <2>6, <2>7 DEF Holds
  <2>9. i \in Sub(kids[k])
    BY <1>7, <2>1, <2>5, <2>6, <2>8 DEF q
  <2>10. Matching(kids[k], segs[h])
    BY <2>1, <2>5, <2>8 DEF Matches, Matching
  <2>11. found[Append(n, kids[k])] # NoPattern
    <3>1. RightAt(found, rs, I, segs, Append(n, kids[k]))
      BY <1>6, <2>10
    <3>2. PICK j \in Sub(kids[k]) : found[Append(n, kids[k])] = rs[j].pattern
      BY <2>9, <3>1 DEF RightAt
    <3>3. j \in I
      BY <1>8
    <3>4. Len(n) < Len(Parts(rs, j))
      BY <1>7, <2>6, <2>8, <3>2, <3>3
    <3>5. Parts(rs, j) # <<>>
      <4>1. Len(<<>>) = 0
        OBVIOUS
      <4> QED
        BY <1>1, <3>4, <4>1
    <3>6. rs[j].pattern # NoPattern
      BY <3>5, NoPatternHasNoParts DEF Parts
    <3> QED
      BY <3>2, <3>6
  <2>12. k \in K
    BY <2>10, <2>11 DEF K
  <2> QED
    BY <2>8, <2>9, <2>12 DEF q
<1>10. \A k \in K : /\ k \in 1..Len(kids) /\ Matching(kids[k], segs[h])
                    /\ found[Append(n, kids[k])] # NoPattern
  BY DEF K
<1>11. K # {} => hit \in K /\ hit # 0 /\ \A k \in K : hit <= k
  <2> SUFFICES ASSUME K # {} PROVE hit \in K /\ hit # 0 /\ \A k \in K : hit <= k
    OBVIOUS
  <2>1. K \in SUBSET Nat /\ K \in SUBSET (1..Len(kids))
    BY <1>10
  <2>2. PICK x \in K : \A y \in K : x <= y
    BY <2>1, Least
  <2>3. hit = CHOOSE z \in K : \A y \in K : z <= y
    BY <1>3 DEF Min
  <2>4. hit \in K /\ \A k \in K : hit <= k
    BY <2>2, <2>3
  <2>5. hit # 0
    BY <1>3, <2>1, <1>2, FirstIsOne
  <2> QED
    BY <2>4, <2>5
<1>12. CASE hits = {}
  <2>1. K = {}
    <3> SUFFICES ASSUME NEW k \in K PROVE FALSE
      OBVIOUS
    <3>1. RightAt(found, rs, I, segs, Append(n, kids[k])) /\ found[Append(n, kids[k])] # NoPattern
      BY <1>6, <1>10
    <3>2. PICK i \in Sub(kids[k]) : TRUE
      BY <3>1 DEF RightAt
    <3> QED
      BY <1>2, <1>7, <1>8, <1>10, <1>12, <3>2
  <2>2. found[n] = NoPattern
    BY <1>3, <1>4, <2>1
  <2> QED
    BY <1>12, <2>2 DEF RightAt
<1>13. CASE hits # {}
  <2> DEFINE c == kids[hit]
  <2>1. K # {}
    BY <1>9, <1>13
  <2>2. hit \in K /\ hit # 0 /\ \A k \in K : hit <= k
    BY <1>11, <2>1
  <2>3. hit \in 1..Len(kids) /\ c \in Segments /\ found[n] = found[Append(n, c)]
    BY <1>2, <1>4, <1>10, <2>2
  <2>4. RightAt(found, rs, I, segs, Append(n, c)) /\ found[Append(n, c)] # NoPattern
    BY <1>6, <1>10, <2>2
  <2>5. PICK i \in Sub(c) : BestOf(rs, I, Sub(c), i) /\ found[Append(n, c)] = rs[i].pattern
    BY <2>4 DEF RightAt
  <2>6. i \in I /\ i \in hits /\ Len(n) < Len(Parts(rs, i)) /\ Parts(rs, i)[h] = c
    BY <1>7, <1>8, <2>3, <2>5
  <2>7. ASSUME NEW j \in hits
        PROVE  Parts(rs, j) = Parts(rs, i) \/ Beats(Parts(rs, i), Parts(rs, j))
    <3>1. PICK k \in K : j \in Sub(kids[k]) /\ Parts(rs, j)[h] = kids[k]
      BY <1>9
    <3>2. CASE kids[k] = c
      BY <2>5, <3>1, <3>2 DEF BestOf
    <3>3. CASE kids[k] # c
      <4> DEFINE p == Parts(rs, i)
                 q == Parts(rs, j)
      <4>1. k \in 1..Len(kids) /\ hit <= k /\ hit # k
        BY <1>10, <2>2, <3>3
      <4>2. hit # Len(kids)
        BY <1>2, <2>3, <4>1
      <4>3. c \notin Wild
        BY <1>5, <2>3, <4>2
      <4>4. j \in I /\ Len(n) < Len(q)
        BY <1>2, <1>7, <1>8, <3>1, <4>1
      <4>5. SubSeq(p, 1, Len(n)) = n /\ SubSeq(q, 1, Len(n)) = n
        BY <2>6 DEF HitsBelow
      <4>6. Len(p) \in Nat /\ Len(q) \in Nat
        BY <2>6, <4>4, PartsArePath DEF Parts
      <4> HIDE DEF p, q
      <4>7. h \in 1..Len(p) /\ h <= Len(q) /\ h - 1 = Len(n)
        BY <1>1, <2>6, <4>4, <4>6 DEF p
      <4>8. p[h] # q[h] /\ p[h] \notin Wild
        BY <2>6, <3>1, <3>3, <4>3 DEF p, q
      <4>9. SubSeq(p, 1, h - 1) = SubSeq(q, 1, h - 1)
        BY <4>5, <4>7
      <4> HIDE DEF h
      <4>10. Beats(p, q)
        BY <4>7, <4>8, <4>9 DEF Beats
      <4> QED
        BY <4>10 DEF p, q
    <3> QED
      BY <3>2, <3>3
  <2>8. BestOf(rs, I, hits, i)
    BY <2>5, <2>6, <2>7 DEF BestOf
  <2>9. found[n] = rs[i].pattern
    BY <2>3, <2>5
  <2> QED
    BY <1>13, <2>6, <2>8, <2>9 DEF RightAt
<1> QED
  BY <1>12, <1>13

\* So search finds the best of the routes that match, and nothing if none does.
LEMMA SearchIsRight ==
  ASSUME NEW tree, Grown(tree), NEW rs, NEW I \in SUBSET Nat, Holds(tree, rs, I),
         \A i \in I : rs[i].pattern \in Seq(Segments),
         NEW segs \in Seq(Segments)
  PROVE  LET hits == HitsOf(rs, I, segs)
         IN  IF hits = {} THEN search(tree, segs) = NoPattern
             ELSE \E i \in hits : BestOf(rs, I, hits, i) /\ search(tree, segs) = rs[i].pattern
<1> DEFINE N == Len(segs)
           D == Reach(tree, segs)
           found == CHOOSE f : Finds(tree, segs, f)
           T == {h \in 0..N : \A n \in D : Along(tree, segs, n) /\ Len(n) >= N - h
                                             => RightAt(found, rs, I, segs, n)}
<1>1. search(tree, segs) = found[<<>>]
  BY DEF search, Finds, Reach, At, Below
<1>2. Finds(tree, segs, found)
  BY SearchDefined
<1>3. N \in Nat /\ \A n \in D : Len(n) \in Nat /\ Len(n) <= N
  BY SeqFacts DEF Reach, Grown
<1> HIDE DEF found
<1>4. \A n \in D : found[n] = At(tree, segs, found, n)
  BY <1>2, Zenon DEF Finds
<1> HIDE DEF N
<1>5. ASSUME NEW n \in D, Along(tree, segs, n), AtEnd(n, segs)
      PROVE  RightAt(found, rs, I, segs, n)
  <2>1. found[n] = tree[n].pattern
    BY <1>4, <1>5 DEF At
  <2> QED
    BY <1>5, <2>1, RightAtEnd
<1>6. 0 \in T
  <2>1. \A n \in D : Len(n) >= N - 0 => AtEnd(n, segs)
    BY <1>3 DEF AtEnd, N
  <2> HIDE DEF D
  <2> QED
    BY <1>3, <1>5, <2>1
<1>7. ASSUME NEW h \in 1..N, h - 1 \in T
      PROVE  h \in T
  <2>1. ASSUME NEW n \in D, Along(tree, segs, n), Len(n) >= N - h
        PROVE  RightAt(found, rs, I, segs, n)
    <3>1. CASE AtEnd(n, segs)
      BY <1>5, <2>1, <3>1
    <3>2. CASE ~AtEnd(n, segs)
      <4> DEFINE kids == tree[n].children
      <4>1. ASSUME NEW k \in 1..Len(kids), Matching(kids[k], segs[Len(n) + 1])
            PROVE  RightAt(found, rs, I, segs, Append(n, kids[k]))
        <5> DEFINE m == Append(n, kids[k])
        <5>1. m \in D /\ Len(m) = Len(n) + 1
          BY <3>2, ChildInReach
        <5>2. Along(tree, segs, m)
          BY <2>1, <3>2, <4>1, AlongChild
        <5> HIDE DEF m
        <5>3. Len(m) >= N - (h - 1)
          BY <1>3, <2>1, <5>1
        <5> QED
          BY <1>7, <5>1, <5>2, <5>3 DEF m
      <4>2. found[n] = Below(tree, segs, found, n)
        BY <1>4, <3>2 DEF At
      <4> QED
        BY <2>1, <3>2, <4>1, <4>2, RightAbove
    <3> QED
      BY <3>1, <3>2
  <2> HIDE DEF D
  <2>2. h \in 0..N
    BY <1>3
  <2> QED
    BY <2>1, <2>2
<1>8. N \in T
  <2> HIDE DEF T
  <2>1. \A h \in 0..N : h \in T
    BY <1>3, <1>6, <1>7, Induction
  <2> QED
    BY <1>3, <2>1
<1>9. <<>> \in D /\ Along(tree, segs, <<>>)
  <2>1. Len(<<>>) = 0 /\ 1..0 = {}
    OBVIOUS
  <2>2. <<>> \in DOMAIN tree
    BY DEF Grown
  <2>3. <<>> \in D
    BY <1>3, <2>1, <2>2 DEF Reach, N
  <2> QED
    BY <2>1, <2>3 DEF Along
<1>10. RightAt(found, rs, I, segs, <<>>)
  <2>1. Len(<<>>) >= N - N
    BY <1>3
  <2> QED
    BY <1>8, <1>9, <2>1
<1>11. HitsBelow(rs, I, segs, <<>>) = HitsOf(rs, I, segs)
  <2>1. ASSUME NEW i \in I
        PROVE  Len(<<>>) <= Len(Parts(rs, i)) /\ SubSeq(Parts(rs, i), 1, Len(<<>>)) = <<>>
    <3> DEFINE q == Parts(rs, i)
    <3>1. q \in Seq(Segments) /\ Len(q) \in Nat /\ Len(<<>>) = 0
      BY PartsArePath DEF Parts
    <3> HIDE DEF q
    <3>2. 0 \in 0..Len(q)
      BY <3>1
    <3>3. SubSeq(q, 1, 0) = <<>>
      BY <3>1, <3>2, Beginning, NoSegments
    <3> QED
      BY <3>1, <3>3 DEF q
  <2> QED
    BY <2>1 DEF HitsBelow, HitsOf
<1> QED
  BY <1>1, <1>10, <1>11, Zenon DEF RightAt
-----------------------------------------------------------------------------
(* Sequences of sequences                                                  *)

\* joined holds the beginnings of what FlattenSeq returns.
Joins(joined, S, seqs) ==
  /\ joined \in [0..Len(seqs) -> Seq(S)]
  /\ joined[0] = <<>>
  /\ \A i \in 1..Len(seqs) : joined[i] = joined[i - 1] \o seqs[i]

LEMMA FlattenDefined ==
  ASSUME NEW S, NEW seqs, Len(seqs) \in Nat, Len(seqs) = 0 => seqs = <<>>,
         \A i \in 1..Len(seqs) : seqs[i] \in Seq(S)
  PROVE  \E joined : Joins(joined, S, seqs) /\ FlattenSeq(seqs) = joined[Len(seqs)]
<1> DEFINE N == Len(seqs)
           Z == Seq(S)
           Is(f) == f = [i \in 1..N |-> IF i = 1 THEN seqs[i] ELSE f[i - 1] \o seqs[i]]
           F == [i \in 1..N |-> [s \in Z |-> s \o seqs[i]]]
           flatten == CHOOSE f : Is(f)
<1>1. FlattenSeq(seqs) = IF N = 0 THEN seqs ELSE flatten[N]
  BY DEF FlattenSeq
<1>2. N \in Nat /\ <<>> \in Z
  OBVIOUS
<1>3. \A i \in 1..N, s \in Z : s \o seqs[i] \in Z
  BY ConcatProperties
<1>4. \A s \in Z : <<>> \o s = s
  BY ConcatEmptySeq
<1>5. N = 0 => seqs = <<>>
  OBVIOUS
<1>6. \A i \in 1..N : seqs[i] \in Z
  OBVIOUS
<1> HIDE DEF N, Z
<1>7. F \in [1..N -> [Z -> Z]]
  BY <1>3
<1>8. \A i \in 1..N, s \in Z : F[i][s] = s \o seqs[i]
  OBVIOUS
<1> HIDE DEF F
<1>9. PICK g : Continues(g, Z, <<>>, F, N)
  BY <1>2, <1>7, Continued
<1>10. g \in [0..N -> Z] /\ g[0] = <<>> /\ \A i \in 1..N : g[i] = g[i - 1] \o seqs[i]
  <2>1. g \in [0..N -> Z] /\ g[0] = <<>> /\ \A i \in 1..N : g[i] = F[i][g[i - 1]]
    BY <1>9 DEF Continues
  <2>2. \A i \in 1..N : i - 1 \in 0..N
    BY <1>2
  <2>3. \A i \in 1..N : g[i - 1] \in Z
    BY <2>1, <2>2
  <2> QED
    BY <1>8, <2>1, <2>3
<1>11. Joins(g, S, seqs)
  BY <1>10 DEF Joins, N, Z
<1>12. CASE N = 0
  BY <1>1, <1>5, <1>10, <1>11, <1>12 DEF N
<1>13. CASE N # 0
  <2> DEFINE f == [i \in 1..N |-> g[i]]
  <2>1. \A i \in 1..N : i = 1 \/ i - 1 \in 1..N
    BY <1>2
  <2>2. \A i \in 1..N : g[i] = IF i = 1 THEN seqs[i] ELSE g[i - 1] \o seqs[i]
    <3> SUFFICES ASSUME NEW i \in 1..N
                 PROVE  g[i] = IF i = 1 THEN seqs[i] ELSE g[i - 1] \o seqs[i]
      OBVIOUS
    <3>1. g[i] = g[i - 1] \o seqs[i]
      BY <1>10
    <3>2. CASE i = 1
      <4>1. g[i - 1] = <<>>
        BY <1>10, <3>2
      <4>2. <<>> \o seqs[i] = seqs[i]
        BY <1>4, <1>6
      <4> QED
        BY <3>1, <3>2, <4>1, <4>2
    <3> QED
      BY <3>1, <3>2
  <2>3. \A i \in 1..N : f[i] = IF i = 1 THEN seqs[i] ELSE f[i - 1] \o seqs[i]
    BY <2>1, <2>2
  <2>4. f = [i \in 1..N |-> f[i]]
    OBVIOUS
  <2> HIDE DEF f
  <2>5. Is(f)
    BY <2>3, <2>4
  <2>6. Is(flatten)
    <3> HIDE DEF Is
    <3> QED
      BY <2>5
  <2> HIDE DEF flatten
  <2>7. \A i \in 1..N : flatten[i] = IF i = 1 THEN seqs[i] ELSE flatten[i - 1] \o seqs[i]
    BY <2>6, Zenon
  <2> HIDE DEF Is
  <2> DEFINE T == {i \in 0..N : i = 0 \/ flatten[i] = g[i]}
  <2>8. 0 \in T
    BY <1>2
  <2>9. ASSUME NEW i \in 1..N, i - 1 \in T
        PROVE  i \in T
    <3>1. i \in 0..N
      BY <1>2
    <3>2. CASE i = 1
      BY <2>2, <2>7, <3>1, <3>2
    <3>3. CASE i # 1
      <4>1. i - 1 # 0 /\ i - 1 \in 1..N
        BY <1>2, <3>3
      <4>2. flatten[i - 1] = g[i - 1]
        BY <2>9, <4>1
      <4> QED
        BY <2>2, <2>7, <3>1, <3>3, <4>2
    <3> QED
      BY <3>2, <3>3
  <2>10. N \in T
    <3> HIDE DEF T
    <3>1. \A i \in 0..N : i \in T
      BY <1>2, <2>8, <2>9, Induction
    <3> QED
      BY <1>2, <3>1
  <2> QED
    BY <1>1, <1>11, <1>13, <2>10 DEF N
<1> QED
  BY <1>12, <1>13
-----------------------------------------------------------------------------
(* Parameters                                                              *)

\* A wild part that stands at one place only gets the parameter from there.
LEMMA ParameterOf ==
  ASSUME NEW pattern, NEW path, Len(parsePattern(pattern)) \in Nat,
         DistinctNames(parsePattern(pattern)),
         NEW k \in 1..Len(parsePattern(pattern)), parsePattern(pattern)[k] \in Wild
  PROVE  LET w    == parsePattern(pattern)[k]
             segs == parsePattern(path)
         IN  routeParams(pattern, path)[w]
               = IF w \in Stars THEN SubSeq(segs, k, Len(segs)) ELSE <<segs[k]>>
<1> DEFINE parts == parsePattern(pattern)
           segs  == parsePattern(path)
           Places(w) == {i \in 1..Len(parts) : parts[i] = w}
           Place(w) == SelectLastInSubSeq(parts, 1, Len(parts), LAMBDA p : p = w)
           w == parts[k]
<1>1. routeParams(pattern, path)
        = [v \in {parts[i] : i \in 1..Len(parts)} \cap Wild |->
            IF v \in Stars THEN SubSeq(segs, Place(v), Len(segs)) ELSE <<segs[Place(v)]>>]
  BY DEF routeParams
<1>2. Place(w) = IF Places(w) # {} THEN Max(Places(w)) ELSE 0
  BY DEF SelectLastInSubSeq
<1>3. w \in {parts[i] : i \in 1..Len(parts)} \cap Wild
  OBVIOUS
<1>4. Places(w) = {k}
  BY DEF DistinctNames
<1> HIDE DEF parts, segs, Place, w
<1>5. routeParams(pattern, path)[w]
        = IF w \in Stars THEN SubSeq(segs, Place(w), Len(segs)) ELSE <<segs[Place(w)]>>
  BY <1>1, <1>3, Zenon
<1>6. Place(w) = k
  <2>1. Max({k}) = k
    BY DEF Max
  <2> QED
    BY <1>2, <1>4, <2>1
<1> QED
  BY <1>5, <1>6 DEF w, segs, parts

LEMMA ParametersFill ==
  ASSUME NEW pattern \in Seq(Segments), NEW path \in Seq(Segments),
         Matches(parsePattern(pattern), parsePattern(path)),
         DistinctNames(parsePattern(pattern))
  PROVE  Filled(parsePattern(pattern), routeParams(pattern, path)) = parsePattern(path)
<1> DEFINE parts  == parsePattern(pattern)
           segs   == parsePattern(path)
           values == routeParams(pattern, path)
           N      == Len(parts)
           pieces == [k \in DOMAIN parts |->
                        IF parts[k] \in Wild THEN values[parts[k]] ELSE <<parts[k]>>]
<1>1. /\ parts \in Seq(Segments) /\ N \in Nat /\ DOMAIN parts = 1..N
      /\ segs \in Seq(Segments) /\ Len(segs) \in Nat
  BY PartsArePath
<1>2. \A k \in 1..N : parts[k] \in Stars => k = N
  BY PartsFacts
<1>3. /\ N = Len(segs) \/ (parts # <<>> /\ Last(parts) \in Stars /\ N <= Len(segs))
      /\ \A k \in 1..N : parts[k] \in Wild \/ parts[k] = segs[k]
  BY DEF Matches
<1>4. \A k \in 1..N : parts[k] \in Wild =>
        values[parts[k]] = IF parts[k] \in Stars THEN SubSeq(segs, k, Len(segs)) ELSE <<segs[k]>>
  BY <1>1, ParameterOf
<1>5. Filled(parts, values) = FlattenSeq(pieces)
  BY DEF Filled
<1> HIDE DEF parts, segs, values
<1>6. \A k \in 1..N : k \in 1..Len(segs) /\ k <= Len(segs) /\ segs[k] \in Segments
  <2>1. N <= Len(segs)
    BY <1>1, <1>3
  <2> QED
    BY <1>1, <2>1, SeqFacts
<1>7. \A k \in 1..N : pieces[k] = IF parts[k] \in Stars THEN SubSeq(segs, k, Len(segs)) ELSE <<segs[k]>>
  BY <1>1, <1>3, <1>4 DEF Wild
<1>8. Len(pieces) = N /\ (N = 0 => pieces = <<>>)
  <2> DEFINE P(k) == IF parts[k] \in Wild THEN values[parts[k]] ELSE <<parts[k]>>
             All  == {P(k) : k \in 1..N}
  <2>1. pieces = [k \in 1..N |-> P(k)]
    BY <1>1
  <2>2. \A k \in 1..N : P(k) \in All
    OBVIOUS
  <2> HIDE DEF P, All, pieces, N
  <2>3. pieces \in Seq(All) /\ Len(pieces) = N
    BY <1>1, <2>1, <2>2
  <2> QED
    BY <2>3, NoSegments
<1> HIDE DEF pieces, N
<1>9. \A k \in 1..N : pieces[k] \in Seq(Segments)
  <2> SUFFICES ASSUME NEW k \in 1..N PROVE pieces[k] \in Seq(Segments)
    OBVIOUS
  <2>1. <<segs[k]>> \in Seq(Segments)
    BY <1>6
  <2>2. SubSeq(segs, k, Len(segs)) \in Seq(Segments)
    <3>1. \A i \in k..Len(segs) : segs[i] \in Segments
      BY <1>1, <1>6, SeqFacts
    <3>2. k \in Int /\ Len(segs) \in Int
      BY <1>1
    <3> QED
      BY <3>1, <3>2, SubSeqProperties
  <2> QED
    BY <1>7, <2>1, <2>2
<1>10. PICK joined : Joins(joined, Segments, pieces) /\ FlattenSeq(pieces) = joined[N]
  BY <1>1, <1>8, <1>9, FlattenDefined
<1>11. joined[0] = <<>> /\ \A i \in 1..N : joined[i] = joined[i - 1] \o pieces[i]
  BY <1>8, <1>10 DEF Joins
<1> DEFINE T == {i \in 0..N : joined[i] = IF i # 0 /\ parts[i] \in Stars THEN segs
                                          ELSE SubSeq(segs, 1, i)}
<1>12. 0 \in T
  <2>1. 0 \in 0..Len(segs)
    BY <1>1
  <2>2. SubSeq(segs, 1, 0) = <<>>
    BY <1>1, <2>1, Beginning, NoSegments
  <2>3. joined[0] = SubSeq(segs, 1, 0) /\ 0 \in 0..N
    BY <1>1, <1>11, <2>2
  <2> QED
    BY <2>3, Zenon
<1>13. ASSUME NEW i \in 1..N, i - 1 \in T
       PROVE  i \in T
  <2>1. i \in 0..N /\ i - 1 \in 0..N /\ i # 0 /\ (i - 1 # 0 => i - 1 \in 1..N /\ i - 1 # N)
    BY <1>1
  <2>2. joined[i - 1] = SubSeq(segs, 1, i - 1)
    BY <1>2, <1>13, <2>1
  <2>3. joined[i] = SubSeq(segs, 1, i - 1) \o pieces[i]
    BY <1>11, <2>2
  <2>4. CASE parts[i] \in Stars
    <3>1. pieces[i] = SubSeq(segs, i, Len(segs))
      BY <1>7, <2>4
    <3>2. /\ i - 1 \in (1 - 1)..Len(segs) /\ Len(segs) \in (i - 1)..Len(segs)
          /\ 1 \in 1..(Len(segs) + 1) /\ (i - 1) + 1 = i
      BY <1>1, <1>6
    <3>3. SubSeq(segs, 1, i - 1) \o SubSeq(segs, (i - 1) + 1, Len(segs)) = SubSeq(segs, 1, Len(segs))
      BY <1>1, <3>2, ConcatAdjacentSubSeq
    <3>4. SubSeq(segs, 1, Len(segs)) = segs
      BY <1>1, SubSeqFull
    <3>5. joined[i] = segs
      BY <2>3, <3>1, <3>2, <3>3, <3>4
    <3> QED
      BY <2>1, <2>4, <3>5
  <2>5. CASE parts[i] \notin Stars
    <3>1. pieces[i] = <<segs[i]>>
      BY <1>7, <2>5
    <3>2. 1 \in 1..Len(segs) /\ i \in 1..Len(segs)
      BY <1>1, <1>6
    <3>3. SubSeq(segs, 1, i) = SubSeq(segs, 1, i - 1) \o <<segs[i]>>
      BY <1>1, <3>2, SubSeqRecursiveSecond
    <3>4. joined[i] = SubSeq(segs, 1, i)
      BY <2>3, <3>1, <3>3
    <3> QED
      BY <2>1, <2>5, <3>4
  <2> QED
    BY <2>4, <2>5
<1>14. N \in T
  <2> HIDE DEF T
  <2>1. \A i \in 0..N : i \in T
    BY <1>1, <1>12, <1>13, Induction
  <2> QED
    BY <1>1, <2>1
<1>15. joined[N] = segs
  <2>1. CASE N # 0 /\ parts[N] \in Stars
    BY <1>14, <2>1
  <2>2. CASE N = 0 \/ parts[N] \notin Stars
    <3>1. N = Len(segs)
      <4>1. parts # <<>> => N # 0
        BY <1>1, NoSegments DEF N
      <4> QED
        BY <1>3, <2>2, <4>1 DEF Last, N
    <3>2. joined[N] = SubSeq(segs, 1, N)
      BY <1>14, <2>2
    <3> QED
      BY <1>1, <3>1, <3>2, SubSeqFull
  <2> QED
    BY <2>1, <2>2
<1> QED
  BY <1>5, <1>10, <1>15 DEF parts, segs, values
-----------------------------------------------------------------------------
(* Routes registered in a good order                                       *)

LEMMA PrefixOfConcat ==
  ASSUME NEW S, NEW s \in Seq(S), NEW t \in Seq(S)
  PROVE  IsPrefix(s, s \o t)
<1>1. /\ s \o t \in Seq(S) /\ Len(s \o t) = Len(s) + Len(t)
      /\ \A i \in 1..(Len(s) + Len(t)) : (s \o t)[i] = IF i <= Len(s) THEN s[i] ELSE t[i - Len(s)]
  BY ConcatProperties
<1>2. Len(s) \in Nat /\ Len(t) \in Nat
  BY SeqFacts
<1>3. Len(s) <= Len(s \o t) /\ \A i \in 1..Len(s) : s[i] = (s \o t)[i]
  BY <1>1, <1>2
<1> QED
  BY <1>1, <1>3, PrefixElements

LEMMA PrefixOfItself ==
  ASSUME NEW S, NEW s \in Seq(S)
  PROVE  IsPrefix(s, s)
<1>1. Len(s) <= Len(s)
  BY SeqFacts
<1> QED
  BY <1>1 DEF IsPrefix

LEMMA PrefixOfPrefix ==
  ASSUME NEW S, NEW s \in Seq(S), NEW t \in Seq(S), NEW u \in Seq(S),
         IsPrefix(s, t), IsPrefix(t, u)
  PROVE  IsPrefix(s, u)
<1>1. Len(s) \in Nat /\ Len(t) \in Nat /\ Len(u) \in Nat
  BY SeqFacts
<1>2. /\ Len(s) <= Len(t) /\ \A i \in 1..Len(s) : s[i] = t[i]
      /\ Len(t) <= Len(u) /\ \A i \in 1..Len(t) : t[i] = u[i]
  BY PrefixElements
<1>3. Len(s) <= Len(u) /\ \A i \in 1..Len(s) : i \in 1..Len(t)
  BY <1>1, <1>2
<1>4. \A i \in 1..Len(s) : s[i] = u[i]
  BY <1>2, <1>3
<1> QED
  BY <1>3, <1>4, PrefixElements

\* The handler of a method and a pattern is the last registered.
HandlersLast ==
  \A i \in DOMAIN routes :
    /\ Key(routes[i].method, routes[i].pattern) \in DOMAIN handlers
    /\ (\A j \in DOMAIN routes :
           routes[j].method = routes[i].method /\ routes[j].pattern = routes[i].pattern => j <= i)
         => handlers[Key(routes[i].method, routes[i].pattern)].group = routes[i].group

\* A group's prefix begins with that of the group around it, a route's pattern
\* with that of its group.
GroupsNest ==
  /\ \A g \in DOMAIN groups :
       groups[g].parent # 0 => IsPrefix(groups[groups[g].parent].prefix, groups[g].prefix)
  /\ \A i \in DOMAIN routes : /\ routes[i].group \in DOMAIN groups
                              /\ IsPrefix(groups[routes[i].group].prefix, routes[i].pattern)

TreesRight ==
  \A mt \in Methods : WellOrdered(mt) =>
    IF roots[mt] = NoTree THEN Routes(mt) = {} ELSE Holds(roots[mt], routes, Routes(mt))

OrderInv == HandlersLast /\ GroupsNest /\ TreesRight

LEMMA InitOrder == Init => OrderInv
<1> SUFFICES ASSUME Init PROVE OrderInv
  OBVIOUS
<1> DEFINE first == [prefix |-> <<>>, middlewares |-> <<>>, parent |-> 0]
<1>1. groups = <<first>> /\ routes = <<>> /\ roots = [mt \in Methods |-> NoTree] /\ first.parent = 0
  BY DEF Init
<1> HIDE DEF first
<1>2. DOMAIN routes = {} /\ DOMAIN groups = {1} /\ groups[1].parent = 0
  BY <1>1
<1>3. \A mt \in Methods : roots[mt] = NoTree /\ Routes(mt) = {}
  BY <1>1, <1>2 DEF Routes
<1> QED
  BY <1>2, <1>3 DEF OrderInv, HandlersLast, GroupsNest, TreesRight

LEMMA TreesRightSame ==
  ASSUME TreesRight, UNCHANGED <<roots, routes>>
  PROVE  TreesRight'
BY DEF TreesRight, WellOrdered, PartsOf, Holds, Newest, Parts, Routes

LEMMA GroupOrder ==
  ASSUME EngineInv, OrderInv, NEW g \in DOMAIN groups, NEW prefix \in GroupPrefixes, Group(g, prefix)
  PROVE  OrderInv'
<1> DEFINE S == [prefix : Seq(Segments), middlewares : Seq(Kinds), parent : Nat]
           more == [prefix |-> groups[g].prefix \o prefix, middlewares |-> <<>>, parent |-> g]
<1>1. groups' = Append(groups, more) /\ UNCHANGED <<roots, handlers, routes>>
  BY DEF Group
<1>2. groups \in Seq(S) /\ Len(groups) \in Nat /\ DOMAIN groups = 1..Len(groups)
      /\ \A h \in DOMAIN groups : groups[h].parent \in 0..(h - 1)
  BY SeqFacts DEF EngineInv, GroupsOK
<1> HIDE DEF S
<1>3. g \in 1..Len(groups) /\ groups[g] \in S
  BY <1>2, SeqFacts
<1>4. prefix \in Seq(Segments) /\ groups[g].prefix \in Seq(Segments)
  BY <1>3, GeeAssumption DEF S
<1>5. more \in S /\ more.parent = g /\ IsPrefix(groups[g].prefix, more.prefix)
  <2>1. groups[g].prefix \o prefix \in Seq(Segments)
    BY <1>4, ConcatProperties
  <2>2. IsPrefix(groups[g].prefix, groups[g].prefix \o prefix)
    BY <1>4, PrefixOfConcat
  <2> QED
    BY <1>3, <2>1, <2>2 DEF S
<1> HIDE DEF more
<1>6. /\ Len(groups') = Len(groups) + 1 /\ groups' \in Seq(S)
      /\ groups'[Len(groups) + 1] = more
      /\ \A h \in 1..Len(groups) : groups'[h] = groups[h]
  BY <1>1, <1>2, <1>5, AppendElements
<1>7. DOMAIN groups' = 1..(Len(groups) + 1)
  BY <1>6
<1>8. \A h \in DOMAIN groups' : h \in DOMAIN groups \/ h = Len(groups) + 1
  BY <1>2, <1>7
<1>9. ASSUME NEW h \in DOMAIN groups', groups'[h].parent # 0
      PROVE  IsPrefix(groups'[groups'[h].parent].prefix, groups'[h].prefix)
  <2>1. CASE h \in DOMAIN groups
    <3>1. groups'[h] = groups[h] /\ groups[h].parent \in 1..Len(groups)
      BY <1>2, <1>6, <1>9, <2>1
    <3> QED
      BY <1>6, <1>9, <2>1, <3>1 DEF OrderInv, GroupsNest
  <2>2. CASE h = Len(groups) + 1
    BY <1>3, <1>5, <1>6, <2>2
  <2> QED
    BY <1>8, <2>1, <2>2, Zenon
<1>10. ASSUME NEW i \in DOMAIN routes'
       PROVE  /\ routes'[i].group \in DOMAIN groups'
              /\ IsPrefix(groups'[routes'[i].group].prefix, routes'[i].pattern)
  <2>1. /\ routes'[i] = routes[i] /\ routes[i].group \in 1..Len(groups)
        /\ IsPrefix(groups[routes[i].group].prefix, routes[i].pattern)
    BY <1>1, <1>2 DEF OrderInv, GroupsNest
  <2>2. routes[i].group \in 1..(Len(groups) + 1)
    BY <1>2, <2>1
  <2>3. groups'[routes[i].group] = groups[routes[i].group]
    BY <1>6, <2>1
  <2> QED
    BY <1>7, <2>1, <2>2, <2>3, Zenon
<1>11. GroupsNest'
  BY <1>9, <1>10 DEF GroupsNest
<1>12. HandlersLast'
  BY <1>1 DEF OrderInv, HandlersLast, Key
<1> QED
  BY <1>1, <1>11, <1>12, TreesRightSame DEF OrderInv

LEMMA UseOrder ==
  ASSUME EngineInv, OrderInv, NEW g \in DOMAIN groups, NEW kind \in Kinds, Use(g, kind)
  PROVE  OrderInv'
<1> DEFINE S == [prefix : Seq(Segments), middlewares : Seq(Kinds), parent : Nat]
<1>1. /\ groups' = [groups EXCEPT ![g].middlewares = Append(@, kind)]
      /\ UNCHANGED <<roots, handlers, routes>>
  BY DEF Use
<1>2. groups \in Seq(S) /\ DOMAIN groups = 1..Len(groups)
      /\ \A h \in DOMAIN groups : groups[h].parent \in 0..(h - 1)
  BY SeqFacts DEF EngineInv, GroupsOK
<1>3. \A h \in DOMAIN groups : groups[h] \in S
  <2> HIDE DEF S
  <2> QED
    BY <1>2, SeqFacts
<1>4. DOMAIN groups' = DOMAIN groups
      /\ \A h \in DOMAIN groups : groups'[h].parent = groups[h].parent /\ groups'[h].prefix = groups[h].prefix
  BY <1>1, <1>3
<1>5. \A h \in DOMAIN groups : groups[h].parent # 0 => groups[h].parent \in DOMAIN groups
  <2> HIDE DEF S
  <2>1. Len(groups) \in Nat
    BY <1>2, SeqFacts
  <2>2. \A h \in 1..Len(groups) : groups[h].parent \in 0..(h - 1)
    BY <1>2
  <2>3. \A h \in 1..Len(groups) : groups[h].parent # 0 => groups[h].parent \in 1..Len(groups)
    BY <2>1, <2>2
  <2> QED
    BY <1>2, <2>3
<1>6. GroupsNest'
  BY <1>1, <1>4, <1>5 DEF OrderInv, GroupsNest
<1>7. HandlersLast'
  BY <1>1 DEF OrderInv, HandlersLast, Key
<1> QED
  BY <1>1, <1>6, <1>7, TreesRightSame DEF OrderInv

\* Routes that are the same to a tree.
LEMMA HoldsSame ==
  ASSUME NEW tree, NEW rs, NEW ts, NEW I, Holds(tree, rs, I), \A i \in I : ts[i] = rs[i]
  PROVE  Holds(tree, ts, I)
<1>1. \A i \in I : Parts(ts, i) = Parts(rs, i) /\ ts[i].pattern = rs[i].pattern
  BY DEF Parts
<1>2. \A i \in I : Newest(ts, I, i) <=> Newest(rs, I, i)
  BY <1>1 DEF Newest
<1> QED
  BY <1>1, <1>2 DEF Holds

LEMMA AddRouteOrder ==
  ASSUME EngineInv, OrderInv, NEW g \in DOMAIN groups, NEW method \in Methods,
         NEW comp \in Seq(Segments), AddRoute(g, method, comp)
  PROVE  OrderInv'
<1> DEFINE S       == [method : Methods, pattern : Seq(Segments), group : Nat]
           G       == [prefix : Seq(Segments), middlewares : Seq(Kinds), parent : Nat]
           pattern == groups[g].prefix \o comp
           key     == Key(method, pattern)
           tree    == IF roots[method] = NoTree THEN RootOnly ELSE roots[method]
           route   == [method |-> method, pattern |-> pattern, group |-> g]
           new     == insert(tree, pattern)
           x       == Len(routes) + 1
<1>1. /\ roots' = [roots EXCEPT ![method] = new]
      /\ handlers' = [k \in DOMAIN handlers \cup {key} |->
                        IF k = key THEN [group |-> g, kind |-> "route"] ELSE handlers[k]]
      /\ routes' = Append(routes, route)
      /\ groups' = groups
  BY DEF AddRoute
<1>2. g \in Nat /\ pattern \in Seq(Segments) /\ IsPrefix(groups[g].prefix, pattern)
  <2>1. groups \in Seq(G)
    BY DEF EngineInv, GroupsOK
  <2> HIDE DEF G
  <2>2. groups[g] \in G /\ g \in Nat
    BY <2>1, SeqFacts
  <2>3. groups[g].prefix \in Seq(Segments)
    BY <2>2 DEF G
  <2> QED
    BY <2>2, <2>3, ConcatProperties, PrefixOfConcat
<1>3. /\ routes \in Seq(S) /\ route \in S
      /\ route.pattern = pattern /\ route.method = method /\ route.group = g
  BY <1>2 DEF EngineInv, RoutesOK
<1>4. \A k \in DOMAIN handlers : handlers'[k] = IF k = key THEN [group |-> g, kind |-> "route"] ELSE handlers[k]
  BY <1>1
<1>5. handlers'[key].group = g
  BY <1>1
<1> HIDE DEF S, pattern, route
<1>6. /\ routes' \in Seq(S) /\ Len(routes') = x /\ Len(routes) \in Nat
      /\ routes'[x] = route
      /\ \A i \in 1..Len(routes) : routes'[i] = routes[i]
  BY <1>1, <1>3, AppendElements, SeqFacts
<1>7. DOMAIN routes = 1..Len(routes) /\ DOMAIN routes' = 1..x
  BY <1>3, <1>6
<1>8. /\ \A i \in DOMAIN routes' : i \in DOMAIN routes \/ i = x
      /\ \A i \in DOMAIN routes : i \in DOMAIN routes' /\ i < x /\ i \in Nat /\ routes'[i] = routes[i]
      /\ x \in Nat /\ x \in DOMAIN routes'
  BY <1>6, <1>7
<1>9. \A i \in DOMAIN routes : routes[i].pattern \in Seq(Segments) /\ routes[i].method \in Methods
  <2>1. \A i \in DOMAIN routes : routes[i] \in S
    BY <1>3, <1>7, SeqFacts
  <2> QED
    BY <2>1 DEF S
<1> HIDE DEF x
<1>10. GroupsNest'
  <2>1. ASSUME NEW i \in DOMAIN routes'
        PROVE  /\ routes'[i].group \in DOMAIN groups
               /\ IsPrefix(groups[routes'[i].group].prefix, routes'[i].pattern)
    <3>1. CASE i \in DOMAIN routes
      BY <1>8, <3>1 DEF OrderInv, GroupsNest
    <3>2. CASE i = x
      BY <1>2, <1>3, <1>6, <3>2
    <3> QED
      BY <1>8, <3>1, <3>2
  <2> QED
    BY <1>1, <2>1 DEF OrderInv, GroupsNest
<1>11. HandlersLast'
  <2>1. ASSUME NEW i \in DOMAIN routes'
        PROVE  Key(routes'[i].method, routes'[i].pattern) \in DOMAIN handlers'
    <3>1. DOMAIN handlers' = DOMAIN handlers \cup {key}
      BY <1>1
    <3>2. CASE i = x
      BY <1>3, <1>6, <3>1, <3>2
    <3>3. CASE i \in DOMAIN routes
      BY <1>8, <3>1, <3>3 DEF OrderInv, HandlersLast
    <3> QED
      BY <1>8, <3>2, <3>3
  <2>2. ASSUME NEW i \in DOMAIN routes',
               \A j \in DOMAIN routes' :
                 routes'[j].method = routes'[i].method /\ routes'[j].pattern = routes'[i].pattern
                   => j <= i
        PROVE  handlers'[Key(routes'[i].method, routes'[i].pattern)].group = routes'[i].group
    <3>1. CASE i = x
      BY <1>3, <1>5, <1>6, <3>1
    <3>2. CASE i \in DOMAIN routes
      <4> DEFINE k == Key(routes[i].method, routes[i].pattern)
      <4>1. routes'[i] = routes[i] /\ i < x /\ x \in Nat /\ i \in Nat
        BY <1>8, <3>2
      <4>2. ~(routes[i].method = method /\ routes[i].pattern = pattern)
        <5> SUFFICES ASSUME routes[i].method = method, routes[i].pattern = pattern PROVE FALSE
          OBVIOUS
        <5>1. x <= i
          BY <1>3, <1>6, <1>8, <2>2, <4>1
        <5> QED
          BY <4>1, <5>1
      <4>3. k # key
        BY <4>2 DEF Key
      <4>4. \A j \in DOMAIN routes :
              routes[j].method = routes[i].method /\ routes[j].pattern = routes[i].pattern => j <= i
        BY <1>8, <2>2, <4>1
      <4>5. k \in DOMAIN handlers /\ handlers[k].group = routes[i].group
        BY <3>2, <4>4 DEF OrderInv, HandlersLast
      <4> QED
        BY <1>4, <4>1, <4>3, <4>5
    <3> QED
      BY <1>8, <2>2, <3>1, <3>2
  <2> QED
    BY <2>1, <2>2 DEF HandlersLast, Key
<1> DEFINE Now(mt)  == {i \in DOMAIN routes' : routes'[i].method = mt}
           Order(mt) == \A i, j \in Now(mt) : i < j => ~Hides(Parts(routes', i), Parts(routes', j))
           Right(mt) == IF roots'[mt] = NoTree THEN Now(mt) = {}
                        ELSE Holds(roots'[mt], routes', Now(mt))
<1>12. DOMAIN roots = Methods
  BY DEF EngineInv, TreesOK
<1>13. \A mt \in Methods : Routes(mt) \subseteq Nat /\ Routes(mt) \subseteq DOMAIN routes
  BY <1>8 DEF Routes
<1>14. ASSUME NEW mt \in Methods, Order(mt)
       PROVE  /\ WellOrdered(mt)
              /\ IF roots[mt] = NoTree THEN Routes(mt) = {} ELSE Holds(roots[mt], routes, Routes(mt))
  <2>1. \A i \in Routes(mt) : i \in Now(mt) /\ Parts(routes', i) = PartsOf(i)
    BY <1>8, <1>13 DEF Routes, Parts, PartsOf
  <2>2. WellOrdered(mt)
    <3> HIDE DEF Now
    <3> QED
      BY <1>14, <2>1 DEF WellOrdered
  <2> QED
    BY <2>2 DEF OrderInv, TreesRight
<1>15. ASSUME NEW mt \in Methods, Order(mt)
       PROVE  Right(mt)
  <2>1. CASE mt # method
    <3>1. roots'[mt] = roots[mt]
      BY <1>1, <1>12, <2>1
    <3>2. Now(mt) = Routes(mt)
      <4>1. routes'[x].method # mt
        BY <1>3, <1>6, <2>1
      <4>2. \A i \in DOMAIN routes' : i \in Now(mt) => i \in Routes(mt)
        BY <1>8, <4>1 DEF Routes
      <4>3. \A i \in DOMAIN routes : i \in Routes(mt) => i \in Now(mt)
        BY <1>8 DEF Routes
      <4> QED
        BY <1>13, <4>2, <4>3
    <3>3. \A i \in Routes(mt) : routes'[i] = routes[i]
      BY <1>8, <1>13
    <3> QED
      BY <1>14, <1>15, <3>1, <3>2, <3>3, HoldsSame
  <2>2. CASE mt = method
    <3>1. roots'[mt] = new
      BY <1>1, <1>12, <2>2
    <3>2. Now(mt) = Routes(mt) \cup {x}
      <4>1. routes'[x].method = mt
        BY <1>3, <1>6, <2>2
      <4>2. \A i \in DOMAIN routes' : i \in Now(mt) => i \in Routes(mt) \cup {x}
        BY <1>8 DEF Routes
      <4>3. \A i \in DOMAIN routes : i \in Routes(mt) => i \in Now(mt)
        BY <1>8 DEF Routes
      <4>4. x \in Now(mt)
        BY <1>8, <4>1
      <4> QED
        BY <1>13, <4>2, <4>3, <4>4
    <3>3. \A i \in Routes(mt) : routes'[i] = routes[i] /\ i < x /\ routes[i].pattern \in Seq(Segments)
      BY <1>8, <1>9, <1>13
    <3>4. routes'[x].pattern = pattern
      BY <1>3, <1>6
    <3>5. \A i \in Routes(mt) : ~Hides(Parts(routes, i), Parts(routes', x))
      <4>1. \A i \in Routes(mt) : ~Hides(Parts(routes', i), Parts(routes', x))
        BY <1>15, <3>2, <3>3
      <4>2. \A i \in Routes(mt) : Parts(routes', i) = Parts(routes, i)
        BY <3>3 DEF Parts
      <4> QED
        BY <4>1, <4>2
    <3>6. Grown(tree) /\ Holds(tree, routes, Routes(mt))
      <4>1. CASE roots[method] = NoTree
        <5>1. tree = RootOnly /\ Routes(mt) = {}
          BY <1>14, <1>15, <2>2, <4>1
        <5> QED
          BY <5>1, RootIsGrown, RootHolds
      <4>2. CASE roots[method] # NoTree
        <5>1. tree = roots[mt] /\ Grown(roots[mt])
          BY <2>2, <4>2 DEF EngineInv, TreesOK
        <5> QED
          BY <1>14, <1>15, <2>2, <4>2, <5>1
      <4> QED
        BY <4>1, <4>2
    <3> HIDE DEF tree, Now
    <3>7. Holds(new, routes', Routes(mt) \cup {x})
      BY <1>2, <1>8, <1>13, <3>3, <3>4, <3>5, <3>6, InsertHolds
    <3>8. new # NoTree
      <4>1. Grown(new)
        BY <1>2, <3>6, InsertFacts
      <4>2. <<>> \in DOMAIN new
        BY <4>1 DEF Grown
      <4> QED
        BY <4>2 DEF NoTree
    <3> QED
      BY <3>1, <3>2, <3>7, <3>8
  <2> QED
    BY <2>1, <2>2
<1>16. TreesRight'
  <2>1. \A mt \in Methods : WellOrdered(mt)' => Order(mt)
    BY DEF WellOrdered, PartsOf, Parts, Routes
  <2>2. \A mt \in Methods : Right(mt) =>
          (IF roots[mt] = NoTree THEN Routes(mt) = {} ELSE Holds(roots[mt], routes, Routes(mt)))'
    BY DEF Holds, Newest, Parts, Routes
  <2> HIDE DEF Order, Right
  <2> QED
    BY <1>15, <2>1, <2>2 DEF TreesRight
<1> QED
  BY <1>10, <1>11, <1>16 DEF OrderInv

LEMMA NextOrder ==
  ASSUME EngineInv, OrderInv, [Next]_vars
  PROVE  OrderInv'
<1>1. CASE UNCHANGED <<groups, roots, handlers, routes>>
  <2>1. TreesRight'
    BY <1>1, TreesRightSame DEF OrderInv
  <2>2. HandlersLast' /\ GroupsNest'
    BY <1>1 DEF OrderInv, HandlersLast, GroupsNest, Key
  <2> QED
    BY <2>1, <2>2 DEF OrderInv
<1>2. CASE Register
  <2>1. PICK g \in DOMAIN groups :
          \/ \E prefix \in GroupPrefixes : Group(g, prefix)
          \/ \E kind \in Kinds : Use(g, kind)
          \/ \E mt \in Methods, comp \in Comps : AddRoute(g, mt, comp)
          \/ \E comp \in Comps : Static(g, comp)
    BY <1>2 DEF Register
  <2>2. CASE \E prefix \in GroupPrefixes : Group(g, prefix)
    BY <2>2, GroupOrder
  <2>3. CASE \E kind \in Kinds : Use(g, kind)
    BY <2>3, UseOrder
  <2>4. CASE \E mt \in Methods, comp \in Comps : AddRoute(g, mt, comp)
    BY <2>4, AddRouteOrder, GeeAssumption
  <2>5. CASE \E comp \in Comps : Static(g, comp)
    <3>1. PICK comp \in Comps : Static(g, comp)
      BY <2>5
    <3>2. NonEmpty(comp) \in Seq(Segments) /\ Filepath \in Segments
      BY GeeAssumption, NonEmptyIsPath
    <3> DEFINE file == Append(NonEmpty(comp), Filepath)
    <3>3. file \in Seq(Segments)
      BY <3>2, AppendElements
    <3>4. AddRoute(g, "GET", file) /\ "GET" \in Methods
      BY <3>1, GeeAssumption DEF Static
    <3> HIDE DEF file
    <3> QED
      BY <3>3, <3>4, AddRouteOrder
  <2> QED
    BY <2>1, <2>2, <2>3, <2>4, <2>5
<1>3. CASE Run
  BY <1>1, <1>3 DEF Run
<1>4. CASE \E mt \in Methods, path \in Paths : ServeHTTP(mt, path)
  BY <1>1, <1>4 DEF ServeHTTP, setup
<1>5. CASE Serve /\ UNCHANGED <<setup, params>>
  BY <1>1, <1>5 DEF setup
<1>6. CASE UNCHANGED vars
  BY <1>1, <1>6 DEF vars, setup
<1> QED
  BY <1>2, <1>3, <1>4, <1>5, <1>6 DEF Next

LEMMA OrderInvariant == Spec => []OrderInv
BY EngineInvariant, InitOrder, NextOrder, PTL DEF Spec

\* What serves a path, if anything does: a route that matches it, better than
\* the others, and that route's group.
FoundBy(mt, path, i) ==
  LET segs == parsePattern(path)
      hits == {j \in Routes(mt) : Matches(PartsOf(j), segs)}
  IN  /\ i \in hits
      /\ getRoute(roots[mt], path) = routes[i].pattern
      /\ \A j \in hits : PartsOf(j) = PartsOf(i) \/ Beats(PartsOf(i), PartsOf(j))
      /\ \A j \in hits : PartsOf(j) = PartsOf(i) => j <= i
      /\ handlers[Key(mt, routes[i].pattern)].group = routes[i].group

LEMMA RoutesAreRight ==
  ASSUME EngineInv, OrderInv, NEW mt \in Methods, WellOrdered(mt), NEW path \in Seq(Segments)
  PROVE  IF \A i \in Routes(mt) : ~Matches(PartsOf(i), parsePattern(path))
           THEN getRoute(roots[mt], path) = NoPattern
           ELSE \E i \in Routes(mt) : FoundBy(mt, path, i)
<1> DEFINE tree == roots[mt]
           segs == parsePattern(path)
           I    == Routes(mt)
           hits == HitsOf(routes, I, segs)
           S    == [method : Methods, pattern : Seq(Segments), group : Nat]
<1>1. segs \in Seq(Segments)
  BY PartsArePath
<1>2. I \in SUBSET Nat /\ \A i \in I : /\ routes[i].pattern \in Seq(Segments)
                                       /\ i \in DOMAIN routes /\ routes[i].method = mt
  <2>1. routes \in Seq(S)
    BY DEF EngineInv, RoutesOK
  <2> HIDE DEF S
  <2>2. DOMAIN routes \subseteq Nat /\ \A i \in DOMAIN routes : routes[i] \in S
    BY <2>1, SeqFacts
  <2> QED
    BY <2>2 DEF Routes, S
<1>3. \A i : Parts(routes, i) = PartsOf(i)
  BY DEF Parts, PartsOf
<1>4. IF tree = NoTree THEN I = {} ELSE Grown(tree) /\ Holds(tree, routes, I)
  BY DEF OrderInv, TreesRight, EngineInv, TreesOK
<1>5. getRoute(tree, path) = IF tree = NoTree THEN NoPattern ELSE search(tree, segs)
  BY DEF getRoute
<1> HIDE DEF tree, segs, I
<1>6. CASE tree = NoTree
  BY <1>3, <1>4, <1>5, <1>6 DEF tree, segs, I
<1>7. CASE tree # NoTree
  <2>1. IF hits = {} THEN search(tree, segs) = NoPattern
        ELSE \E i \in hits : BestOf(routes, I, hits, i) /\ search(tree, segs) = routes[i].pattern
    <3>1. Grown(tree) /\ Holds(tree, routes, I)
      BY <1>4, <1>7
    <3>2. I \in SUBSET Nat /\ \A i \in I : routes[i].pattern \in Seq(Segments)
      BY <1>2
    <3> QED
      BY <1>1, <3>1, <3>2, SearchIsRight
  <2>2. CASE hits = {}
    BY <1>3, <1>5, <1>7, <2>1, <2>2 DEF tree, segs, I, HitsOf
  <2>3. CASE hits # {}
    <3>1. PICK i \in hits : BestOf(routes, I, hits, i) /\ search(tree, segs) = routes[i].pattern
      BY <2>1, <2>3
    <3>2. i \in I /\ Newest(routes, I, i)
      BY <3>1 DEF BestOf, HitsOf
    <3>3. \A j \in I : PartsOf(j) = PartsOf(i) => j <= i
      BY <1>3, <3>2 DEF Newest
    <3>4. \A j \in hits : PartsOf(j) = PartsOf(i) \/ Beats(PartsOf(i), PartsOf(j))
      BY <1>3, <3>1 DEF BestOf
    <3>5. handlers[Key(mt, routes[i].pattern)].group = routes[i].group
      <4>1. ASSUME NEW j \in DOMAIN routes, routes[j].method = routes[i].method,
                   routes[j].pattern = routes[i].pattern
            PROVE  j <= i
        <5>1. j \in I /\ PartsOf(j) = PartsOf(i)
          BY <1>2, <3>2, <4>1 DEF I, Routes, PartsOf
        <5> QED
          BY <3>3, <5>1
      <4>2. i \in DOMAIN routes /\ routes[i].method = mt
        BY <1>2, <3>2
      <4> QED
        BY <4>1, <4>2 DEF OrderInv, HandlersLast
    <3>6. getRoute(tree, path) = routes[i].pattern
      BY <1>5, <1>7, <3>1
    <3>7. hits = {j \in Routes(mt) : Matches(PartsOf(j), parsePattern(path))}
      BY <1>3 DEF I, segs, HitsOf
    <3> HIDE DEF hits
    <3>8. \A j \in hits : j \in I
      BY <3>7 DEF I
    <3>9. FoundBy(mt, path, i)
      BY <3>3, <3>4, <3>5, <3>6, <3>7, <3>8 DEF FoundBy, tree
    <3>10. i \in Routes(mt) /\ Matches(PartsOf(i), parsePattern(path))
      BY <3>7
    <3> QED
      BY <3>9, <3>10
  <2> QED
    BY <2>2, <2>3
<1> QED
  BY <1>6, <1>7

\* trie.go:35-72, router.go:37-70: for any segments, groups and routes, and as
\* many calls as there may be: of routes registered in a good order a path
\* finds the best that matches it, with its last handler and, if their names
\* differ, parameters that give the path again.
THEOREM BestRouteFound == Spec => []RoutesRight
<1>1. EngineInv /\ OrderInv => RoutesRight
  <2> SUFFICES ASSUME EngineInv, OrderInv, NEW mt \in Methods, WellOrdered(mt), NEW path \in Paths
               PROVE  LET segs    == parsePattern(path)
                          hits    == {i \in Routes(mt) : Matches(PartsOf(i), segs)}
                          pattern == getRoute(roots[mt], path)
                      IN  IF hits = {} THEN pattern = NoPattern
                          ELSE \E i \in hits :
                            /\ routes[i].pattern = pattern
                            /\ \A j \in hits : PartsOf(j) = PartsOf(i) \/ Beats(PartsOf(i), PartsOf(j))
                            /\ \A j \in hits : PartsOf(j) = PartsOf(i) => j <= i
                            /\ handlers[Key(mt, pattern)].group = routes[i].group
                            /\ DistinctNames(PartsOf(i))
                                 => Filled(PartsOf(i), routeParams(pattern, path)) = segs
    BY Zenon DEF RoutesRight
  <2> DEFINE segs    == parsePattern(path)
             hits    == {i \in Routes(mt) : Matches(PartsOf(i), segs)}
             pattern == getRoute(roots[mt], path)
  <2>1. path \in Seq(Segments)
    BY GeeAssumption
  <2>2. IF \A i \in Routes(mt) : ~Matches(PartsOf(i), segs) THEN pattern = NoPattern
        ELSE \E i \in Routes(mt) : FoundBy(mt, path, i)
    BY <2>1, RoutesAreRight
  <2>3. CASE hits = {}
    BY <2>2, <2>3
  <2>4. CASE hits # {}
    <3>1. PICK i \in Routes(mt) : FoundBy(mt, path, i)
      BY <2>2, <2>4
    <3>2. /\ i \in hits /\ pattern = routes[i].pattern
          /\ \A j \in hits : PartsOf(j) = PartsOf(i) \/ Beats(PartsOf(i), PartsOf(j))
          /\ \A j \in hits : PartsOf(j) = PartsOf(i) => j <= i
          /\ handlers[Key(mt, pattern)].group = routes[i].group
      BY <3>1 DEF FoundBy
    <3>3. routes[i].pattern \in Seq(Segments)
      <4> DEFINE S == [method : Methods, pattern : Seq(Segments), group : Nat]
      <4>1. routes \in Seq(S) /\ i \in DOMAIN routes
        BY DEF EngineInv, RoutesOK, Routes
      <4> HIDE DEF S
      <4>2. routes[i] \in S
        BY <4>1, SeqFacts
      <4> QED
        BY <4>2 DEF S
    <3>4. PartsOf(i) = parsePattern(pattern) /\ Matches(parsePattern(pattern), segs)
      BY <3>2 DEF PartsOf
    <3>5. DistinctNames(PartsOf(i)) => Filled(PartsOf(i), routeParams(pattern, path)) = segs
      BY <2>1, <3>2, <3>3, <3>4, ParametersFill
    <3> HIDE DEF pattern, hits, segs
    <3> QED
      BY <2>4, <3>2, <3>5 DEF pattern, hits, segs
  <2> QED
    BY <2>3, <2>4
<1> QED
  BY EngineInvariant, OrderInvariant, <1>1, PTL
-----------------------------------------------------------------------------
(* The middlewares of the groups around a route                            *)

\* sifted holds what OfGroups keeps of the beginnings of a chain.
Sifts(sifted, H, hs, around) ==
  /\ \A i \in 0..Len(hs) : sifted[i] \in Seq(H)
  /\ sifted[0] = <<>>
  /\ \A i \in 1..Len(hs) :
       sifted[i] = IF hs[i].group \in around THEN Append(sifted[i - 1], hs[i]) ELSE sifted[i - 1]

LEMMA OfGroupsDefined ==
  ASSUME NEW H, NEW hs \in Seq(H), NEW around
  PROVE  \E sifted : Sifts(sifted, H, hs, around) /\ OfGroups(hs, around) = sifted[Len(hs)]
<1> DEFINE N == Len(hs)
           S == Seq(H)
           Step(i, s) == IF hs[i].group \in around THEN Append(s, hs[i]) ELSE s
           Is(f) == f = [i \in 0..N |->
                          IF i = 0 THEN <<>>
                          ELSE IF hs[i].group \in around THEN Append(f[i - 1], hs[i])
                          ELSE f[i - 1]]
           F == [i \in 1..N |-> [s \in S |-> Step(i, s)]]
           kept == CHOOSE f : Is(f)
<1>1. OfGroups(hs, around) = kept[N]
  BY DEF OfGroups
<1>2. N \in Nat /\ \A i \in 1..N : hs[i] \in H
  BY SeqFacts
<1>3. <<>> \in S
  OBVIOUS
<1>4. \A i \in 1..N, s \in S : Step(i, s) \in S
  BY <1>2
<1> HIDE DEF N, S
<1>5. F \in [1..N -> [S -> S]]
  BY <1>4
<1>6. \A i \in 1..N, s \in S : F[i][s] = Step(i, s)
  OBVIOUS
<1> HIDE DEF F
<1>7. PICK g : Continues(g, S, <<>>, F, N)
  BY <1>2, <1>3, <1>5, Continued
<1>8. g \in [0..N -> S] /\ g[0] = <<>> /\ \A i \in 1..N : g[i] = Step(i, g[i - 1])
  <2>1. g \in [0..N -> S] /\ g[0] = <<>> /\ \A i \in 1..N : g[i] = F[i][g[i - 1]]
    BY <1>7 DEF Continues
  <2>2. \A i \in 1..N : i - 1 \in 0..N
    BY <1>2
  <2>3. \A i \in 1..N : g[i - 1] \in S
    BY <2>1, <2>2
  <2> HIDE DEF Step
  <2> QED
    BY <1>6, <2>1, <2>3
<1>9. Is(g)
  <2>1. \A i \in 0..N : i = 0 \/ i \in 1..N
    BY <1>2
  <2>2. \A i \in 0..N : g[i] = IF i = 0 THEN <<>> ELSE Step(i, g[i - 1])
    BY <1>8, <2>1
  <2>3. g = [i \in 0..N |-> g[i]]
    BY <1>8
  <2> QED
    BY <2>2, <2>3
<1>10. Is(kept)
  <2> HIDE DEF Is
  <2> QED
    BY <1>9
<1> HIDE DEF kept
<1>11. kept[0] = <<>> /\ \A i \in 1..N : kept[i] = Step(i, kept[i - 1])
  <2>1. \A i \in 0..N : kept[i] = IF i = 0 THEN <<>> ELSE Step(i, kept[i - 1])
    BY <1>10, Zenon
  <2>2. 0 \in 0..N /\ \A i \in 1..N : i \in 0..N /\ i # 0
    BY <1>2
  <2> HIDE DEF Step
  <2> QED
    BY <2>1, <2>2, Zenon
<1> DEFINE T == {i \in 0..N : kept[i] \in S}
<1>12. 0 \in T
  BY <1>2, <1>3, <1>11
<1>13. ASSUME NEW i \in 1..N, i - 1 \in T
       PROVE  i \in T
  <2>1. kept[i] = Step(i, kept[i - 1]) /\ kept[i - 1] \in S
    BY <1>11, <1>13
  <2>2. kept[i] \in S
    BY <1>4, <2>1
  <2> QED
    BY <1>2, <2>2
<1>14. \A i \in 0..N : kept[i] \in S
  <2> HIDE DEF T
  <2>1. \A i \in 0..N : i \in T
    BY <1>2, <1>12, <1>13, Induction
  <2> QED
    BY <2>1 DEF T
<1>15. Sifts(kept, H, hs, around)
  BY <1>11, <1>14 DEF Sifts, N, S
<1> QED
  BY <1>1, <1>15 DEF N

\* The provers find facts about these more easily under a name.
Joined(s, t) == s \o t

Extended(s, x) == Append(s, x)

LEMMA AppendToConcat ==
  ASSUME NEW S, NEW s \in Seq(S), NEW t \in Seq(S), NEW x \in S
  PROVE  Extended(Joined(s, t), x) = Joined(s, Extended(t, x))
<1> DEFINE a == Append(s \o t, x)
           b == s \o Append(t, x)
           m == Len(s)
           n == Len(t)
<1>1. /\ s \o t \in Seq(S) /\ Len(s \o t) = m + n /\ m \in Nat /\ n \in Nat
      /\ \A i \in 1..(m + n) : (s \o t)[i] = IF i <= m THEN s[i] ELSE t[i - m]
  BY ConcatProperties, SeqFacts
<1>2. /\ Append(t, x) \in Seq(S) /\ Len(Append(t, x)) = n + 1 /\ Append(t, x)[n + 1] = x
      /\ \A i \in 1..n : Append(t, x)[i] = t[i]
  BY AppendElements
<1>3. /\ a \in Seq(S) /\ Len(a) = (m + n) + 1 /\ a[(m + n) + 1] = x
      /\ \A i \in 1..(m + n) : a[i] = (s \o t)[i]
  BY <1>1, AppendElements
<1>4. /\ b \in Seq(S) /\ Len(b) = m + (n + 1)
      /\ \A i \in 1..(m + (n + 1)) : b[i] = IF i <= m THEN s[i] ELSE Append(t, x)[i - m]
  BY <1>2, ConcatProperties
<1> HIDE DEF a, b, m, n
<1>5. Len(a) = Len(b)
  BY <1>1, <1>3, <1>4
<1>6. ASSUME NEW i \in 1..Len(a)
      PROVE  a[i] = b[i]
  <2>1. CASE i = (m + n) + 1
    <3>1. i \in 1..(m + (n + 1)) /\ ~(i <= m) /\ i - m = n + 1
      BY <1>1, <2>1
    <3> QED
      BY <1>2, <1>3, <1>4, <2>1, <3>1
  <2>2. CASE i # (m + n) + 1
    <3>1. i \in 1..(m + n) /\ i \in 1..(m + (n + 1)) /\ (~(i <= m) => i - m \in 1..n)
      BY <1>1, <1>3, <2>2
    <3> QED
      BY <1>1, <1>2, <1>3, <1>4, <3>1
  <2> QED
    BY <2>1, <2>2
<1>7. a = b
  BY <1>3, <1>4, <1>5, <1>6, SeqEqual
<1> QED
  BY <1>7 DEF a, b, Joined, Extended

\* The handlers of one more group are kept if it is one of the groups.
LEMMA OfGroupsConcat ==
  ASSUME NEW H, NEW s \in Seq(H), NEW t \in Seq(H), NEW around, NEW g,
         \A i \in 1..Len(t) : t[i].group = g
  PROVE  OfGroups(Joined(s, t), around)
           = Joined(OfGroups(s, around), IF g \in around THEN t ELSE <<>>)
<1> DEFINE M == Len(s)
           N == Len(t)
           u == s \o t
           More(i) == IF g \in around THEN SubSeq(t, 1, i) ELSE <<>>
<1>1. /\ u \in Seq(H) /\ Len(u) = M + N /\ M \in Nat /\ N \in Nat
      /\ \A i \in 1..(M + N) : u[i] = IF i <= M THEN s[i] ELSE t[i - M]
  BY ConcatProperties, SeqFacts
<1>2. \A i \in 1..N : t[i] \in H /\ t[i].group = g
  BY SeqFacts
<1> HIDE DEF u
<1>3. PICK a : Sifts(a, H, s, around) /\ OfGroups(s, around) = a[M]
  BY OfGroupsDefined
<1>4. PICK b : Sifts(b, H, u, around) /\ OfGroups(u, around) = b[Len(u)]
  BY <1>1, OfGroupsDefined
<1>5. /\ \A i \in 0..M : a[i] \in Seq(H)
      /\ a[0] = <<>>
      /\ \A i \in 1..M : a[i] = IF s[i].group \in around THEN Append(a[i - 1], s[i]) ELSE a[i - 1]
  BY <1>3 DEF Sifts
<1>6. /\ b[0] = <<>>
      /\ \A i \in 1..(M + N) :
           b[i] = IF u[i].group \in around THEN Append(b[i - 1], u[i]) ELSE b[i - 1]
  BY <1>1, <1>4 DEF Sifts
<1>7. /\ \A i \in 0..N : More(i) \in Seq(H)
      /\ \A i \in 1..N : More(i) = IF g \in around THEN Append(More(i - 1), t[i]) ELSE More(i - 1)
      /\ More(0) = <<>> /\ More(N) = IF g \in around THEN t ELSE <<>>
  <2>1. \A i \in 0..N : SubSeq(t, 1, i) \in Seq(H)
    BY Beginning
  <2>2. \A i \in 1..N : SubSeq(t, 1, i) = Append(SubSeq(t, 1, i - 1), t[i])
    BY BeginningGrows
  <2>3. SubSeq(t, 1, 0) = <<>>
    <3>1. 0 \in 0..N
      BY <1>1
    <3> QED
      BY <3>1, Beginning, NoSegments
  <2>4. SubSeq(t, 1, N) = t
    BY SubSeqFull
  <2>5. <<>> \in Seq(H)
    OBVIOUS
  <2> QED
    BY <2>1, <2>2, <2>3, <2>4, <2>5
<1> HIDE DEF M, N, More
<1> DEFINE T == {i \in 0..M : b[i] = a[i]}
<1>8. 0 \in T
  BY <1>1, <1>5, <1>6
<1>9. ASSUME NEW i \in 1..M, i - 1 \in T
      PROVE  i \in T
  <2>1. i \in 1..(M + N) /\ i <= M /\ i \in 0..M
    BY <1>1
  <2>2. u[i] = s[i] /\ b[i - 1] = a[i - 1]
    BY <1>1, <1>9, <2>1
  <2>3. b[i] = a[i]
    BY <1>5, <1>6, <2>1, <2>2
  <2> QED
    BY <2>1, <2>3
<1>10. b[M] = a[M] /\ a[M] \in Seq(H)
  <2>1. M \in T
    <3> HIDE DEF T
    <3>1. \A i \in 0..M : i \in T
      BY <1>1, <1>8, <1>9, Induction
    <3> QED
      BY <1>1, <3>1
  <2> QED
    BY <1>5, <2>1
<1> HIDE DEF T
<1> DEFINE U == {i \in 0..N : b[M + i] = a[M] \o More(i)}
<1>11. 0 \in U
  <2>1. a[M] \o <<>> = a[M]
    BY <1>10, ConcatEmptySeq
  <2>2. M + 0 = M /\ 0 \in 0..N
    BY <1>1
  <2>3. b[M + 0] = a[M] \o More(0)
    BY <1>7, <1>10, <2>1, <2>2
  <2> QED
    BY <2>2, <2>3, Zenon
<1>12. ASSUME NEW i \in 1..N, i - 1 \in U
       PROVE  i \in U
  <2>1. /\ M + i \in 1..(M + N) /\ ~(M + i <= M) /\ (M + i) - M = i /\ i \in 0..N
        /\ (M + i) - 1 = M + (i - 1) /\ i - 1 \in 0..N
    BY <1>1
  <2>2. u[M + i] = t[i] /\ b[(M + i) - 1] = a[M] \o More(i - 1)
    BY <1>1, <1>12, <2>1
  <2>3. b[M + i] = IF t[i].group \in around THEN Append(a[M] \o More(i - 1), t[i])
                   ELSE a[M] \o More(i - 1)
    BY <1>6, <2>1, <2>2
  <2>4. Append(a[M] \o More(i - 1), t[i]) = a[M] \o Append(More(i - 1), t[i])
    <3>1. More(i - 1) \in Seq(H) /\ t[i] \in H
      BY <1>2, <1>7, <2>1
    <3>2. Extended(Joined(a[M], More(i - 1)), t[i]) = Joined(a[M], Extended(More(i - 1), t[i]))
      BY <1>10, <3>1, AppendToConcat
    <3> QED
      BY <3>2 DEF Joined, Extended
  <2>5. b[M + i] = a[M] \o More(i)
    BY <1>2, <1>7, <2>3, <2>4
  <2> QED
    BY <2>1, <2>5
<1>13. N \in U
  <2> HIDE DEF U
  <2>1. \A i \in 0..N : i \in U
    BY <1>1, <1>11, <1>12, Induction
  <2> QED
    BY <1>1, <2>1
<1>14. b[M + N] = a[M] \o (IF g \in around THEN t ELSE <<>>)
  BY <1>7, <1>13
<1> QED
  BY <1>1, <1>3, <1>4, <1>14 DEF u, Joined

LEMMA OfGroupsNone ==
  ASSUME NEW around
  PROVE  OfGroups(<<>>, around) = <<>>
<1>1. <<>> \in Seq({}) /\ Len(<<>>) = 0
  OBVIOUS
<1>2. PICK a : Sifts(a, {}, <<>>, around) /\ OfGroups(<<>>, around) = a[Len(<<>>)]
  BY <1>1, OfGroupsDefined
<1> QED
  BY <1>1, <1>2 DEF Sifts

\* What is kept of the handlers of all groups are those of the groups around.
LEMMA OfGroupsFlatten ==
  ASSUME NEW H, NEW all \in Seq(Seq(H)), NEW some \in Seq(Seq(H)), Len(some) = Len(all), NEW around,
         \A g \in 1..Len(all) : \A i \in 1..Len(all[g]) : all[g][i].group = g,
         \A g \in 1..Len(all) : some[g] = IF g \in around THEN all[g] ELSE <<>>
  PROVE  OfGroups(FlattenSeq(all), around) = FlattenSeq(some)
<1> DEFINE N == Len(all)
<1>1. N \in Nat /\ (Len(all) = 0 => all = <<>>) /\ (Len(some) = 0 => some = <<>>)
  BY SeqFacts, NoSegments
<1>2. \A g \in 1..N : all[g] \in Seq(H) /\ some[g] \in Seq(H)
  <2> DEFINE S == Seq(H)
  <2> HIDE DEF S
  <2>1. all \in Seq(S) /\ some \in Seq(S)
    BY DEF S
  <2>2. \A g \in 1..N : all[g] \in S /\ some[g] \in S
    BY <2>1, SeqFacts
  <2> QED
    BY <2>2 DEF S
<1>3. PICK a : Joins(a, H, all) /\ FlattenSeq(all) = a[N]
  BY <1>1, <1>2, FlattenDefined
<1>4. PICK b : Joins(b, H, some) /\ FlattenSeq(some) = b[N]
  BY <1>1, <1>2, FlattenDefined
<1>5. /\ a \in [0..N -> Seq(H)] /\ a[0] = <<>> /\ \A g \in 1..N : a[g] = a[g - 1] \o all[g]
      /\ b \in [0..N -> Seq(H)] /\ b[0] = <<>> /\ \A g \in 1..N : b[g] = b[g - 1] \o some[g]
  BY <1>3, <1>4 DEF Joins
<1>6. \A g \in 1..N : /\ \A i \in 1..Len(all[g]) : all[g][i].group = g
                      /\ some[g] = IF g \in around THEN all[g] ELSE <<>>
  OBVIOUS
<1> HIDE DEF N
<1> DEFINE T == {g \in 0..N : OfGroups(a[g], around) = b[g]}
<1>7. 0 \in T
  BY <1>1, <1>5, OfGroupsNone
<1>8. ASSUME NEW g \in 1..N, g - 1 \in T
      PROVE  g \in T
  <2>1. g \in 0..N /\ g - 1 \in 0..N
    BY <1>1
  <2>2. a[g - 1] \in Seq(H) /\ OfGroups(a[g - 1], around) = b[g - 1]
    BY <1>5, <1>8, <2>1
  <2> DEFINE s == a[g - 1]
             t == all[g]
  <2>3. OfGroups(Joined(s, t), around)
          = Joined(OfGroups(s, around), IF g \in around THEN t ELSE <<>>)
    <3>1. s \in Seq(H) /\ t \in Seq(H) /\ \A i \in 1..Len(t) : t[i].group = g
      BY <1>2, <1>6, <2>2
    <3> HIDE DEF s, t
    <3> QED
      BY <3>1, OfGroupsConcat
  <2>4. OfGroups(a[g], around) = b[g]
    BY <1>5, <1>6, <2>2, <2>3 DEF Joined
  <2> QED
    BY <2>1, <2>4
<1>9. N \in T
  <2> HIDE DEF T
  <2>1. \A g \in 0..N : g \in T
    BY <1>1, <1>7, <1>8, Induction
  <2> QED
    BY <1>1, <2>1
<1> QED
  BY <1>3, <1>4, <1>9

\* up holds the groups around each of the groups up to n.
Climbs(up, n) ==
  /\ DOMAIN up = 0..n
  /\ up = [h \in 0..n |-> up[h]]
  /\ \A h \in 0..n : up[h] = IF h = 0 THEN {} ELSE {h} \cup up[groups[h].parent]

LEMMA AncestorsDefined ==
  ASSUME EngineInv, NEW g \in DOMAIN groups
  PROVE  \E up : Climbs(up, g) /\ Ancestors(g) = up[g]
<1> DEFINE Is(f) == f = [h \in 0..g |-> IF h = 0 THEN {} ELSE {h} \cup f[groups[h].parent]]
           up == CHOOSE f : Is(f)
           T  == {n \in 0..g : \E f : Climbs(f, n)}
<1>1. Ancestors(g) = up[g]
  BY DEF Ancestors
<1>2. g \in Nat /\ \A h \in 1..g : groups[h].parent \in 0..(h - 1)
  <2> DEFINE G == [prefix : Seq(Segments), middlewares : Seq(Kinds), parent : Nat]
  <2>1. groups \in Seq(G) /\ \A h \in DOMAIN groups : groups[h].parent \in 0..(h - 1)
    BY DEF EngineInv, GroupsOK
  <2> HIDE DEF G
  <2>2. DOMAIN groups = 1..Len(groups) /\ Len(groups) \in Nat
    BY <2>1, SeqFacts
  <2>3. g \in Nat /\ \A h \in 1..g : h \in DOMAIN groups
    BY <2>2
  <2> QED
    BY <2>1, <2>3
<1>3. 0 \in T
  <2> DEFINE f == [h \in 0..0 |-> {}]
  <2>1. \A h \in 0..0 : h = 0 /\ f[h] = {}
    OBVIOUS
  <2>2. DOMAIN f = 0..0 /\ f = [h \in 0..0 |-> f[h]]
    OBVIOUS
  <2> HIDE DEF f
  <2>3. Climbs(f, 0)
    BY <2>1, <2>2 DEF Climbs
  <2> QED
    BY <1>2, <2>3
<1>4. ASSUME NEW n \in 1..g, n - 1 \in T
      PROVE  n \in T
  <2>1. PICK f : Climbs(f, n - 1)
    BY <1>4
  <2> DEFINE e == [h \in 0..n |-> IF h = n THEN {n} \cup f[groups[n].parent] ELSE f[h]]
  <2>2. n \in 0..n /\ n # 0 /\ groups[n].parent \in 0..(n - 1)
    BY <1>2
  <2>3. \A h \in 0..(n - 1) : h \in 0..n /\ h # n
    BY <1>2
  <2>4. e[n] = {n} \cup f[groups[n].parent] /\ \A h \in 0..(n - 1) : e[h] = f[h]
    BY <2>2, <2>3
  <2>5. DOMAIN e = 0..n /\ e = [h \in 0..n |-> e[h]]
    OBVIOUS
  <2> HIDE DEF e
  <2>6. ASSUME NEW h \in 0..n
        PROVE  e[h] = IF h = 0 THEN {} ELSE {h} \cup e[groups[h].parent]
    <3>1. CASE h = n
      BY <2>2, <2>4, <3>1
    <3>2. CASE h # n
      <4>1. h \in 0..(n - 1) /\ (h # 0 => groups[h].parent \in 0..(n - 1))
        <5>1. h \in 0..(n - 1)
          BY <1>2, <3>2
        <5>2. h # 0 => h \in 1..g /\ h <= n
          BY <1>2, <5>1
        <5>3. h # 0 => groups[h].parent \in 0..(h - 1)
          BY <1>2, <5>2
        <5> QED
          BY <1>2, <5>1, <5>2, <5>3
      <4>2. f[h] = IF h = 0 THEN {} ELSE {h} \cup f[groups[h].parent]
        BY <2>1, <4>1 DEF Climbs
      <4> QED
        BY <2>4, <4>1, <4>2
    <3> QED
      BY <3>1, <3>2
  <2>7. Climbs(e, n)
    BY <2>5, <2>6 DEF Climbs
  <2>8. n \in 0..g
    BY <1>2
  <2> QED
    BY <2>7, <2>8
<1>5. g \in T
  <2> HIDE DEF T
  <2>1. \A n \in 0..g : n \in T
    BY <1>2, <1>3, <1>4, Induction
  <2> QED
    BY <1>2, <2>1
<1>6. PICK f : Climbs(f, g)
  BY <1>5
<1>7. Is(f)
  BY <1>6, Zenon DEF Climbs
<1>8. Is(up)
  <2> HIDE DEF Is
  <2> QED
    BY <1>7
<1> HIDE DEF up
<1>9. Climbs(up, g)
  BY <1>8, Zenon DEF Climbs
<1> QED
  BY <1>1, <1>9

\* A group's prefix begins with the prefix of each group around it.
LEMMA AncestorsAreAround ==
  ASSUME EngineInv, OrderInv, NEW g \in DOMAIN groups
  PROVE  \A a \in Ancestors(g) : /\ a \in DOMAIN groups
                                 /\ IsPrefix(groups[a].prefix, groups[g].prefix)
<1> DEFINE G == [prefix : Seq(Segments), middlewares : Seq(Kinds), parent : Nat]
           N == Len(groups)
           Fine(h) == \A a \in Ancestors(h) : /\ a \in DOMAIN groups
                                              /\ IsPrefix(groups[a].prefix, groups[h].prefix)
<1>1. PICK up : Climbs(up, g) /\ Ancestors(g) = up[g]
  BY AncestorsDefined
<1>2. \A h \in 0..g : up[h] = IF h = 0 THEN {} ELSE {h} \cup up[groups[h].parent]
  BY <1>1 DEF Climbs
<1>3. /\ DOMAIN groups = 1..N /\ N \in Nat
      /\ \A h \in 1..N : groups[h].parent \in 0..(h - 1) /\ groups[h].prefix \in Seq(Segments)
  <2>1. groups \in Seq(G) /\ \A h \in DOMAIN groups : groups[h].parent \in 0..(h - 1)
    BY DEF EngineInv, GroupsOK
  <2> HIDE DEF G
  <2>2. DOMAIN groups = 1..N /\ N \in Nat /\ \A h \in 1..N : groups[h] \in G
    BY <2>1, SeqFacts
  <2> QED
    BY <2>1, <2>2 DEF G
<1>4. \A h \in 1..N : groups[h].parent # 0 => IsPrefix(groups[groups[h].parent].prefix, groups[h].prefix)
  BY <1>3 DEF OrderInv, GroupsNest
<1> HIDE DEF N
<1> DEFINE Around(h) == \A a \in up[h] : a \in 1..N /\ IsPrefix(groups[a].prefix, groups[h].prefix)
           T == {n \in 0..g : \A h \in 1..n : Around(h)}
<1>5. 0 \in T
  BY <1>3
<1>6. ASSUME NEW n \in 1..g, n - 1 \in T
      PROVE  n \in T
  <2>1. n \in 0..g /\ n \in 1..N /\ n # 0 /\ n \in Nat /\ g \in Nat
    BY <1>3
  <2> DEFINE p == groups[n].parent
  <2>2. p \in 0..(n - 1) /\ groups[n].prefix \in Seq(Segments)
    BY <1>3, <2>1
  <2>3. up[n] = {n} \cup up[p]
    BY <1>2, <2>1
  <2>4. Around(n)
    <3>1. IsPrefix(groups[n].prefix, groups[n].prefix)
      BY <2>2, PrefixOfItself
    <3>2. CASE p = 0
      <4>1. 0 \in 0..g
        BY <2>1
      <4>2. up[0] = {}
        BY <1>2, <4>1
      <4> QED
        BY <2>1, <2>3, <3>1, <3>2, <4>2
    <3>3. CASE p # 0
      <4>1. p \in 1..(n - 1) /\ p \in 1..N
        BY <1>3, <2>1, <2>2, <3>3
      <4>2. Around(p)
        BY <1>6, <4>1
      <4>3. ASSUME NEW a \in up[p]
            PROVE  a \in 1..N /\ IsPrefix(groups[a].prefix, groups[n].prefix)
        <5>1. a \in 1..N /\ IsPrefix(groups[a].prefix, groups[p].prefix)
          BY <4>2
        <5>2. IsPrefix(groups[p].prefix, groups[n].prefix)
          BY <1>4, <2>1, <3>3
        <5>3. /\ groups[a].prefix \in Seq(Segments) /\ groups[p].prefix \in Seq(Segments)
              /\ groups[n].prefix \in Seq(Segments)
          BY <1>3, <2>1, <4>1, <5>1
        <5> QED
          BY <5>1, <5>2, <5>3, PrefixOfPrefix
      <4> QED
        BY <2>1, <2>3, <3>1, <4>3
    <3> QED
      BY <3>2, <3>3
  <2>5. \A h \in 1..n : h = n \/ h \in 1..(n - 1)
    BY <2>1
  <2> HIDE DEF Around
  <2>6. \A h \in 1..n : Around(h)
    BY <1>6, <2>4, <2>5
  <2> QED
    BY <2>1, <2>6
<1>7. g \in T /\ g \in 1..g
  <2> HIDE DEF T
  <2>1. g \in Nat /\ g \in 1..g
    BY <1>3
  <2>2. \A n \in 0..g : n \in T
    BY <1>5, <1>6, <2>1, Induction
  <2> QED
    BY <2>1, <2>2
<1>8. Around(g)
  BY <1>7
<1> QED
  BY <1>1, <1>3, <1>8

\* A pattern that begins with a prefix without wild and empty parts matches
\* only paths that have the prefix, if they have no empty segment either.
LEMMA MatchHasPrefix ==
  ASSUME NEW prefix \in Seq(Segments), NEW pattern \in Seq(Segments), NEW path \in Seq(Segments),
         IsPrefix(prefix, pattern),
         \A k \in 1..Len(prefix) : prefix[k] \notin Wild \cup {Empty},
         \A k \in 1..Len(path) : path[k] # Empty,
         Matches(parsePattern(pattern), parsePattern(path))
  PROVE  HasPrefix(path, prefix)
<1> DEFINE m     == Len(prefix)
           full  == NonEmpty(pattern)
           parts == parsePattern(pattern)
           same  == NonEmpty(path)
           segs  == parsePattern(path)
<1>1. /\ m \in Nat /\ Len(pattern) \in Nat /\ Len(path) \in Nat
      /\ m <= Len(pattern) /\ \A k \in 1..m : pattern[k] = prefix[k]
  BY PrefixElements, SeqFacts
<1>2. m <= Len(full) /\ \A k \in 1..m : full[k] = prefix[k]
  <2>1. m \in 0..Len(pattern) /\ \A k \in 1..m : pattern[k] # Empty
    BY <1>1
  <2> HIDE DEF m
  <2>2. m <= Len(full) /\ \A k \in 1..m : full[k] = pattern[k]
    BY <2>1, NonEmptyFacts
  <2> QED
    BY <1>1, <2>2
<1>3. /\ Len(parts) \in Nat /\ Len(full) \in Nat /\ Len(parts) <= Len(full)
      /\ \A k \in 1..Len(parts) : parts[k] = full[k]
      /\ Len(parts) = Len(full) \/ (Len(parts) # 0 /\ full[Len(parts)] \in Stars)
  BY PartsFacts
<1>4. m <= Len(parts)
  <2> SUFFICES ASSUME ~(m <= Len(parts)) PROVE FALSE
    OBVIOUS
  <2>1. Len(parts) # 0 /\ full[Len(parts)] \in Stars
    BY <1>1, <1>2, <1>3
  <2>2. Len(parts) \in 1..m
    BY <1>1, <1>3, <2>1
  <2>3. prefix[Len(parts)] \in Stars
    BY <1>2, <2>1, <2>2
  <2> QED
    BY <2>2, <2>3 DEF Wild
<1>5. \A k \in 1..m : parts[k] = prefix[k] /\ k \in 1..Len(parts)
  BY <1>1, <1>2, <1>3, <1>4
<1>6. Len(path) <= Len(same) /\ Len(same) <= Len(path) /\ \A k \in 1..Len(path) : same[k] = path[k]
  <2>1. Len(path) \in 0..Len(path)
    BY <1>1
  <2> QED
    BY <2>1, NonEmptyFacts
<1>7. /\ Len(segs) \in Nat /\ Len(same) \in Nat /\ Len(segs) <= Len(same)
      /\ \A k \in 1..Len(segs) : segs[k] = same[k]
  BY PartsFacts
<1>8. Len(parts) <= Len(segs) /\ \A k \in 1..Len(parts) : parts[k] \in Wild \/ parts[k] = segs[k]
  BY <1>3, <1>7 DEF Matches
<1> HIDE DEF full, parts, same, segs
<1>9. m <= Len(path) /\ \A k \in 1..m : k \in 1..Len(segs) /\ k \in 1..Len(path)
  BY <1>1, <1>3, <1>4, <1>6, <1>7, <1>8
<1>10. \A k \in 1..m : path[k] = prefix[k]
  <2> SUFFICES ASSUME NEW k \in 1..m PROVE path[k] = prefix[k]
    OBVIOUS
  <2>1. parts[k] = prefix[k] /\ prefix[k] \notin Wild
    BY <1>5
  <2>2. segs[k] = parts[k]
    BY <1>5, <1>8, <2>1
  <2> QED
    BY <1>6, <1>7, <1>9, <2>1, <2>2
<1>11. CASE prefix = <<>>
  BY <1>11 DEF HasPrefix
<1>12. CASE prefix # <<>>
  <2>1. m # 0 /\ m \in 1..m
    BY <1>1, <1>12, NoSegments
  <2>2. Front(prefix) \in Seq(Segments) /\ Len(Front(prefix)) = m - 1
        /\ \A k \in 1..(m - 1) : Front(prefix)[k] = prefix[k]
    BY <1>12, FrontProperties
  <2>3. Len(Front(prefix)) <= Len(path) /\ \A k \in 1..Len(Front(prefix)) : Front(prefix)[k] = path[k]
    <3> HIDE DEF m
    <3>1. m - 1 <= Len(path) /\ \A k \in 1..(m - 1) : k \in 1..m
      BY <1>1, <1>9
    <3> QED
      BY <1>10, <2>2, <3>1
  <2>4. IsPrefix(Front(prefix), path)
    BY <2>2, <2>3, PrefixElements
  <2>5. StartsWith(path[m], Last(prefix))
    BY <1>10, <2>1 DEF StartsWith, Last
  <2> QED
    BY <1>9, <2>4, <2>5 DEF HasPrefix
<1> QED
  BY <1>11, <1>12

\* The groups around a route have a prefix of every path that finds it, where
\* neither has wild or empty parts.
LEMMA AroundHasPrefix ==
  ASSUME EngineInv, OrderInv, NEW mt \in Methods, NEW path \in Seq(Segments),
         \A k \in 1..Len(path) : path[k] # Empty,
         NEW i, FoundBy(mt, path, i),
         NEW g \in Ancestors(routes[i].group),
         \A k \in 1..Len(groups[g].prefix) : groups[g].prefix[k] \notin Wild \cup {Empty}
  PROVE  g \in DOMAIN groups /\ HasPrefix(path, groups[g].prefix)
<1> DEFINE R == [method : Methods, pattern : Seq(Segments), group : Nat]
           G == [prefix : Seq(Segments), middlewares : Seq(Kinds), parent : Nat]
           o == routes[i].group
           pattern == routes[i].pattern
<1>1. i \in DOMAIN routes /\ Matches(parsePattern(pattern), parsePattern(path))
  BY DEF FoundBy, Routes, PartsOf
<1>2. pattern \in Seq(Segments)
  <2>1. routes \in Seq(R)
    BY DEF EngineInv, RoutesOK
  <2> HIDE DEF R
  <2>2. routes[i] \in R
    BY <1>1, <2>1, SeqFacts
  <2> QED
    BY <2>2 DEF R
<1>3. o \in DOMAIN groups /\ IsPrefix(groups[o].prefix, pattern)
  BY <1>1 DEF OrderInv, GroupsNest
<1>4. g \in DOMAIN groups /\ IsPrefix(groups[g].prefix, groups[o].prefix)
  BY <1>3, AncestorsAreAround
<1>5. groups[g].prefix \in Seq(Segments) /\ groups[o].prefix \in Seq(Segments)
  <2>1. groups \in Seq(G)
    BY DEF EngineInv, GroupsOK
  <2> HIDE DEF G
  <2>2. groups[g] \in G /\ groups[o] \in G
    BY <1>3, <1>4, <2>1, SeqFacts
  <2> QED
    BY <2>2 DEF G
<1>6. IsPrefix(groups[g].prefix, pattern)
  BY <1>2, <1>3, <1>4, <1>5, PrefixOfPrefix
<1>7. HasPrefix(path, groups[g].prefix)
  BY <1>1, <1>2, <1>5, <1>6, MatchHasPrefix
<1> QED
  BY <1>4, <1>7

\* gee.go:105-116: for any segments, groups and routes, and as many calls as
\* there may be: of routes registered in a good order, the one that serves a
\* path without empty segments runs behind all the middlewares of its group and
\* of those around it whose prefixes have no wild or empty parts, each once and
\* the outermost first.  Middlewares of other groups may run among them.
THEOREM GroupsGuard == Spec => []GroupsGuardRoutes
<1>1. EngineInv /\ OrderInv => GroupsGuardRoutes
  <2> DEFINE Around(o) == {g \in Ancestors(o) : \A k \in DOMAIN groups[g].prefix :
                             groups[g].prefix[k] \notin Wild \cup {Empty}}
             Block(g) == [i \in DOMAIN groups[g].middlewares |->
                           [group |-> g, kind |-> groups[g].middlewares[i]]]
             Guards(around) == [g \in DOMAIN groups |-> IF g \in around THEN Block(g) ELSE <<>>]
             G == [prefix : Seq(Segments), middlewares : Seq(Kinds), parent : Nat]
             H == [group : Nat, kind : Kinds]
  <2> SUFFICES ASSUME EngineInv, OrderInv, NEW mt \in Methods, WellOrdered(mt), NEW path \in Paths,
                      getRoute(roots[mt], path) # NoPattern, Empty \notin {path[k] : k \in DOMAIN path}
               PROVE  LET around == Around(handlers[Key(mt, getRoute(roots[mt], path))].group)
                      IN  OfGroups(Middlewares(path), around) = FlattenSeq(Guards(around))
    BY Zenon DEF GroupsGuardRoutes
  <2> HIDE DEF G, H
  <2>1. path \in Seq(Segments)
    BY GeeAssumption
  <2>2. PICK i : FoundBy(mt, path, i)
    BY <2>1, RoutesAreRight
  <2> DEFINE around == Around(routes[i].group)
             all == [g \in DOMAIN groups |-> IF HasPrefix(path, groups[g].prefix) THEN Block(g) ELSE <<>>]
             some == Guards(around)
  <2>3. handlers[Key(mt, getRoute(roots[mt], path))].group = routes[i].group
    BY <2>2 DEF FoundBy
  <2>4. groups \in Seq(G) /\ DOMAIN groups = 1..Len(groups) /\ Len(groups) \in Nat
        /\ \A g \in DOMAIN groups : groups[g] \in G
    <3>1. groups \in Seq(G)
      BY DEF EngineInv, GroupsOK, G
    <3> QED
      BY <3>1, SeqFacts
  <2>5. \A k \in 1..Len(path) : path[k] # Empty
    BY <2>1
  <2>6. \A g \in around : g \in DOMAIN groups /\ HasPrefix(path, groups[g].prefix)
    <3> SUFFICES ASSUME NEW g \in around PROVE g \in DOMAIN groups /\ HasPrefix(path, groups[g].prefix)
      OBVIOUS
    <3>1. g \in Ancestors(routes[i].group)
          /\ \A k \in DOMAIN groups[g].prefix : groups[g].prefix[k] \notin Wild \cup {Empty}
      OBVIOUS
    <3>2. g \in DOMAIN groups
      <4>1. routes[i].group \in DOMAIN groups
        BY <2>2 DEF FoundBy, Routes, OrderInv, GroupsNest
      <4> QED
        BY <3>1, <4>1, AncestorsAreAround
    <3>3. groups[g].prefix \in Seq(Segments)
      BY <2>4, <3>2 DEF G
    <3>4. \A k \in 1..Len(groups[g].prefix) : groups[g].prefix[k] \notin Wild \cup {Empty}
      BY <3>1, <3>3
    <3> HIDE DEF around
    <3> QED
      BY <2>1, <2>2, <2>5, <3>1, <3>4, AroundHasPrefix
  <2>7. \A g \in DOMAIN groups : Block(g) \in Seq(H) /\ \A k \in 1..Len(Block(g)) : Block(g)[k].group = g
    <3> SUFFICES ASSUME NEW g \in DOMAIN groups
                 PROVE  Block(g) \in Seq(H) /\ \A k \in 1..Len(Block(g)) : Block(g)[k].group = g
      OBVIOUS
    <3> DEFINE mws == groups[g].middlewares
    <3>1. mws \in Seq(Kinds) /\ g \in Nat
      BY <2>4 DEF G
    <3>2. DOMAIN mws = 1..Len(mws) /\ Len(mws) \in Nat /\ \A k \in 1..Len(mws) : mws[k] \in Kinds
      BY <3>1, SeqFacts
    <3> HIDE DEF mws
    <3>3. [k \in 1..Len(mws) |-> [group |-> g, kind |-> mws[k]]] \in Seq(H)
      BY <3>1, <3>2 DEF H
    <3>4. Block(g) = [k \in 1..Len(mws) |-> [group |-> g, kind |-> mws[k]]]
      BY <3>2 DEF mws
    <3>5. DOMAIN Block(g) = 1..Len(Block(g)) /\ DOMAIN Block(g) = 1..Len(mws)
      BY <3>3, <3>4, SeqFacts
    <3>6. \A k \in DOMAIN Block(g) : Block(g)[k].group = g
      OBVIOUS
    <3> QED
      BY <3>3, <3>4, <3>5, <3>6
  <2> HIDE DEF Block, around
  <2>8. \A g \in 1..Len(groups) : /\ all[g] \in Seq(H)
                                  /\ \A k \in 1..Len(all[g]) : all[g][k].group = g
                                  /\ some[g] = IF g \in around THEN all[g] ELSE <<>>
    <3> SUFFICES ASSUME NEW g \in 1..Len(groups)
                 PROVE  /\ all[g] \in Seq(H)
                        /\ \A k \in 1..Len(all[g]) : all[g][k].group = g
                        /\ some[g] = IF g \in around THEN all[g] ELSE <<>>
      OBVIOUS
    <3>1. /\ all[g] = IF HasPrefix(path, groups[g].prefix) THEN Block(g) ELSE <<>>
          /\ some[g] = IF g \in around THEN Block(g) ELSE <<>>
      BY <2>4
    <3>2. <<>> \in Seq(H) /\ \A k \in 1..Len(<<>>) : <<>>[k].group = g
      OBVIOUS
    <3> HIDE DEF all, some
    <3> QED
      BY <2>4, <2>6, <2>7, <3>1, <3>2
  <2>9. some \in Seq(Seq(H)) /\ all \in Seq(Seq(H)) /\ Len(all) = Len(groups) /\ Len(some) = Len(groups)
    <3> DEFINE n == Len(groups)
    <3>1. \A g \in 1..n : all[g] \in Seq(H) /\ some[g] \in Seq(H)
      <4>1. <<>> \in Seq(H)
        OBVIOUS
      <4> HIDE DEF all, some
      <4> QED
        BY <2>8, <4>1
    <3>2. all = [g \in 1..n |-> all[g]] /\ some = [g \in 1..n |-> some[g]]
      BY <2>4
    <3> HIDE DEF all, some, n
    <3>3. n \in Nat
      BY <2>4 DEF n
    <3>4. [g \in 1..n |-> all[g]] \in Seq(Seq(H)) /\ Len([g \in 1..n |-> all[g]]) = n
      BY <3>1, <3>3
    <3>5. [g \in 1..n |-> some[g]] \in Seq(Seq(H)) /\ Len([g \in 1..n |-> some[g]]) = n
      BY <3>1, <3>3
    <3> QED
      BY <3>2, <3>4, <3>5 DEF n
  <2>10. Middlewares(path) = FlattenSeq(all)
    BY DEF Middlewares, Block
  <2> HIDE DEF all, some
  <2>11. OfGroups(FlattenSeq(all), around) = FlattenSeq(some)
    <3>1. /\ \A g \in 1..Len(all) : \A k \in 1..Len(all[g]) : all[g][k].group = g
          /\ \A g \in 1..Len(all) : some[g] = IF g \in around THEN all[g] ELSE <<>>
      BY <2>8, <2>9, Zenon
    <3>2. Len(some) = Len(all)
      BY <2>9
    <3> HIDE DEF around
    <3> QED
      BY <2>9, <3>1, <3>2, OfGroupsFlatten
  <2> QED
    BY <2>3, <2>10, <2>11 DEF some, around
<1> QED
  BY EngineInvariant, OrderInvariant, <1>1, PTL
=============================================================================
