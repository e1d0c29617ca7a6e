-------------------------- MODULE DiscoveryProofs --------------------------
(***************************************************************************)
(* The registry, the heartbeats and a discovery that asks it, for any      *)
(* servers and users and any times that fit together.                      *)
(***************************************************************************)
EXTENDS Discovery, TLAPS

\* An age in the table is the time since the server was last put, up to the
\* timeout.
AgeInv ==
  \A s \in Servers : age[s] # Never /\ age[s] < Timeout => silence[s] = age[s]

\* A ticker goes on while a beat is under way; there is none without a loop.
BeatInv ==
  \A s \in Servers :
    /\ hb[s] \in {"sending", "replying"} /\ wait[s] # Never => wait[s] = Period - flight[s]
    /\ hb[s] \in {"none", "ticking"} => flight[s] = 0
    /\ hb[s] = "ticking" => wait[s] # Never
    /\ hb[s] = "none" => wait[s] = Never

\* How long ago the server was put at most, unless the registry has restarted or
\* its last POST was answered by something else.
AtMost(s) == CASE hb[s] = "replying" -> flight[s]
               [] hb[s] = "sending"  -> Period + Delay + flight[s]
               [] hb[s] = "ticking"  -> Period + Delay - wait[s]

PutInv ==
  \A s \in Servers : ~unheard[s] /\ (hb[s] = "replying" \/ wait[s] # Never) =>
    (age[s] # Never /\ age[s] <= AtMost(s)) \/ since <= AtMost(s)

\* What a reply on its way says, and what the list says, was true not long ago.
SilentFor(s, t) == silence[s] # Never /\ silence[s] < t

ReplyInv ==
  /\ mu = Unlocked => reply = {}
  /\ \A s \in reply : SilentFor(s, Timeout + asked)

ListInv ==
  /\ listAge = Never => servers = {}
  /\ listAge # Never /\ listAge < DTimeout =>
       \A s \in servers : SilentFor(s, Timeout + Delay + listAge)

IInv == TypeOK /\ AgeInv /\ BeatInv /\ PutInv /\ ReplyInv /\ ListInv
-----------------------------------------------------------------------------
LEMMA StartStep ==
  ASSUME IInv, NEW s \in Servers, registry!Start(s), UNCHANGED <<listVars, askVars, pc>>
  PROVE  IInv'
<1> USE DiscoveryAssumption DEF IInv, TypeOK, registry!TypeOK, registry!TimesFit, registry!Start,
           registry!SetHb, listVars, askVars
<1>1. TypeOK'
  OBVIOUS
<1>2. AgeInv' /\ BeatInv'
  BY DEF AgeInv, BeatInv
<1>3. PutInv'
  BY DEF PutInv, AtMost, BeatInv
<1>4. ReplyInv' /\ ListInv'
  BY DEF ReplyInv, ListInv, SilentFor, AgeInv
<1> QED
  BY <1>1, <1>2, <1>3, <1>4

LEMMA StopStep ==
  ASSUME IInv, NEW s \in Servers, registry!Stop(s), UNCHANGED <<listVars, askVars, pc>>
  PROVE  IInv'
<1> USE DiscoveryAssumption DEF IInv, TypeOK, registry!TypeOK, registry!TimesFit, registry!Stop,
           registry!SetHb, listVars, askVars
<1>1. TypeOK'
  OBVIOUS
<1>2. AgeInv' /\ BeatInv'
  BY DEF AgeInv, BeatInv
<1>3. PutInv'
  BY DEF PutInv, AtMost, BeatInv
<1>4. ReplyInv' /\ ListInv'
  BY DEF ReplyInv, ListInv, SilentFor, AgeInv
<1> QED
  BY <1>1, <1>2, <1>3, <1>4

LEMMA BeatStep ==
  ASSUME IInv, NEW s \in Servers, registry!Beat(s), UNCHANGED <<listVars, askVars, pc>>
  PROVE  IInv'
<1> USE DiscoveryAssumption DEF IInv, TypeOK, registry!TypeOK, registry!TimesFit, registry!Beat,
           registry!SetHb, listVars, askVars
<1>1. TypeOK'
  OBVIOUS
<1>2. AgeInv' /\ BeatInv'
  BY DEF AgeInv, BeatInv
<1>3. PutInv'
  BY DEF PutInv, AtMost, BeatInv
<1>4. ReplyInv' /\ ListInv'
  BY DEF ReplyInv, ListInv, SilentFor, AgeInv
<1> QED
  BY <1>1, <1>2, <1>3, <1>4

LEMMA BeatSucceedsStep ==
  ASSUME IInv, NEW s \in Servers, registry!BeatSucceeds(s), UNCHANGED <<listVars, askVars, pc>>
  PROVE  IInv'
<1> USE DiscoveryAssumption DEF IInv, TypeOK, registry!TypeOK, registry!TimesFit,
           registry!BeatSucceeds, registry!SetHb, listVars, askVars
<1>1. TypeOK'
  OBVIOUS
<1>2. AgeInv' /\ BeatInv'
  BY DEF AgeInv, BeatInv
<1>3. PutInv'
  BY DEF PutInv, AtMost, BeatInv
<1>4. ReplyInv' /\ ListInv'
  BY DEF ReplyInv, ListInv, SilentFor, AgeInv
<1> QED
  BY <1>1, <1>2, <1>3, <1>4

LEMMA BeatFailsStep ==
  ASSUME IInv, NEW s \in Servers, registry!BeatFails(s), UNCHANGED <<listVars, askVars, pc>>
  PROVE  IInv'
<1> USE DiscoveryAssumption DEF IInv, TypeOK, registry!TypeOK, registry!TimesFit,
           registry!BeatFails, registry!SetHb, listVars, askVars
<1>1. TypeOK'
  OBVIOUS
<1>2. AgeInv' /\ BeatInv'
  BY DEF AgeInv, BeatInv
<1>3. PutInv'
  BY DEF PutInv, AtMost, BeatInv
<1>4. ReplyInv' /\ ListInv'
  BY DEF ReplyInv, ListInv, SilentFor, AgeInv
<1> QED
  BY <1>1, <1>2, <1>3, <1>4

LEMMA BeatUnheardStep ==
  ASSUME IInv, NEW s \in Servers, registry!BeatUnheard(s), UNCHANGED <<listVars, askVars, pc>>
  PROVE  IInv'
<1> USE DiscoveryAssumption DEF IInv, TypeOK, registry!TypeOK, registry!TimesFit,
           registry!BeatUnheard, registry!SetHb, listVars, askVars
<1>1. TypeOK'
  OBVIOUS
<1>2. AgeInv' /\ BeatInv'
  BY DEF AgeInv, BeatInv
<1>3. PutInv'
  BY DEF PutInv, AtMost, BeatInv
<1>4. ReplyInv' /\ ListInv'
  BY DEF ReplyInv, ListInv, SilentFor, AgeInv
<1> QED
  BY <1>1, <1>2, <1>3, <1>4

LEMMA PutServerStep ==
  ASSUME IInv, NEW s \in Servers, registry!PutServer(s), UNCHANGED <<listVars, askVars, pc>>
  PROVE  IInv'
<1> USE DiscoveryAssumption DEF IInv, TypeOK, registry!TypeOK, registry!TimesFit,
           registry!PutServer, registry!SetHb, listVars, askVars
<1>1. TypeOK'
  OBVIOUS
<1>2. AgeInv' /\ BeatInv'
  BY DEF AgeInv, BeatInv
<1>3. PutInv'
  BY DEF PutInv, AtMost, BeatInv
<1>4. ReplyInv' /\ ListInv'
  BY DEF ReplyInv, ListInv, SilentFor, AgeInv
<1> QED
  BY <1>1, <1>2, <1>3, <1>4

LEMMA RestartRegistryStep ==
  ASSUME IInv, registry!RestartRegistry, UNCHANGED <<listVars, askVars, pc>>
  PROVE  IInv'
<1> USE DiscoveryAssumption DEF IInv, TypeOK, registry!TypeOK, registry!TimesFit,
           registry!RestartRegistry, listVars, askVars
<1>1. TypeOK'
  OBVIOUS
<1>2. AgeInv' /\ BeatInv'
  BY DEF AgeInv, BeatInv
<1>3. PutInv'
  BY DEF PutInv, AtMost, BeatInv
<1>4. ReplyInv' /\ ListInv'
  BY DEF ReplyInv, ListInv, SilentFor, AgeInv
<1> QED
  BY <1>1, <1>2, <1>3, <1>4

LEMMA RefreshSkippedStep ==
  ASSUME IInv, NEW u \in Users, RefreshSkipped(u)
  PROVE  IInv'
<1> USE DiscoveryAssumption DEF IInv, TypeOK, registry!TypeOK, registry!TimesFit, RefreshSkipped,
           Goto, registryVars, listVars, askVars, Fresh
<1>1. TypeOK'
  OBVIOUS
<1>2. AgeInv' /\ BeatInv'
  BY DEF AgeInv, BeatInv
<1>3. PutInv'
  BY DEF PutInv, AtMost, BeatInv
<1>4. ReplyInv' /\ ListInv'
  BY DEF ReplyInv, ListInv, SilentFor, AgeInv
<1> QED
  BY <1>1, <1>2, <1>3, <1>4

LEMMA AskStep ==
  ASSUME IInv, NEW u \in Users, Ask(u)
  PROVE  IInv'
<1> USE DiscoveryAssumption DEF IInv, TypeOK, registry!TypeOK, registry!TimesFit, Ask, Goto,
           registryVars, listVars, askVars, Fresh
<1>1. TypeOK'
  OBVIOUS
<1>2. AgeInv' /\ BeatInv'
  BY DEF AgeInv, BeatInv
<1>3. PutInv'
  BY DEF PutInv, AtMost, BeatInv
<1>4. ReplyInv' /\ ListInv'
  BY DEF ReplyInv, ListInv, SilentFor, AgeInv
<1> QED
  BY <1>1, <1>2, <1>3, <1>4

LEMMA RegistryAnswersStep ==
  ASSUME IInv, NEW u \in Users, RegistryAnswers(u)
  PROVE  IInv'
<1> USE DiscoveryAssumption DEF IInv, TypeOK, registry!TypeOK, registry!TimesFit,
           RegistryAnswers, Goto, registryVars, listVars, askVars, registry!DropExpired,
           registry!AliveServers, registry!Alive
<1>1. TypeOK'
  OBVIOUS
<1>2. AgeInv' /\ BeatInv'
  BY DEF AgeInv, BeatInv
<1>3. PutInv'
  BY DEF PutInv, AtMost, BeatInv
<1>4. ReplyInv' /\ ListInv'
  BY DEF ReplyInv, ListInv, SilentFor, AgeInv
<1> QED
  BY <1>1, <1>2, <1>3, <1>4

LEMMA ErrorAnswersStep ==
  ASSUME IInv, NEW u \in Users, ErrorAnswers(u)
  PROVE  IInv'
<1> USE DiscoveryAssumption DEF IInv, TypeOK, registry!TypeOK, registry!TimesFit, ErrorAnswers,
           Goto, registryVars, listVars, askVars
<1>1. TypeOK'
  OBVIOUS
<1>2. AgeInv' /\ BeatInv'
  BY DEF AgeInv, BeatInv
<1>3. PutInv'
  BY DEF PutInv, AtMost, BeatInv
<1>4. ReplyInv' /\ ListInv'
  BY DEF ReplyInv, ListInv, SilentFor, AgeInv
<1> QED
  BY <1>1, <1>2, <1>3, <1>4

LEMMA InstallStep ==
  ASSUME IInv, NEW u \in Users, Install(u)
  PROVE  IInv'
<1> USE DiscoveryAssumption DEF IInv, TypeOK, registry!TypeOK, registry!TimesFit, Install, Goto,
           registryVars, listVars, askVars, Unlock
<1>1. TypeOK'
  OBVIOUS
<1>2. AgeInv' /\ BeatInv'
  BY DEF AgeInv, BeatInv
<1>3. PutInv'
  BY DEF PutInv, AtMost, BeatInv
<1>4. ReplyInv' /\ ListInv'
  BY DEF ReplyInv, ListInv, SilentFor, AgeInv
<1> QED
  BY <1>1, <1>2, <1>3, <1>4

LEMMA RefreshFailsStep ==
  ASSUME IInv, NEW u \in Users, RefreshFails(u)
  PROVE  IInv'
<1> USE DiscoveryAssumption DEF IInv, TypeOK, registry!TypeOK, registry!TimesFit, RefreshFails,
           Goto, registryVars, listVars, askVars, Unlock
<1>1. TypeOK'
  OBVIOUS
<1>2. AgeInv' /\ BeatInv'
  BY DEF AgeInv, BeatInv
<1>3. PutInv'
  BY DEF PutInv, AtMost, BeatInv
<1>4. ReplyInv' /\ ListInv'
  BY DEF ReplyInv, ListInv, SilentFor, AgeInv
<1> QED
  BY <1>1, <1>2, <1>3, <1>4

LEMMA ChooseStep ==
  ASSUME IInv, NEW u \in Users, Choose(u)
  PROVE  IInv'
<1> USE DiscoveryAssumption DEF IInv, TypeOK, registry!TypeOK, registry!TimesFit, Choose, Goto,
           registryVars, listVars, askVars
<1>1. TypeOK'
  OBVIOUS
<1>2. AgeInv' /\ BeatInv'
  BY DEF AgeInv, BeatInv
<1>3. PutInv'
  BY DEF PutInv, AtMost, BeatInv
<1>4. ReplyInv' /\ ListInv'
  BY DEF ReplyInv, ListInv, SilentFor, AgeInv
<1> QED
  BY <1>1, <1>2, <1>3, <1>4

LEMMA OlderType ==
  ASSUME Never \notin Nat, NEW b \in Nat, NEW t \in 0..b \cup {Never}
  PROVE  registry!Older(t, b) \in 0..b \cup {Never} /\ (t # Never => registry!Older(t, b) # Never)
BY DEF registry!Older

LEMMA TickStep ==
  ASSUME IInv, Tick
  PROVE  IInv'
<1>1. TypeOK'
  <2> USE DEF IInv, TypeOK, registry!TypeOK
  <2>1. /\ {Timeout, Period, Delay, Horizon, DTimeout} \subseteq Nat /\ Never \notin Nat
    BY DiscoveryAssumption DEF registry!TimesFit
  <2>2. age' \in [Servers -> 0..Timeout \cup {Never}] /\ since' \in 0..Timeout
    <3>1. /\ \A s \in Servers : registry!Older(age[s], Timeout) \in 0..Timeout \cup {Never}
          /\ registry!Older(since, Timeout) \in 0..Timeout
      BY <2>1, OlderType
    <3> QED
      BY <3>1 DEF Tick, registry!Tick
  <2>3. wait' \in [Servers -> 0..Period \cup {Never}]
    <3>1. \A s \in Servers : wait[s] \notin {Never, 0} => wait[s] - 1 \in 0..Period
      <4> SUFFICES ASSUME NEW s \in Servers, wait[s] \notin {Never, 0}
                   PROVE  wait[s] - 1 \in 0..Period
        OBVIOUS
      <4>1. wait[s] \in 0..Period
        OBVIOUS
      <4> QED
        BY <2>1, <4>1
    <3> QED
      BY <3>1 DEF Tick, registry!Tick
  <2>4. flight' \in [Servers -> 0..Delay]
    <3>1. /\ \A s \in Servers : hb[s] \in {"sending", "replying"} => flight[s] + 1 \in 0..Delay
          /\ 0 \in 0..Delay
      BY <2>1 DEF Tick, registry!Tick
    <3> QED
      BY <3>1 DEF Tick, registry!Tick
  <2>5. silence' \in [Servers -> 0..Horizon \cup {Never}]
    <3>1. \A s \in Servers : registry!Older(silence[s], Horizon) \in 0..Horizon \cup {Never}
      BY <2>1, OlderType
    <3> QED
      BY <3>1 DEF Tick, registry!Tick
  <2>6. listAge' \in 0..DTimeout \cup {Never} /\ asked' \in 0..Delay
    BY <2>1, OlderType DEF Tick
  <2> QED
    BY <2>2, <2>3, <2>4, <2>5, <2>6 DEF Tick, registry!Tick
<1> USE DiscoveryAssumption DEF IInv, TypeOK, registry!TypeOK, registry!TimesFit, Tick,
           registry!Tick,
       registry!Older
<1>2. AgeInv' /\ BeatInv'
  <2>1. AgeInv'
    BY DEF AgeInv
  <2>2. BeatInv'
    BY DEF BeatInv
  <2> QED
    BY <2>1, <2>2
<1>3. PutInv'
  BY DEF PutInv, AtMost, BeatInv
<1>4. ReplyInv' /\ ListInv'
  BY DEF ReplyInv, ListInv, SilentFor, AgeInv
<1> QED
  BY <1>1, <1>2, <1>3, <1>4

LEMMA InitIInv == Init => IInv
BY DiscoveryAssumption
   DEF Init, registry!Init, IInv, TypeOK, registry!TypeOK, registry!TimesFit, AgeInv, BeatInv,
       PutInv, ReplyInv, ListInv, SilentFor

LEMMA NextStep ==
  ASSUME IInv, [Next]_vars
  PROVE  IInv'
<1>1. CASE Announce
  BY <1>1, StartStep, StopStep, BeatStep, BeatSucceedsStep, BeatFailsStep, BeatUnheardStep,
     PutServerStep, RestartRegistryStep DEF Announce, registry!Announce
<1>2. CASE Tick
  BY <1>2, TickStep
<1>3. ASSUME NEW u \in Users, Refresh(u) \/ Choose(u)
      PROVE  IInv'
  BY <1>3, RefreshSkippedStep, AskStep, RegistryAnswersStep, ErrorAnswersStep, InstallStep,
     RefreshFailsStep, ChooseStep DEF Refresh
<1>4. CASE UNCHANGED vars
  BY <1>4 DEF vars, registryVars, listVars, askVars, IInv, TypeOK, registry!TypeOK, AgeInv, BeatInv,
              PutInv, AtMost, ReplyInv, ListInv, SilentFor
<1> QED
  BY <1>1, <1>2, <1>3, <1>4 DEF Next

\* The invariant holds whatever the delays and failures.
THEOREM Invariance == Spec => []IInv
BY InitIInv, NextStep, PTL DEF Spec

\* The variables of registry and discovery keep their types.
THEOREM TypeCorrect == Spec => []TypeOK
<1>1. IInv => TypeOK
  BY DEF IInv
<1> QED
  BY Invariance, <1>1, PTL

\* A server that goes on beating, the last of whose answered POSTs reached
\* putServer, is listed (registry.go:49, 59, 96-106).
THEOREM HealthyIsListed == Spec => []BeatingStaysListed
<1>1. IInv => BeatingStaysListed
  BY DiscoveryAssumption DEF IInv, TypeOK, registry!TypeOK, registry!TimesFit, BeatInv, PutInv,
     AtMost, BeatingStaysListed, registry!BeatingStaysListed, registry!Alive
<1> QED
  BY Invariance, <1>1, PTL

\* A server that has fallen silent is not handed out beyond the sum of both
\* timeouts and an exchange (discovery_gee.go:48, registry.go:59).
THEOREM SilentIsDropped == Spec => NoGhost
<1> DEFINE Bounded ==
      \A u \in Users : pc[u] # "refreshed" /\ pc'[u] = "refreshed" =>
        \A s \in servers' : silence'[s] # Never /\ silence'[s] < Timeout + DTimeout + Delay
<1>1. ASSUME IInv, Next
      PROVE  Bounded
  <2> SUFFICES ASSUME NEW u \in Users, pc[u] # "refreshed", pc'[u] = "refreshed",
                      NEW s \in servers'
               PROVE  silence'[s] # Never /\ silence'[s] < Timeout + DTimeout + Delay
    OBVIOUS
  <2>1. PICK v \in Users : RefreshSkipped(v) \/ Install(v)
    BY <1>1 DEF Next, Announce, Tick, Refresh, Choose, Ask, RegistryAnswers, ErrorAnswers,
                RefreshFails, Goto, IInv, TypeOK
  <2>2. CASE RefreshSkipped(v)
    BY <1>1, <2>2, DiscoveryAssumption DEF RefreshSkipped, Fresh, IInv, TypeOK, registry!TypeOK,
       registry!TimesFit, ListInv, SilentFor, registryVars, listVars
  <2>3. CASE Install(v)
    BY <1>1, <2>3, DiscoveryAssumption DEF Install, IInv, TypeOK, registry!TypeOK,
       registry!TimesFit, ReplyInv, SilentFor, registryVars
  <2> QED
    BY <2>1, <2>2, <2>3
<1>2. IInv /\ [Next]_vars => [Bounded]_vars
  BY <1>1
<1> QED
  BY Invariance, <1>2, PTL DEF Spec, NoGhost
=============================================================================
