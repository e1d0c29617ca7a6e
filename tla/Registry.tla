------------------------------ MODULE Registry ------------------------------
(***************************************************************************)
(* geerpc/registry: the registry, which forgets a server it has not heard  *)
(* of for Timeout, and the heartbeats of the servers, each of which ends   *)
(* for good with its first failed POST.  Any HTTP response is a success    *)
(* to a heartbeat, whoever has written it and whatever it says.            *)
(*                                                                         *)
(* Grain.  Times are kept as ages, in units and no further than they       *)
(* matter, so that the clock needs no end.  An HTTP exchange is three      *)
(* steps (send, handle, reply) and takes at most Delay.  The registry      *)
(* keeps its table in memory and may restart.                              *)
(***************************************************************************)
EXTENDS Integers

CONSTANTS Servers,  \* the addresses that announce themselves
          Timeout,  \* GeeRegistry.timeout
          Period,   \* duration of Heartbeat
          Delay,    \* bound: how long an HTTP exchange may take
          Horizon,  \* bound: ages are not told apart beyond it
          Never     \* no age: not in the table, not put yet, no ticker

\* Discovery, which has a registry and is what runs, assumes this of them.
\* Heartbeat's default leaves a minute between its period and the timeout
\* (registry.go:96); a round trip of more than half of it would use it up.
TimesFit ==
  /\ {Timeout, Period, Delay, Horizon} \subseteq Nat
  /\ Delay < Period
  /\ Period + 2 * Delay < Timeout
  /\ Timeout < Horizon
  /\ Never \notin Nat

VARIABLES age,      \* registry.servers: now - ServerItem.start of each server
          hb,       \* the heartbeat of each server
          wait,     \* how long until its ticker fires
          flight,   \* how long ago its POST was sent
          since,    \* how long ago the registry started (history)
          silence,  \* how long ago each server was last put (history)
          unheard   \* its loop's last response was not to a putServer (history)

vars == <<age, hb, wait, flight, since, silence, unheard>>

TypeOK ==
  /\ age \in [Servers -> 0..Timeout \cup {Never}]
  /\ hb \in [Servers -> {"none", "sending", "replying", "ticking"}]
  /\ wait \in [Servers -> 0..Period \cup {Never}]
  /\ flight \in [Servers -> 0..Delay]
  /\ since \in 0..Timeout
  /\ silence \in [Servers -> 0..Horizon \cup {Never}]
  /\ unheard \in [Servers -> BOOLEAN]

Init ==
  /\ age = [s \in Servers |-> Never]
  /\ hb = [s \in Servers |-> "none"]
  /\ wait = [s \in Servers |-> Never]
  /\ flight = [s \in Servers |-> 0]
  /\ since = 0
  /\ silence = [s \in Servers |-> Never]
  /\ unheard = [s \in Servers |-> FALSE]

SetHb(s, l) == hb' = [hb EXCEPT ![s] = l]

\* t units later, told apart up to bound.
Older(t, bound) == IF t = Never \/ t = bound THEN t ELSE t + 1
-----------------------------------------------------------------------------
(* Heartbeat                                                               *)

\* A server comes up and calls Heartbeat, which sends the first one itself.
Start(s) ==
  /\ hb[s] = "none"
  /\ SetHb(s, "sending")
  /\ UNCHANGED <<age, wait, flight, since, silence, unheard>>

\* The server's process ends, and nobody tells the registry.
Stop(s) ==
  /\ hb[s] # "none"
  /\ SetHb(s, "none")
  /\ wait' = [wait EXCEPT ![s] = Never]
  /\ flight' = [flight EXCEPT ![s] = 0]
  /\ unheard' = [unheard EXCEPT ![s] = FALSE]
  /\ UNCHANGED <<age, since, silence>>

\* <-t.C
Beat(s) ==
  /\ hb[s] = "ticking"
  /\ wait[s] = 0
  /\ SetHb(s, "sending")
  /\ wait' = [wait EXCEPT ![s] = Period]
  /\ UNCHANGED <<age, flight, since, silence, unheard>>

\* sendHeartbeat returns nil, whatever the response says and whoever has sent
\* it; after the first, the ticker is made.
BeatSucceeds(s) ==
  /\ hb[s] = "replying"
  /\ SetHb(s, "ticking")
  /\ wait' = [wait EXCEPT ![s] = IF @ = Never THEN Period ELSE @]
  /\ flight' = [flight EXCEPT ![s] = 0]
  /\ UNCHANGED <<age, since, silence, unheard>>

\* The POST is answered by something other than putServer: an error page of
\* what stands before the registry, or of whoever has its address meanwhile.
BeatUnheard(s) ==
  /\ hb[s] = "sending"
  /\ unheard' = [unheard EXCEPT ![s] = TRUE]
  /\ SetHb(s, "replying")
  /\ UNCHANGED <<age, wait, flight, since, silence>>

\* The POST or its reply is lost: the loop ends, though the server goes on.
BeatFails(s) ==
  /\ hb[s] \in {"sending", "replying"}
  /\ SetHb(s, "none")
  /\ wait' = [wait EXCEPT ![s] = Never]
  /\ flight' = [flight EXCEPT ![s] = 0]
  /\ unheard' = [unheard EXCEPT ![s] = FALSE]
  /\ UNCHANGED <<age, since, silence>>
-----------------------------------------------------------------------------
(* The registry                                                            *)

\* (Mutant) a server that is already in the table keeps its old start.
PutServerOnce(s) ==
  /\ hb[s] = "sending"
  /\ age' = IF age[s] = Never THEN [age EXCEPT ![s] = 0] ELSE age
  /\ silence' = [silence EXCEPT ![s] = 0]
  /\ unheard' = [unheard EXCEPT ![s] = FALSE]
  /\ SetHb(s, "replying")
  /\ UNCHANGED <<wait, flight, since>>

\* ServeHTTP, POST: putServer.
PutServer(s) ==
  /\ hb[s] = "sending"
  /\ age' = [age EXCEPT ![s] = 0]
  /\ silence' = [silence EXCEPT ![s] = 0]
  /\ unheard' = [unheard EXCEPT ![s] = FALSE]
  /\ SetHb(s, "replying")
  /\ UNCHANGED <<wait, flight, since>>

\* start.Add(timeout).After(now)
Alive(s) == age[s] # Never /\ age[s] < Timeout

\* What aliveServers returns, and what it leaves in the table.
AliveServers == {s \in Servers : Alive(s)}
DropExpired == age' = [s \in Servers |-> IF Alive(s) THEN age[s] ELSE Never]

RestartRegistry ==
  /\ age' = [s \in Servers |-> Never]
  /\ since' = 0
  /\ UNCHANGED <<hb, wait, flight, silence, unheard>>
-----------------------------------------------------------------------------
\* A unit of time.  A ticker that has fired is served at once and a POST does
\* not take longer than the bound.
Tick ==
  /\ \A s \in Servers : /\ hb[s] = "ticking" => wait[s] # 0
                        /\ hb[s] \in {"sending", "replying"} => flight[s] < Delay
  /\ age' = [s \in Servers |-> Older(age[s], Timeout)]
  /\ silence' = [s \in Servers |-> Older(silence[s], Horizon)]
  /\ wait' = [s \in Servers |-> IF wait[s] \in {Never, 0} THEN wait[s] ELSE wait[s] - 1]
  /\ flight' = [s \in Servers |->
                  IF hb[s] \in {"sending", "replying"} THEN flight[s] + 1 ELSE 0]
  /\ since' = Older(since, Timeout)
  /\ UNCHANGED <<hb, unheard>>

Announce(s) == Start(s) \/ Stop(s) \/ Beat(s) \/ BeatSucceeds(s) \/ BeatFails(s)
               \/ BeatUnheard(s) \/ PutServer(s)
-----------------------------------------------------------------------------
\* A server that goes on beating, the last of whose answered POSTs reached
\* putServer, is listed: between two beats it cannot expire, whatever the delays;
\* a registry that restarts lists it again within a period and the delays, and
\* one POST that arrives lists it again after others were answered by something
\* else (registry.go:49, 59, 96-106).  One whose last POST was answered without
\* a putServer beats on and expires: sendHeartbeat does not look at the response
\* (registry.go:114).
BeatingStaysListed ==
  \A s \in Servers :
    wait[s] # Never /\ ~unheard[s] /\ since > Period + 2 * Delay => Alive(s)
=============================================================================
