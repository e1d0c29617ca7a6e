----------------------------- MODULE Discovery ------------------------------
(***************************************************************************)
(* geerpc/xclient's GeeRegistryDiscovery with the registry it asks: users  *)
(* call Get and GetAll, which first refresh the list of servers when it is *)
(* older than DTimeout.  Refresh holds the lock while it waits for the     *)
(* registry; choosing from the list is a second section of the lock.       *)
(***************************************************************************)
EXTENDS Integers

CONSTANTS Servers, Timeout, Period, Delay, Horizon, Never,  \* as in Registry
          Users,     \* goroutines that call Get and GetAll
          Unlocked,  \* nobody holds d.mu
          DTimeout   \* GeeRegistryDiscovery.timeout

VARIABLES
  age, hb, wait, flight, since, silence, unheard,   \* the registry's
  servers,  \* d.servers, as a set: who is chosen from it is left open
  listAge,  \* now - d.lastUpdate
  mu,       \* who holds d.mu
  asked,    \* how long ago its GET was sent
  reply,    \* the list in the registry's response
  pc        \* where each user is

registry == INSTANCE Registry

ASSUME DiscoveryAssumption == /\ registry!TimesFit
                              /\ DTimeout \in Nat
                              /\ Unlocked \notin Users
                              /\ Timeout + DTimeout + Delay <= Horizon

registryVars == <<age, hb, wait, flight, since, silence, unheard>>
listVars     == <<servers, listAge>>
askVars      == <<mu, asked, reply>>
vars == <<registryVars, listVars, askVars, pc>>

TypeOK ==
  /\ registry!TypeOK
  /\ servers \subseteq Servers
  /\ listAge \in 0..DTimeout \cup {Never}
  /\ mu \in Users \cup {Unlocked}
  /\ asked \in 0..Delay
  /\ reply \subseteq Servers
  /\ pc \in [Users -> {"out", "asked", "answered", "refreshed"}]
  /\ \A u \in Users : pc[u] \in {"asked", "answered"} <=> mu = u

Init ==
  /\ registry!Init
  /\ servers = {}
  /\ listAge = Never
  /\ mu = Unlocked
  /\ asked = 0
  /\ reply = {}
  /\ pc = [u \in Users |-> "out"]

Goto(u, l) == pc' = [pc EXCEPT ![u] = l]

\* (Mutant) a list that was fetched once is not fetched again.
FreshAlways == listAge # Never

\* lastUpdate.Add(timeout).After(now); the zero time is long past.
Fresh == listAge # Never /\ listAge < DTimeout
-----------------------------------------------------------------------------
(* Refresh                                                                 *)

RefreshSkipped(u) ==
  /\ pc[u] = "out"
  /\ mu = Unlocked
  /\ Fresh
  /\ Goto(u, "refreshed")
  /\ UNCHANGED <<registryVars, listVars, askVars>>

Ask(u) ==
  /\ pc[u] = "out"
  /\ mu = Unlocked
  /\ ~Fresh
  /\ mu' = u
  /\ Goto(u, "asked")
  /\ UNCHANGED <<registryVars, listVars, asked, reply>>

\* ServeHTTP, GET: aliveServers.
RegistryAnswers(u) ==
  /\ pc[u] = "asked"
  /\ reply' = registry!AliveServers
  /\ registry!DropExpired
  /\ Goto(u, "answered")
  /\ UNCHANGED <<hb, wait, flight, since, silence, unheard, listVars, mu, asked>>

\* An answer without the header, such as an error page: nobody looks at the
\* status, and it reads as an empty list.
ErrorAnswers(u) ==
  /\ pc[u] = "asked"
  /\ Goto(u, "answered")
  /\ UNCHANGED <<registryVars, listVars, askVars>>

Unlock == mu' = Unlocked /\ asked' = 0 /\ reply' = {}

Install(u) ==
  /\ pc[u] = "answered"
  /\ servers' = reply
  /\ listAge' = 0
  /\ Unlock
  /\ Goto(u, "refreshed")
  /\ UNCHANGED registryVars

\* http.Get fails: Get returns the error, and the old list stays.
RefreshFails(u) ==
  /\ pc[u] \in {"asked", "answered"}
  /\ Unlock
  /\ Goto(u, "out")
  /\ UNCHANGED <<registryVars, listVars>>
-----------------------------------------------------------------------------
(* Get and GetAll, after Refresh                                           *)

\* The second section: a server is chosen from the list, or all are returned,
\* or an empty list is reported.  Only the index of round robin changes.
Choose(u) ==
  /\ pc[u] = "refreshed"
  /\ mu = Unlocked
  /\ Goto(u, "out")
  /\ UNCHANGED <<registryVars, listVars, askVars>>
-----------------------------------------------------------------------------
Tick == /\ mu # Unlocked => asked < Delay
        /\ registry!Tick
        /\ listAge' = registry!Older(listAge, DTimeout)
        /\ asked' = IF mu # Unlocked THEN asked + 1 ELSE 0
        /\ UNCHANGED <<servers, mu, reply, pc>>

Announce == /\ (\E s \in Servers : registry!Announce(s)) \/ registry!RestartRegistry
            /\ UNCHANGED <<listVars, askVars, pc>>

Refresh(u) == RefreshSkipped(u) \/ Ask(u) \/ RegistryAnswers(u) \/ ErrorAnswers(u)
              \/ Install(u) \/ RefreshFails(u)

Next == Announce \/ Tick \/ \E u \in Users : Refresh(u) \/ Choose(u)

Spec == Init /\ [][Next]_vars
-----------------------------------------------------------------------------
BeatingStaysListed == registry!BeatingStaysListed

\* A server that has stopped announcing itself is not handed out for longer
\* than both timeouts and an exchange together: when a Refresh lets its caller
\* choose from the list, everyone on it was put less than that long ago,
\* whoever fetched the list (discovery_gee.go:48, registry.go:59).  A list that
\* replaces it before the caller chooses is bounded by its own Refresh.
NoGhost ==
  [][\A u \in Users : pc[u] # "refreshed" /\ pc'[u] = "refreshed" =>
       \A s \in servers' :
         silence'[s] # Never /\ silence'[s] < Timeout + DTimeout + Delay]_vars
=============================================================================
