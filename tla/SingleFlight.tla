---------------------------- MODULE SingleFlight ----------------------------
(***************************************************************************)
(* geecache/singleflight: goroutines that call Do(key, fn) share one call  *)
(* of fn per key.  The first is the leader of a flight (the code's *call); *)
(* those that find the flight in the map wait for it.  The leader takes    *)
(* the flight out of the map only after it has released them.              *)
(*                                                                         *)
(* Grain.  Each section under g.mu is a step, and so are fn's return,      *)
(* wg.Done and the return of a wg.Wait.  A goroutine calls Do again and    *)
(* again; flights are numbered, and MaxFlights bounds how many there are.  *)
(***************************************************************************)
EXTENDS Naturals

CONSTANTS Procs,       \* the goroutines that call Do
          Keys,
          NoKey,       \* a goroutine that has not called Do yet has no key
          Results,     \* what fn can return, the pair (val, err)
          NoResult,    \* the zero value of (val, err)
          MaxFlights   \* bound: flights in a behaviour

ASSUME FlightAssumption == /\ MaxFlights \in Nat
                           /\ NoResult \notin Results

VARIABLES pc,     \* where each goroutine is
          key,    \* the key of its last Do
          flight, \* the flight it leads or waits for, or did last; 0 at first
          got,    \* what its last Do returned
          m,      \* g.m: the flight of each key, 0 when there is none
          val,    \* (c.val, c.err) of each flight
          ready,  \* the flights whose wg.Done has been called
          next    \* the next flight

vars == <<pc, key, flight, got, m, val, ready, next>>

Flights == 1..MaxFlights

TypeOK ==
  /\ pc \in [Procs -> {"out", "wait", "fn", "done", "delete", "panicked"}]
  /\ key \in [Procs -> Keys \cup {NoKey}]
  /\ flight \in [Procs -> 0..MaxFlights]
  /\ \A p \in Procs : pc[p] # "out" => key[p] \in Keys /\ flight[p] \in Flights
  /\ got \in [Procs -> Results \cup {NoResult}]
  /\ m \in [Keys -> 0..MaxFlights]
  /\ val \in [Flights -> Results \cup {NoResult}]
  /\ ready \subseteq Flights
  /\ next \in 1..(MaxFlights + 1)

Init ==
  /\ pc = [p \in Procs |-> "out"]
  /\ key = [p \in Procs |-> NoKey]
  /\ flight = [p \in Procs |-> 0]
  /\ got = [p \in Procs |-> NoResult]
  /\ m = [k \in Keys |-> 0]
  /\ val = [f \in Flights |-> NoResult]
  /\ ready = {}
  /\ next = 1
-----------------------------------------------------------------------------
\* (Mutant) g.m[key] is used without a look at ok.
FoundAlways(k) == TRUE

Found(k) == m[k] # 0

\* (Mutant) the test and the insertion are two sections of mu: two goroutines
\* that both found the key absent lead a flight each.
AbsentAlways(k) == TRUE

\* (Mutant) a flight that is over does not count as one.
AbsentOrOver(k) == m[k] = 0 \/ m[k] \in ready

Absent(k) == m[k] = 0

\* (Mutant) the leader leaves its flight in the map.
KeepKey(k) == m

DeleteKey(k) == [m EXCEPT ![k] = 0]

\* (Mutant) wg.Done is forgotten.
DoneForgotten(f) == ready

Done(f) == ready \cup {f}

\* (Mutant) wg.Add(1) comes after mu.Unlock(): Wait may find a zero counter.
ZeroEarly(f) == TRUE

\* f's WaitGroup has come down to zero.
Zero(f) == f \in ready

\* The key is in the map: wait for its flight.
Join(p, k) ==
  /\ pc[p] = "out"
  /\ Found(k)
  /\ pc' = [pc EXCEPT ![p] = "wait"]
  /\ key' = [key EXCEPT ![p] = k]
  /\ flight' = [flight EXCEPT ![p] = m[k]]
  /\ UNCHANGED <<got, m, val, ready, next>>

\* The key is not in the map: open a flight, and go on to fn.
Lead(p, k) ==
  /\ pc[p] = "out"
  /\ Absent(k)
  /\ next \in Flights
  /\ pc' = [pc EXCEPT ![p] = "fn"]
  /\ key' = [key EXCEPT ![p] = k]
  /\ flight' = [flight EXCEPT ![p] = next]
  /\ m' = [m EXCEPT ![k] = next]
  /\ next' = next + 1
  /\ UNCHANGED <<got, val, ready>>

\* c.val, c.err = fn()
FnReturns(p, r) ==
  /\ pc[p] = "fn"
  /\ pc' = [pc EXCEPT ![p] = "done"]
  /\ val' = [val EXCEPT ![flight[p]] = r]
  /\ UNCHANGED <<key, flight, got, m, ready, next>>

\* fn panics: Do has no defer, so neither Done nor delete will run.
FnPanics(p) ==
  /\ pc[p] = "fn"
  /\ pc' = [pc EXCEPT ![p] = "panicked"]
  /\ UNCHANGED <<key, flight, got, m, val, ready, next>>

\* c.wg.Done()
WgDone(p) ==
  /\ pc[p] = "done"
  /\ pc' = [pc EXCEPT ![p] = "delete"]
  /\ ready' = Done(flight[p])
  /\ UNCHANGED <<key, flight, got, m, val, next>>

\* delete(g.m, key), and the leader's return.
Delete(p) ==
  /\ pc[p] = "delete"
  /\ pc' = [pc EXCEPT ![p] = "out"]
  /\ m' = DeleteKey(key[p])
  /\ got' = [got EXCEPT ![p] = val[flight[p]]]
  /\ UNCHANGED <<key, flight, val, ready, next>>

\* c.wg.Wait() returns, and so does Do.
Wake(p) ==
  /\ pc[p] = "wait"
  /\ Zero(flight[p])
  /\ pc' = [pc EXCEPT ![p] = "out"]
  /\ got' = [got EXCEPT ![p] = val[flight[p]]]
  /\ UNCHANGED <<key, flight, m, val, ready, next>>
-----------------------------------------------------------------------------
Do(p) == \/ \E k \in Keys : Join(p, k) \/ Lead(p, k)
         \/ \E r \in Results : FnReturns(p, r)
         \/ FnPanics(p) \/ WgDone(p) \/ Delete(p) \/ Wake(p)

\* The bound is reached, or a panic has left the others waiting for ever.
Halted == /\ next \notin Flights \/ \E q \in Procs : pc[q] = "panicked"
          /\ \A p \in Procs : pc[p] \in {"out", "wait", "panicked"}
          /\ UNCHANGED vars

Next == (\E p \in Procs : Do(p)) \/ Halted

Spec == Init /\ [][Next]_vars

\* A goroutine inside Do goes on, and fn returns or panics; nobody need call.
Progress(p) == \/ \E r \in Results : FnReturns(p, r)
               \/ FnPanics(p) \/ WgDone(p) \/ Delete(p) \/ Wake(p)

FairSpec == Spec /\ \A p \in Procs : WF_vars(Progress(p))
-----------------------------------------------------------------------------
\* The goroutines that are responsible for a flight they opened.
Leading(p) == pc[p] \in {"fn", "done", "delete", "panicked"}

\* fn never runs twice at a time for a key (the purpose of the package;
\* "阻止并发请求", geecache.go:88).
OneFnPerKey ==
  \A p, q \in Procs : pc[p] = "fn" /\ pc[q] = "fn" /\ key[p] = key[q] => p = q

\* Everybody who took part in a flight returns what its leader's fn returned,
\* and never the zero value of a call that is still running.
SameResult ==
  \A p, q \in Procs :
    pc[p] = "out" /\ pc[q] = "out" /\ flight[p] = flight[q] /\ flight[p] # 0 =>
      got[p] = got[q] /\ got[p] \in Results

\* The map and the leaders agree.  A flight in the map has a leader that is
\* still inside Do for that key: a caller can join a flight that is over only
\* in the moment between wg.Done and delete, never after its leader returned.
\* And what a leader deletes is its own flight, not one that a later caller
\* put in its place: delete goes by key, without looking
\* (singleflight.go:32-36).
MapMatchesLeaders ==
  /\ \A k \in Keys : m[k] # 0 =>
       \E p \in Procs : Leading(p) /\ flight[p] = m[k] /\ key[p] = k
  /\ \A p \in Procs : pc[p] \in {"done", "delete"} => m[key[p]] = flight[p]

\* A waiter returns, unless the leader's fn panicked: then the flight stays in
\* the map, and this waiter and all later ones wait for ever.
WaiterReturns ==
  \A p \in Procs : pc[p] = "wait" ~>
    \/ pc[p] = "out"
    \/ \E q \in Procs : pc[q] = "panicked" /\ flight[q] = flight[p]
=============================================================================
