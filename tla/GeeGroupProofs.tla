--------------------------- MODULE GeeGroupProofs ---------------------------
(***************************************************************************)
(* The group and the singleflight group it loads with, for any goroutines, *)
(* keys, lengths, budgets, results and number of flights.  First the       *)
(* flights on their own: their invariant ties the three places a flight is *)
(* known from, the map, its leader, and the set of flights that are over.  *)
(* Then the group, whose steps are steps of the flights: its invariant     *)
(* says which versions of a key may still reach somebody.                  *)
(***************************************************************************)
EXTENDS GeeGroup, TLAPS

-----------------------------------------------------------------------------
(* Singleflight                                                            *)

\* A flight belongs to one leader and, until the leader returns, to its key.
LeaderInv ==
  /\ \A p \in Procs : flight[p] < next
  /\ \A p \in Procs : Leading(p) => m[key[p]] = flight[p]
  /\ \A p, q \in Procs : Leading(p) /\ Leading(q) /\ flight[p] = flight[q] => p = q

\* A flight is over only after fn returned, and its result then stays.
ReadyInv ==
  /\ \A f \in ready : f < next /\ val[f] \in Results
  /\ \A p \in Procs : pc[p] \in {"fn", "done", "panicked"} => flight[p] \notin ready
  /\ \A p \in Procs : pc[p] = "done" => val[flight[p]] \in Results
  /\ \A p \in Procs : pc[p] = "delete" => flight[p] \in ready

\* What a goroutine was given is the result of a flight that is over.
GotInv ==
  \A p \in Procs : pc[p] = "out" /\ flight[p] # 0 =>
    flight[p] \in ready /\ got[p] = val[flight[p]]

\* A flight in the map still has its leader.
MapInv ==
  \A k \in Keys : m[k] # 0 =>
    \E p \in Procs : Leading(p) /\ flight[p] = m[k] /\ key[p] = k

IInv == TypeOK /\ LeaderInv /\ MapInv /\ ReadyInv /\ GotInv

LEMMA InitIInv == Init => IInv
BY FlightAssumption DEF Init, IInv, TypeOK, LeaderInv, MapInv, ReadyInv, GotInv, Leading, Flights

LEMMA JoinStep ==
  ASSUME IInv, NEW p \in Procs, NEW k \in Keys, Join(p, k)
  PROVE  IInv'
<1>1. TypeOK'
  BY FlightAssumption DEF IInv, TypeOK, Join, Found, Flights
<1>2. LeaderInv' /\ MapInv'
  BY DEF IInv, TypeOK, LeaderInv, MapInv, Join, Found, Leading
<1>3. ReadyInv' /\ GotInv'
  BY DEF IInv, TypeOK, ReadyInv, GotInv, Join, Found
<1> QED
  BY <1>1, <1>2, <1>3 DEF IInv

LEMMA LeadStep ==
  ASSUME IInv, NEW p \in Procs, NEW k \in Keys, Lead(p, k)
  PROVE  IInv'
<1>1. TypeOK'
  BY FlightAssumption DEF IInv, TypeOK, Lead, Absent, Flights
<1>2. LeaderInv'
  BY FlightAssumption DEF IInv, TypeOK, LeaderInv, Lead, Absent, Leading, Flights
<1>3. MapInv'
  BY DEF IInv, TypeOK, LeaderInv, MapInv, Lead, Absent, Leading
<1>4. ReadyInv' /\ GotInv'
  BY FlightAssumption DEF IInv, TypeOK, ReadyInv, GotInv, Lead, Absent, Flights
<1> QED
  BY <1>1, <1>2, <1>3, <1>4 DEF IInv

LEMMA FnReturnsStep ==
  ASSUME IInv, NEW p \in Procs, NEW r \in Results, FnReturns(p, r)
  PROVE  IInv'
<1>1. TypeOK'
  BY DEF IInv, TypeOK, FnReturns, Flights
<1>2. LeaderInv' /\ MapInv'
  BY DEF IInv, TypeOK, LeaderInv, MapInv, FnReturns, Leading
<1>3. ReadyInv' /\ GotInv'
  BY DEF IInv, TypeOK, LeaderInv, ReadyInv, GotInv, FnReturns, Leading
<1> QED
  BY <1>1, <1>2, <1>3 DEF IInv

LEMMA FnPanicsStep ==
  ASSUME IInv, NEW p \in Procs, FnPanics(p)
  PROVE  IInv'
<1>1. TypeOK' /\ LeaderInv' /\ MapInv'
  BY DEF IInv, TypeOK, LeaderInv, MapInv, FnPanics, Leading
<1>2. ReadyInv' /\ GotInv'
  BY DEF IInv, TypeOK, ReadyInv, GotInv, FnPanics
<1> QED
  BY <1>1, <1>2 DEF IInv

LEMMA WgDoneStep ==
  ASSUME IInv, NEW p \in Procs, WgDone(p)
  PROVE  IInv'
<1>1. TypeOK' /\ LeaderInv' /\ MapInv'
  BY DEF IInv, TypeOK, LeaderInv, MapInv, WgDone, Done, Leading
<1>2. ReadyInv' /\ GotInv'
  BY DEF IInv, TypeOK, LeaderInv, ReadyInv, GotInv, WgDone, Done, Leading
<1> QED
  BY <1>1, <1>2 DEF IInv

LEMMA DeleteStep ==
  ASSUME IInv, NEW p \in Procs, Delete(p)
  PROVE  IInv'
<1>1. TypeOK'
  BY FlightAssumption DEF IInv, TypeOK, Delete, DeleteKey, Flights
<1>2. /\ Leading(p) /\ ~Leading(p)'
      /\ \A q \in Procs : q # p => (Leading(q)' <=> Leading(q))
      /\ m' = [m EXCEPT ![key[p]] = 0]
      /\ UNCHANGED <<key, flight, next>>
  BY DEF IInv, TypeOK, Delete, DeleteKey, Leading
<1>3. \A q \in Procs : q # p /\ Leading(q) => key[q] # key[p]
  BY <1>2 DEF IInv, LeaderInv
<1>4. \A q \in Procs : Leading(q) => key[q] \in Keys
  BY DEF IInv, TypeOK, Leading
<1>5. LeaderInv'
  BY <1>2, <1>3, <1>4 DEF IInv, TypeOK, LeaderInv
<1>6. MapInv'
  BY <1>2, <1>3, <1>4 DEF IInv, TypeOK, MapInv
<1>7. ReadyInv' /\ GotInv'
  BY DEF IInv, TypeOK, ReadyInv, GotInv, Delete, DeleteKey
<1> QED
  BY <1>1, <1>5, <1>6, <1>7 DEF IInv

LEMMA WakeStep ==
  ASSUME IInv, NEW p \in Procs, Wake(p)
  PROVE  IInv'
<1>1. TypeOK'
  BY DEF IInv, TypeOK, Wake, Zero, Flights
<1>2. LeaderInv' /\ MapInv'
  BY DEF IInv, TypeOK, LeaderInv, MapInv, Wake, Zero, Leading
<1>3. ReadyInv' /\ GotInv'
  BY DEF IInv, TypeOK, ReadyInv, GotInv, Wake, Zero
<1> QED
  BY <1>1, <1>2, <1>3 DEF IInv

LEMMA NextIInv ==
  ASSUME IInv, [Next]_vars
  PROVE  IInv'
<1>1. CASE \E p \in Procs : Do(p)
  BY <1>1, JoinStep, LeadStep, FnReturnsStep, FnPanicsStep, WgDoneStep,
     DeleteStep, WakeStep DEF Do
<1>2. CASE UNCHANGED vars
  BY <1>2 DEF vars, IInv, TypeOK, LeaderInv, MapInv, ReadyInv, GotInv, Leading, Flights
<1> QED
  BY <1>1, <1>2 DEF Next, Halted

\* The invariant holds of every reachable state of Do's users.
THEOREM Invariance == Spec => []IInv
BY InitIInv, NextIInv, PTL DEF Spec

\* Singleflight's variables keep their types.
THEOREM TypeCorrect == Spec => []TypeOK
BY Invariance, PTL DEF IInv

\* fn never runs twice at a time for one key.
THEOREM MutualExclusion == Spec => []OneFnPerKey
<1>1. IInv => OneFnPerKey
  BY DEF IInv, LeaderInv, OneFnPerKey, Leading
<1> QED
  BY Invariance, <1>1, PTL

\* Leader and waiters of a flight return the same result of fn.
THEOREM Agreement == Spec => []SameResult
<1>1. IInv => SameResult
  BY DEF IInv, ReadyInv, GotInv, SameResult
<1> QED
  BY Invariance, <1>1, PTL

\* A flight in the map still has its leader, and a leader deletes its own.
THEOREM MapDiscipline == Spec => []MapMatchesLeaders
<1>1. IInv => MapMatchesLeaders
  BY DEF IInv, LeaderInv, MapInv, MapMatchesLeaders, Leading
<1> QED
  BY Invariance, <1>1, PTL
-----------------------------------------------------------------------------
(* What the group relies on beside what singleflight promises              *)

\* A flight has no result before its fn returned, and is of one key.
FreshInv ==
  /\ \A f \in Flights : f >= next => val[f] = NoResult
  /\ \A p \in Procs : pc[p] \in {"fn", "panicked"} => val[flight[p]] = NoResult
  /\ \A p, q \in Procs :
       pc[p] # "out" /\ pc[q] # "out" /\ flight[p] = flight[q] => key[p] = key[q]

LEMMA InitFresh == Init => FreshInv
BY DEF Init, FreshInv

LEMMA NextFresh ==
  ASSUME IInv, FreshInv, [Next]_vars
  PROVE  FreshInv'
<1>1. ASSUME NEW p \in Procs, NEW k \in Keys, Join(p, k)
      PROVE  FreshInv'
  <2>1. PICK l \in Procs : Leading(l) /\ flight[l] = m[k] /\ key[l] = k
    BY <1>1 DEF IInv, MapInv, Join, Found
  <2> QED
    BY <1>1, <2>1 DEF IInv, TypeOK, FreshInv, Join, Leading
<1>2. ASSUME NEW p \in Procs, NEW k \in Keys, Lead(p, k)
      PROVE  FreshInv'
  BY <1>2, FlightAssumption DEF IInv, TypeOK, LeaderInv, FreshInv, Lead, Flights
<1>3. ASSUME NEW p \in Procs, NEW r \in Results, FnReturns(p, r)
      PROVE  FreshInv'
  <2>1. \A q \in Procs : q # p /\ pc[q] \in {"fn", "panicked"} => flight[q] # flight[p]
    BY <1>3 DEF IInv, LeaderInv, Leading, FnReturns
  <2>2. flight[p] \in Flights /\ flight[p] < next
    BY <1>3 DEF IInv, TypeOK, LeaderInv, FnReturns
  <2> QED
    BY <1>3, <2>1, <2>2, FlightAssumption DEF IInv, TypeOK, FreshInv, FnReturns, Flights
<1>4. ASSUME NEW p \in Procs, FnPanics(p) \/ WgDone(p) \/ Delete(p) \/ Wake(p)
      PROVE  FreshInv'
  BY <1>4 DEF IInv, TypeOK, FreshInv, FnPanics, WgDone, Delete, Wake
<1>5. CASE UNCHANGED vars
  BY <1>5 DEF vars, FreshInv
<1> QED
  BY <1>1, <1>2, <1>3, <1>4, <1>5 DEF Next, Do, Halted
-----------------------------------------------------------------------------
(* Where a goroutine is in the group, and where in Do                      *)

GroupTypes ==
  /\ step \in [Procs -> {"idle", "missed", "do", "pick", "getter", "populate", "return"}]
  /\ want \in [Procs -> Keys \cup {NoKey}]
  /\ loaded \in [Procs -> Results \cup {NoResult}]
  /\ peers \in BOOLEAN
  /\ db \in Versions
  /\ served \in [Procs -> [Keys -> 0..MaxVersion]]

StepInv ==
  \A p \in Procs :
    /\ step[p] \in {"idle", "missed"} <=> pc[p] = "out"
    /\ step[p] = "do" <=> pc[p] \in {"wait", "done", "delete"}
    /\ step[p] = "missed" => want[p] \in Keys
    /\ pc[p] # "out" => want[p] = key[p]
    /\ step[p] \in {"populate", "return"} => loaded[p] \in Results
    /\ step[p] = "populate" => loaded[p] \in Versions

LEMMA VersionsFit ==
  /\ Results = Versions \cup {Failed} /\ Failed \notin Versions
  /\ NoResult \notin Results /\ Missing \notin Versions
  /\ 1 \in Versions /\ \A v \in Versions : v \in Nat /\ v \in 0..MaxVersion
BY GroupAssumption, FlightAssumption DEF Versions

\* Every step of the group is a step of the loader, or leaves it alone.
LEMMA StepOfLoader ==
  ASSUME StepInv, [GroupNext]_groupVars
  PROVE  [Next]_vars
<1> USE DEF Next, Do
<1>1. ASSUME NEW p \in Procs, Get(p)
      PROVE  [Next]_vars
  <2>1. CASE \E k \in Keys : Hit(p, k) \/ Miss(p, k)
    BY <2>1 DEF Hit, Miss
  <2>2. CASE Load(p)
    BY <2>2 DEF Load, StepInv
  <2>3. CASE LoadReturns(p) \/ ReleaseWaiters(p)
    BY <2>3 DEF LoadReturns, ReleaseWaiters
  <2> QED
    BY <1>1, <2>1, <2>2, <2>3 DEF Get
<1>2. ASSUME NEW p \in Procs, Fn(p)
      PROVE  [Next]_vars
  <2>1. CASE GetterPanics(p) \/ Loaded(p)
    BY <2>1 DEF GetterPanics, Loaded, StepInv
  <2>2. CASE (\E v \in Versions : FromPeer(p, v)) \/ NotFromPeer(p) \/ GetterAnswers(p)
             \/ GetterFails(p) \/ Populate(p)
    BY <2>2 DEF FromPeer, NotFromPeer, GetterAnswers, GetterFails, Populate
  <2> QED
    BY <1>2, <2>1, <2>2 DEF Fn
<1>3. CASE RegisterPeers \/ DataChanges \/ GroupHalted \/ UNCHANGED groupVars
  BY <1>3 DEF RegisterPeers, DataChanges, GroupHalted, groupVars
<1> QED
  BY <1>1, <1>2, <1>3 DEF GroupNext

-----------------------------------------------------------------------------
(* The main cache                                                          *)

P == INSTANCE LruProofs WITH Values <- Versions, Budgets <- {MaxBytes}, c <- cache,
                             mirror <- cache, recency <- cache, last <- cache

\* The cache's own assumption, for the group's keys, data and budget.
LEMMA CacheFits ==
  /\ {MaxBytes} \subseteq Nat
  /\ \A k \in Keys : KeyLen(k) \in Nat
  /\ \A v \in Versions : ValueLen(v) \in Nat
  /\ Missing \notin Versions
BY GroupAssumption DEF Versions

LEMMA SameOperators ==
  /\ \A b : L!NewCache(b) = P!NewCache(b)
  /\ \A x, k : L!Lookup(x, k) = P!Lookup(x, k)
  /\ \A x, k : L!Get(x, k) = P!Get(x, k)
  /\ \A x : L!OverBudget(x) = P!OverBudget(x)
  /\ \A x, k, v : L!Add(x, k, v) = P!Add(x, k, v)
<1>1. \A b : L!NewCache(b) = P!NewCache(b)
  BY DEF L!NewCache, P!NewCache
<1>2. \A x, k : L!Lookup(x, k) = P!Lookup(x, k)
  BY DEF L!Lookup, P!Lookup, L!Position, P!Position
<1>3. \A x, k : L!Get(x, k) = P!Get(x, k)
  BY Zenon DEF L!Get, P!Get, L!Touch, P!Touch, L!Others, P!Others, L!Position, P!Position,
               L!RemoveAt, P!RemoveAt
<1>4. \A x : L!OverBudget(x) = P!OverBudget(x)
  BY DEF L!OverBudget, P!OverBudget
<1>5. \A x : L!RemoveOldest(x) = P!RemoveOldest(x)
  BY DEF L!RemoveOldest, P!RemoveOldest, L!Oldest, P!Oldest, L!Size, P!Size
<1>6. \A x, k, v : L!Put(x, k, v) = P!Put(x, k, v)
  <2>1. \A x, k : L!Others(x, k) = P!Others(x, k)
    BY Zenon DEF L!Others, P!Others, L!Position, P!Position, L!RemoveAt, P!RemoveAt
  <2>2. \A k, v : L!Entry(k, v) = P!Entry(k, v)
    BY Zenon DEF L!Entry, P!Entry
  <2>3. \A e : L!Size(e) = P!Size(e)
    BY Zenon DEF L!Size, P!Size
  <2> SUFFICES ASSUME NEW x, NEW k, NEW v
               PROVE  L!Put(x, k, v) = P!Put(x, k, v)
    OBVIOUS
  <2>4. L!Others(x, k) = P!Others(x, k) /\ L!Lookup(x, k) = P!Lookup(x, k)
        /\ L!Entry(k, v) = P!Entry(k, v) /\ L!Size(P!Entry(k, v)) = P!Size(P!Entry(k, v))
    BY <1>2, <2>1, <2>2, <2>3, Zenon
  <2> QED
    BY <2>4 DEF L!Put, P!Put
<1>7. \A x : L!Trim(x) = P!Trim(x)
  BY Zenon DEF L!Trim, P!Trim, L!OverBudget, P!OverBudget, L!RemoveOldest, P!RemoveOldest,
               L!Oldest, P!Oldest, L!Size, P!Size
<1>8. \A x, k, v : L!Add(x, k, v) = P!Add(x, k, v)
  BY <1>6, <1>7 DEF L!Add, P!Add
<1> QED
  BY <1>1, <1>2, <1>3, <1>4, <1>8

CacheOK == P!WellFormed(cache) /\ cache.maxBytes = MaxBytes /\ ~L!OverBudget(cache)

LEMMA LookupIsVersion == CacheOK => \A k \in cache.cache : k \in Keys /\ L!Lookup(cache, k) \in Versions
<1> SUFFICES ASSUME CacheOK, NEW k \in cache.cache
             PROVE  k \in Keys /\ L!Lookup(cache, k) \in Versions
  OBVIOUS
<1>1. P!Lookup(cache, k) \in Versions
  BY CacheFits, P!LookupFacts DEF CacheOK
<1>2. k \in Keys
  BY DEF CacheOK, P!WellFormed, P!Caches
<1> QED
  BY <1>1, <1>2, SameOperators

LEMMA HitCache ==
  ASSUME CacheOK, NEW k \in cache.cache, cache' = L!Get(cache, k)
  PROVE  /\ CacheOK'
         /\ cache'.cache = cache.cache
         /\ \A h \in cache.cache : L!Lookup(cache', h) = L!Lookup(cache, h)
<1>1. P!WellFormed(cache) /\ cache' = P!Get(cache, k)
  BY SameOperators DEF CacheOK
<1>2. /\ P!WellFormed(cache')
      /\ cache'.maxBytes = cache.maxBytes /\ cache'.nbytes = cache.nbytes
      /\ cache'.cache = cache.cache
      /\ \A h \in cache.cache : P!Lookup(cache', h) = P!Lookup(cache, h)
  BY <1>1, CacheFits, P!GetFacts
<1>3. ~L!OverBudget(cache')
  BY <1>2 DEF CacheOK, L!OverBudget
<1> QED
  BY <1>2, <1>3, SameOperators DEF CacheOK

LEMMA PopulateCache ==
  ASSUME CacheOK, NEW k \in Keys, NEW v \in Versions, cache' = L!Add(cache, k, v)
  PROVE  /\ CacheOK'
         /\ \A h \in cache'.cache :
              /\ h = k => L!Lookup(cache', h) = v
              /\ h # k => h \in cache.cache /\ L!Lookup(cache', h) = L!Lookup(cache, h)
<1>1. P!WellFormed(cache) /\ cache' = P!Add(cache, k, v)
  BY SameOperators DEF CacheOK
<1>2. /\ P!WellFormed(cache')
      /\ cache'.maxBytes = cache.maxBytes
      /\ ~P!OverBudget(cache')
      /\ P!Updated(cache, cache', k, v)
  BY <1>1, CacheFits, P!AddFacts
<1> QED
  BY <1>2, SameOperators DEF CacheOK, P!Updated
-----------------------------------------------------------------------------
(* Types, and the goroutines' places                                       *)

\* What each step of the group does to its own goroutine.
TypedInv == IInv /\ FreshInv /\ GroupTypes /\ StepInv /\ CacheOK

LEMMA InitTyped == GroupInit => TypedInv
<1> SUFFICES ASSUME GroupInit PROVE TypedInv
  OBVIOUS
<1>1. IInv /\ FreshInv
  BY InitIInv, InitFresh DEF GroupInit
<1>2. GroupTypes
  <2>1. MaxVersion \in Nat /\ 0 \in 0..MaxVersion
    BY GroupAssumption
  <2> QED
    BY <2>1, VersionsFit DEF GroupInit, GroupTypes
<1>3. StepInv
  BY DEF GroupInit, Init, StepInv
<1>4. CacheOK
  <2>1. cache = P!NewCache(MaxBytes) /\ MaxBytes \in Nat \ {0}
    BY SameOperators, GroupAssumption DEF GroupInit
  <2>2. P!WellFormed(cache)
    BY <2>1, CacheFits, P!NewCacheWellFormed
  <2>3. cache.maxBytes = MaxBytes /\ cache.nbytes = 0
    BY <2>1 DEF P!NewCache
  <2> QED
    BY <2>1, <2>2, <2>3 DEF CacheOK, L!OverBudget
<1> QED
  BY <1>1, <1>2, <1>3, <1>4 DEF TypedInv

LEMMA HitTyped ==
  ASSUME TypedInv, NEW p \in Procs, NEW k \in Keys, Hit(p, k)
  PROVE  GroupTypes' /\ StepInv' /\ CacheOK'
<1>1. k \in cache.cache /\ cache' = L!Get(cache, k)
  BY DEF Hit
<1>2. L!Lookup(cache, k) \in Versions
  BY <1>1, LookupIsVersion DEF TypedInv
<1>3. GroupTypes' /\ StepInv'
  BY <1>2, VersionsFit DEF TypedInv, GroupTypes, StepInv, Hit, Serve, vars, getVars
<1>4. CacheOK'
  BY <1>1, HitCache DEF TypedInv
<1> QED
  BY <1>3, <1>4

LEMMA MissTyped ==
  ASSUME TypedInv, NEW p \in Procs, NEW k \in Keys, Miss(p, k)
  PROVE  GroupTypes' /\ StepInv' /\ CacheOK'
<1>1. GroupTypes' /\ CacheOK'
  BY DEF TypedInv, GroupTypes, CacheOK, Miss, Goto
<1>2. StepInv'
  BY DEF TypedInv, GroupTypes, StepInv, Miss, Goto, vars
<1> QED
  BY <1>1, <1>2

LEMMA LoadTyped ==
  ASSUME TypedInv, NEW p \in Procs, Load(p)
  PROVE  GroupTypes' /\ StepInv' /\ CacheOK'
<1>1. GroupTypes' /\ CacheOK'
  BY DEF TypedInv, GroupTypes, CacheOK, Load, Goto
<1>2. CASE Join(p, want[p]) /\ Goto(p, "do")
  <2>1. StepInv'
    BY <1>2 DEF TypedInv, IInv, TypeOK, GroupTypes, StepInv, Load, Join, Goto
  <2> QED
    BY <1>1, <2>1
<1>3. CASE Lead(p, want[p]) /\ Goto(p, "pick")
  <2>1. StepInv'
    BY <1>3 DEF TypedInv, IInv, TypeOK, GroupTypes, StepInv, Load, Lead, Goto
  <2> QED
    BY <1>1, <2>1
<1> QED
  BY <1>2, <1>3 DEF Load

\* What a goroutine that leaves Do is given.
LEMMA GivenIsResult ==
  ASSUME TypedInv, NEW p \in Procs, LoadReturns(p)
  PROVE  /\ got'[p] = val[flight[p]] /\ val[flight[p]] \in Results
         /\ want[p] \in Keys /\ pc' = [pc EXCEPT ![p] = "out"]
         /\ step[p] = "do" /\ step' = [step EXCEPT ![p] = "idle"]
         /\ UNCHANGED <<key, flight, val, want, loaded, cache, peers, db>>
<1>1. step[p] = "do" /\ step' = [step EXCEPT ![p] = "idle"] /\ (Delete(p) \/ Wake(p))
      /\ UNCHANGED <<want, loaded, cache, peers, db>>
  BY DEF LoadReturns, Goto
<1>2. /\ got' = [got EXCEPT ![p] = val[flight[p]]] /\ pc' = [pc EXCEPT ![p] = "out"]
      /\ UNCHANGED <<key, flight, val>> /\ pc[p] \in {"delete", "wait"}
  BY <1>1 DEF Delete, Wake
<1>3. flight[p] \in ready
  BY <1>1 DEF Delete, Wake, Zero, TypedInv, IInv, ReadyInv
<1>4. val[flight[p]] \in Results
  BY <1>3 DEF TypedInv, IInv, ReadyInv
<1>5. want[p] \in Keys
  BY <1>2 DEF TypedInv, IInv, TypeOK, StepInv
<1>6. got'[p] = val[flight[p]]
  BY <1>2 DEF TypedInv, IInv, TypeOK
<1> QED
  BY <1>1, <1>2, <1>4, <1>5, <1>6

LEMMA LoadReturnsTyped ==
  ASSUME TypedInv, NEW p \in Procs, LoadReturns(p)
  PROVE  GroupTypes' /\ StepInv' /\ CacheOK'
<1>1. /\ got'[p] = val[flight[p]] /\ val[flight[p]] \in Results
      /\ want[p] \in Keys /\ pc' = [pc EXCEPT ![p] = "out"]
      /\ step[p] = "do" /\ step' = [step EXCEPT ![p] = "idle"]
      /\ UNCHANGED <<key, flight, val, want, loaded, cache, peers, db>>
  BY GivenIsResult
<1>2. served' \in [Procs -> [Keys -> 0..MaxVersion]]
  BY <1>1, VersionsFit DEF TypedInv, GroupTypes, LoadReturns, Serve
<1>3. GroupTypes' /\ CacheOK'
  BY <1>1, <1>2 DEF TypedInv, GroupTypes, CacheOK
<1>4. StepInv'
  BY <1>1 DEF TypedInv, IInv, TypeOK, GroupTypes, StepInv
<1> QED
  BY <1>3, <1>4

LEMMA ReleaseWaitersTyped ==
  ASSUME TypedInv, NEW p \in Procs, ReleaseWaiters(p)
  PROVE  GroupTypes' /\ StepInv' /\ CacheOK'
BY DEF TypedInv, IInv, TypeOK, GroupTypes, StepInv, CacheOK, ReleaseWaiters, WgDone, getVars

LEMMA FetchTyped ==
  ASSUME TypedInv, NEW p \in Procs,
         \/ \E v \in Versions : FromPeer(p, v)
         \/ NotFromPeer(p) \/ GetterAnswers(p) \/ GetterFails(p)
  PROVE  GroupTypes' /\ StepInv' /\ CacheOK'
<1>1. CASE \E v \in Versions : FromPeer(p, v)
  BY <1>1, VersionsFit DEF TypedInv, GroupTypes, StepInv, CacheOK, FromPeer, Goto, vars
<1>2. CASE NotFromPeer(p)
  BY <1>2 DEF TypedInv, GroupTypes, StepInv, CacheOK, NotFromPeer, Goto, vars
<1>3. CASE GetterAnswers(p)
  BY <1>3, VersionsFit DEF TypedInv, GroupTypes, StepInv, CacheOK, GetterAnswers, Goto, vars
<1>4. CASE GetterFails(p)
  BY <1>4, VersionsFit DEF TypedInv, GroupTypes, StepInv, CacheOK, GetterFails, Goto, vars
<1> QED
  BY <1>1, <1>2, <1>3, <1>4

LEMMA PopulateTyped ==
  ASSUME TypedInv, NEW p \in Procs, Populate(p)
  PROVE  GroupTypes' /\ StepInv' /\ CacheOK'
<1>1. want[p] \in Keys /\ loaded[p] \in Versions /\ cache' = L!Add(cache, want[p], loaded[p])
  BY DEF TypedInv, IInv, TypeOK, StepInv, Populate
<1>2. CacheOK'
  BY <1>1, PopulateCache DEF TypedInv
<1>3. GroupTypes' /\ StepInv'
  BY <1>1, VersionsFit DEF TypedInv, GroupTypes, StepInv, Populate, Goto, vars
<1> QED
  BY <1>2, <1>3

LEMMA LoadedTyped ==
  ASSUME TypedInv, NEW p \in Procs, Loaded(p)
  PROVE  GroupTypes' /\ StepInv' /\ CacheOK'
BY DEF TypedInv, IInv, TypeOK, GroupTypes, StepInv, CacheOK, Loaded, FnReturns, Goto

LEMMA GetterPanicsTyped ==
  ASSUME TypedInv, NEW p \in Procs, GetterPanics(p)
  PROVE  GroupTypes' /\ StepInv' /\ CacheOK'
BY DEF TypedInv, IInv, TypeOK, GroupTypes, StepInv, CacheOK, GetterPanics, FnPanics, getVars

LEMMA NextTyped ==
  ASSUME TypedInv, [GroupNext]_groupVars
  PROVE  TypedInv'
<1>1. [Next]_vars
  BY StepOfLoader DEF TypedInv
<1>2. IInv' /\ FreshInv'
  BY <1>1, NextIInv, NextFresh DEF TypedInv
<1>3. ASSUME NEW p \in Procs, Get(p)
      PROVE  GroupTypes' /\ StepInv' /\ CacheOK'
  BY <1>3, HitTyped, MissTyped, LoadTyped, LoadReturnsTyped, ReleaseWaitersTyped DEF Get
<1>4. ASSUME NEW p \in Procs, Fn(p)
      PROVE  GroupTypes' /\ StepInv' /\ CacheOK'
  BY <1>4, FetchTyped, GetterPanicsTyped, PopulateTyped, LoadedTyped DEF Fn
<1>5. CASE RegisterPeers \/ DataChanges
  <2>1. db' \in Versions /\ peers' \in BOOLEAN
    <3>1. db \in 1..MaxVersion /\ MaxVersion \in Nat /\ peers \in BOOLEAN
      BY GroupAssumption DEF TypedInv, GroupTypes, Versions
    <3>2. CASE RegisterPeers
      BY <3>1, <3>2 DEF RegisterPeers, Versions
    <3>3. CASE DataChanges
      BY <3>1, <3>3 DEF DataChanges, Versions
    <3> QED
      BY <1>5, <3>2, <3>3
  <2>2. UNCHANGED <<pc, key, step, want, loaded, cache, served>>
    BY <1>5 DEF RegisterPeers, DataChanges, vars, getVars
  <2>3. GroupTypes' /\ StepInv'
    BY <2>1, <2>2 DEF TypedInv, GroupTypes, StepInv
  <2>4. CacheOK'
    BY <2>2 DEF TypedInv, CacheOK
  <2> QED
    BY <1>2, <2>3, <2>4 DEF TypedInv
<1>6. CASE UNCHANGED groupVars
  <2>1. UNCHANGED <<pc, key, step, want, loaded, cache, served, db, peers>>
    BY <1>6 DEF groupVars, getVars, vars
  <2>2. GroupTypes' /\ StepInv'
    BY <2>1 DEF TypedInv, GroupTypes, StepInv
  <2>3. CacheOK'
    BY <2>1 DEF TypedInv, CacheOK
  <2> QED
    BY <1>2, <2>2, <2>3 DEF TypedInv
<1> QED
  BY <1>2, <1>3, <1>4, <1>5, <1>6 DEF GroupNext, GroupHalted, TypedInv

LEMMA Typed == GroupSpec => []TypedInv
BY InitTyped, NextTyped, PTL DEF GroupSpec
-----------------------------------------------------------------------------
(* What the group has from its loader                                      *)

\* The group's variables keep their types, and the cache stays in its budget
\* whatever is loaded into it.
THEOREM GroupTypeCorrect == GroupSpec => []GroupTypeOK
<1>1. TypedInv => GroupTypeOK
  <2> SUFFICES ASSUME TypedInv PROVE GroupTypeOK
    OBVIOUS
  <2>1. P!WellFormed(cache) /\ cache.maxBytes = MaxBytes /\ ~L!OverBudget(cache)
    BY DEF TypedInv, CacheOK
  <2>2. cache.nbytes \in Nat
    BY <2>1, CacheFits, P!CountIsNat
  <2>3. cache.nbytes \in 0..MaxBytes
    BY <2>1, <2>2, GroupAssumption DEF L!OverBudget
  <2>4. cache \in P!Caches
    BY <2>1 DEF P!WellFormed
  <2>5. \A i \in 1..Len(cache.ll) : cache.ll[i] \in P!Entries
    BY <2>4, CacheFits, P!CacheFields
  <2>6. cache.cache \subseteq Keys /\ \A i \in 1..Len(cache.ll) : cache.ll[i].value \in Versions
    BY <2>4, <2>5 DEF P!Caches, P!Entries
  <2> QED
    BY <2>3, <2>6 DEF TypedInv, GroupTypes, StepInv, GroupTypeOK
<1> QED
  BY Typed, <1>1, PTL

\* The group's steps are those of SingleFlight with more to say of each, so the
\* guarantees of the loader carry over.
LEMMA LoadsAreFlights == GroupSpec => Spec
<1>1. GroupInit => Init
  BY DEF GroupInit
<1>2. TypedInv /\ [GroupNext]_groupVars => [Next]_vars
  BY StepOfLoader DEF TypedInv
<1> QED
  BY Typed, <1>1, <1>2, PTL DEF GroupSpec, Spec

\* Group.Get loads a key at most once at a time, whoever asks for it and
\* wherever it comes from (geecache.go:88).
THEOREM OneLoadPerKey == GroupSpec => []OneFnPerKey
BY LoadsAreFlights, MutualExclusion, PTL

\* Everybody who waited for a load returns what its leader loaded.
THEOREM OneResultPerLoad == GroupSpec => []SameResult
BY LoadsAreFlights, Agreement, PTL
-----------------------------------------------------------------------------
(* Which versions of a key may still reach somebody                        *)

\* The keys that this node loads with its own getter.
Local == Keys \ Remote

Result(p) == val[flight[p]]

\* v is no older than anything of k that was served, is cached, or is what a
\* flight ended with that somebody has yet to return from.
Latest(k, v) ==
  /\ \A q \in Procs : served[q][k] <= v
  /\ k \in cache.cache => L!Lookup(cache, k) <= v
  /\ \A q \in Procs : step[q] = "do" /\ want[q] = k /\ Result(q) \in Versions => Result(q) <= v

PastInv ==
  /\ \A k \in Keys : Latest(k, db)
  /\ \A p \in Procs : loaded[p] \in Versions => loaded[p] <= db

\* While a key is being loaded nothing overtakes what was loaded.
LoadInv ==
  \A p \in Procs :
    step[p] \in {"populate", "return"} /\ want[p] \in Local /\ loaded[p] \in Versions =>
      Latest(want[p], loaded[p])

\* Nor before the flight has left the map.
DoneInv ==
  \A p \in Procs :
    pc[p] \in {"done", "delete"} /\ want[p] \in Local /\ Result(p) \in Versions =>
      Latest(want[p], Result(p))

\* Who waits was not served anything newer than what it waits for.
WaitInv ==
  \A p \in Procs :
    step[p] = "do" /\ want[p] \in Local /\ Result(p) \in Versions => served[p][want[p]] <= Result(p)

\* Nothing that was served, or is about to be, is newer than what is cached.
CacheInv ==
  \A k \in Local : k \in cache.cache =>
    /\ \A q \in Procs : served[q][k] <= L!Lookup(cache, k)
    /\ \A q \in Procs : step[q] = "do" /\ want[q] = k /\ Result(q) \in Versions =>
                          Result(q) <= L!Lookup(cache, k)
    /\ \A q \in Procs : step[q] = "return" /\ want[q] = k /\ loaded[q] \in Versions =>
                          loaded[q] <= L!Lookup(cache, k)

DataInv == PastInv /\ LoadInv /\ DoneInv /\ WaitInv /\ CacheInv

LEMMA InitData == GroupInit => DataInv
<1> SUFFICES ASSUME GroupInit PROVE DataInv
  OBVIOUS
<1>1. /\ \A q \in Procs, k \in Keys : served[q][k] = 0
      /\ \A q \in Procs : step[q] = "idle" /\ pc[q] = "out" /\ loaded[q] = NoResult
      /\ db = 1
  BY DEF GroupInit, Init
<1>2. cache.cache = {}
  BY DEF GroupInit, L!NewCache
<1>3. PastInv
  BY <1>1, <1>2, VersionsFit DEF PastInv, Latest
<1>4. LoadInv /\ DoneInv /\ WaitInv /\ CacheInv
  BY <1>1, <1>2 DEF LoadInv, DoneInv, WaitInv, CacheInv, Local
<1> QED
  BY <1>3, <1>4 DEF DataInv

\* The one leader of a key.
LEMMA OneLeader ==
  ASSUME TypedInv, NEW p \in Procs, NEW q \in Procs,
         pc[p] \in {"fn", "done", "delete", "panicked"}, pc[q] \in {"fn", "done", "delete", "panicked"},
         want[p] = want[q]
  PROVE  p = q
<1>1. key[p] = key[q]
  BY DEF TypedInv, StepInv
<1>2. flight[p] = flight[q]
  BY <1>1 DEF TypedInv, IInv, LeaderInv, Leading
<1> QED
  BY <1>2 DEF TypedInv, IInv, LeaderInv, Leading

LEMMA LoadsInFn ==
  ASSUME TypedInv, NEW p \in Procs, step[p] \in {"pick", "getter", "populate", "return"}
  PROVE  pc[p] \in {"fn", "panicked"}
BY DEF TypedInv, IInv, TypeOK, StepInv
-----------------------------------------------------------------------------
(* How a step carries Latest over                                          *)

LEMMA LatestGrows ==
  ASSUME TypedInv, NEW k \in Keys, NEW v \in Nat, NEW w \in Nat, Latest(k, v), v <= w
  PROVE  Latest(k, w)
<1>1. \A q \in Procs : served[q][k] \in Nat
  BY GroupAssumption DEF TypedInv, GroupTypes
<1>2. k \in cache.cache => L!Lookup(cache, k) \in Nat
  BY VersionsFit, LookupIsVersion DEF TypedInv
<1>3. ASSUME NEW q \in Procs
      PROVE  served[q][k] <= w
  <2>1. served[q][k] \in Nat /\ served[q][k] <= v
    BY <1>1 DEF Latest
  <2> QED
    BY <2>1
<1>4. ASSUME k \in cache.cache
      PROVE  L!Lookup(cache, k) <= w
  <2>1. L!Lookup(cache, k) \in Nat /\ L!Lookup(cache, k) <= v
    BY <1>2, <1>4 DEF Latest
  <2> QED
    BY <2>1
<1>5. ASSUME NEW q \in Procs, step[q] = "do" /\ want[q] = k /\ Result(q) \in Versions
      PROVE  Result(q) <= w
  <2>1. Result(q) <= v /\ Result(q) \in Nat
    BY <1>5, VersionsFit DEF Latest
  <2> QED
    BY <2>1
<1> QED
  BY <1>3, <1>4, <1>5 DEF Latest

\* The step adds at most the version u of k to what of k may reach somebody,
\* and what is newly loaded or done is no older than u and all the rest.
Carries(k, u) ==
  /\ db' \in Versions /\ db <= db' /\ u <= db
  /\ \A h \in Keys, v \in Nat : Latest(h, v) /\ (h = k => u <= v) => Latest(h, v)'
  /\ \A q \in Procs : loaded'[q] \in Versions => loaded'[q] <= db
  /\ \A q \in Procs :
       step'[q] \in {"populate", "return"} /\ want'[q] \in Local /\ loaded'[q] \in Versions =>
         Latest(want'[q], loaded'[q]) /\ (want'[q] = k => u <= loaded'[q])
  /\ \A q \in Procs :
       pc'[q] \in {"done", "delete"} /\ want'[q] \in Local /\ Result(q)' \in Versions =>
         Latest(want'[q], Result(q)') /\ (want'[q] = k => u <= Result(q)')

LEMMA Carried ==
  ASSUME TypedInv, DataInv, NEW k, NEW u \in Nat, Carries(k, u)
  PROVE  PastInv' /\ LoadInv' /\ DoneInv'
<1>1. db \in Nat /\ db' \in Nat /\ db <= db' /\ u <= db /\ Versions \subseteq Nat
  BY VersionsFit DEF TypedInv, GroupTypes, Carries
<1>2. \A h \in Keys, v \in Nat : Latest(h, v) /\ (h = k => u <= v) => Latest(h, v)'
  BY DEF Carries
<1>3. Local \subseteq Keys
  BY DEF Local
<1>4. PastInv'
  <2>1. \A h \in Keys : Latest(h, db)'
    <3> SUFFICES ASSUME NEW h \in Keys PROVE Latest(h, db)'
      OBVIOUS
    <3>1. PICK v \in Nat : v = db'
      BY <1>1
    <3>2. Latest(h, v)
      BY <1>1, <3>1, LatestGrows DEF DataInv, PastInv
    <3>3. u <= v
      BY <1>1, <3>1
    <3>4. Latest(h, v)'
      BY <1>2, <3>2, <3>3
    <3> QED
      BY <3>1, <3>4 DEF Latest
  <2>2. ASSUME NEW q \in Procs, loaded'[q] \in Versions
        PROVE  loaded'[q] <= db'
    <3>1. loaded'[q] <= db /\ loaded'[q] \in Nat
      BY <1>1, <2>2 DEF Carries
    <3> QED
      BY <1>1, <3>1
  <2> QED
    BY <2>1, <2>2 DEF PastInv, Versions
<1>5. LoadInv'
  <2> SUFFICES ASSUME NEW q \in Procs, step'[q] \in {"populate", "return"}, want'[q] \in Local,
                      loaded'[q] \in Versions
               PROVE  Latest(want[q], loaded[q])'
    BY DEF LoadInv, Local, Versions
  <2>1. PICK h \in Keys, v \in Nat : h = want'[q] /\ v = loaded'[q]
    BY <1>1, <1>3
  <2>2. Latest(h, v)'
    BY <1>2, <2>1 DEF Carries
  <2> QED
    BY <2>1, <2>2 DEF Latest
<1>6. DoneInv'
  <2> SUFFICES ASSUME NEW q \in Procs, pc'[q] \in {"done", "delete"}, want'[q] \in Local,
                      Result(q)' \in Versions
               PROVE  Latest(want[q], Result(q))'
    BY DEF DoneInv, Local, Versions
  <2>1. PICK h \in Keys, v \in Nat : h = want'[q] /\ v = Result(q)'
    BY <1>1, <1>3
  <2>2. Latest(h, v)'
    BY <1>2, <2>1 DEF Carries
  <2> QED
    BY <2>1, <2>2 DEF Latest
<1> QED
  BY <1>4, <1>5, <1>6
-----------------------------------------------------------------------------
(* Steps that change neither the cache nor what was served or is waited for*)

Quiet ==
  /\ UNCHANGED <<served, cache>>
  /\ db' \in Versions /\ db <= db'
  /\ \A q \in Procs : step'[q] = "do" <=> step[q] = "do"
  /\ \A q \in Procs : step[q] = "do" => want'[q] = want[q] /\ Result(q)' = Result(q)
  /\ \A q \in Procs : loaded'[q] = loaded[q] \/ loaded'[q] \notin Versions \/ loaded'[q] <= db
  /\ \A q \in Procs :
       step'[q] \in {"populate", "return"} /\ want'[q] \in Local /\ loaded'[q] \in Versions =>
         \/ loaded'[q] = db /\ step'[q] = "populate"
         \/ step'[q] = step[q] /\ want'[q] = want[q] /\ loaded'[q] = loaded[q]
  /\ \A q \in Procs : pc'[q] \in {"done", "delete"} => pc[q] \in {"done", "delete"}

LEMMA QuietData ==
  ASSUME TypedInv, DataInv, Quiet
  PROVE  DataInv'
<1>1. Carries(NoKey, 0)
  <2>1. db \in Nat /\ db' \in Versions /\ db <= db' /\ Versions \subseteq Nat /\ 0 <= db
    BY VersionsFit DEF TypedInv, GroupTypes, Quiet
  <2>2. \A h \in Keys, v \in Nat : Latest(h, v) => Latest(h, v)'
    BY DEF Quiet, Latest
  <2>3. \A q \in Procs : loaded'[q] \in Versions => loaded'[q] <= db
    BY DEF Quiet, DataInv, PastInv
  <2>4. ASSUME NEW q \in Procs, step'[q] \in {"populate", "return"}, want'[q] \in Local,
               loaded'[q] \in Versions
        PROVE  Latest(want'[q], loaded'[q]) /\ 0 <= loaded'[q]
    <3>1. CASE loaded'[q] = db
      BY <2>1, <2>4, <3>1 DEF DataInv, PastInv, Local
    <3>2. CASE step'[q] = step[q] /\ want'[q] = want[q] /\ loaded'[q] = loaded[q]
      <4>1. step[q] \in {"populate", "return"} /\ want[q] \in Local /\ loaded[q] \in Versions
        BY <2>4, <3>2
      <4>2. Latest(want[q], loaded[q]) /\ loaded[q] \in Nat
        BY <2>1, <4>1 DEF DataInv, LoadInv
      <4> QED
        BY <3>2, <4>2
    <3>3. \/ loaded'[q] = db
          \/ step'[q] = step[q] /\ want'[q] = want[q] /\ loaded'[q] = loaded[q]
      BY <2>4 DEF Quiet
    <3> QED
      BY <3>1, <3>2, <3>3, Zenon
  <2>5. ASSUME NEW q \in Procs, pc'[q] \in {"done", "delete"}, want'[q] \in Local,
               Result(q)' \in Versions
        PROVE  Latest(want'[q], Result(q)') /\ 0 <= Result(q)'
    <3>1. pc[q] \in {"done", "delete"} /\ step[q] = "do"
      BY <2>5 DEF TypedInv, StepInv, Quiet
    <3>2. want'[q] = want[q] /\ Result(q)' = Result(q)
      BY <3>1 DEF Quiet
    <3>3. Latest(want[q], Result(q)) /\ Result(q) \in Nat
      BY <2>1, <2>5, <3>1, <3>2 DEF DataInv, DoneInv
    <3>4. PICK v \in Nat : v = Result(q)
      BY <3>3
    <3>5. want'[q] = want[q] /\ Result(q)' = v /\ Latest(want[q], v) /\ 0 <= v
      BY <3>2, <3>3, <3>4
    <3> QED
      BY <3>5
  <2> QED
    BY <2>1, <2>2, <2>3, <2>4, <2>5 DEF Carries
<1>2. PastInv' /\ LoadInv' /\ DoneInv'
  BY <1>1, Carried
<1>3. WaitInv'
  BY DEF DataInv, WaitInv, Quiet, Local, Versions
<1>4. CacheInv'
  <2>1. \A q \in Procs : step'[q] = "return" /\ want'[q] \in Local /\ loaded'[q] \in Versions =>
          step[q] = "return" /\ want'[q] = want[q] /\ loaded'[q] = loaded[q]
    BY DEF Quiet
  <2> QED
    BY <2>1 DEF DataInv, CacheInv, Quiet, Local, Versions
<1> QED
  BY <1>2, <1>3, <1>4 DEF DataInv

LEMMA DbIsNat == TypedInv => db \in Versions /\ db \in Nat /\ db <= db
BY VersionsFit DEF TypedInv, GroupTypes

LEMMA MissQuiet ==
  ASSUME TypedInv, NEW p \in Procs, NEW k \in Keys, Miss(p, k)
  PROVE  Quiet
BY DbIsNat DEF TypedInv, GroupTypes, Miss, Goto, Quiet, Result, vars

LEMMA LeadQuiet ==
  ASSUME TypedInv, NEW p \in Procs, Load(p), Lead(p, want[p]), Goto(p, "pick")
  PROVE  Quiet
BY DbIsNat DEF TypedInv, IInv, TypeOK, GroupTypes, Load, Lead, Goto, Quiet, Result

LEMMA ReleaseWaitersQuiet ==
  ASSUME TypedInv, NEW p \in Procs, ReleaseWaiters(p)
  PROVE  Quiet
BY DbIsNat DEF TypedInv, IInv, TypeOK, GroupTypes, ReleaseWaiters, WgDone, Quiet, Result, getVars

LEMMA FromPeerQuiet ==
  ASSUME TypedInv, NEW p \in Procs, NEW v \in Versions, FromPeer(p, v)
  PROVE  Quiet
BY DbIsNat DEF TypedInv, GroupTypes, FromPeer, Goto, Quiet, Result, vars, Local

LEMMA GetterQuiet ==
  ASSUME TypedInv, NEW p \in Procs, NotFromPeer(p) \/ GetterAnswers(p) \/ GetterFails(p)
  PROVE  Quiet
<1>1. CASE NotFromPeer(p)
  BY <1>1, DbIsNat DEF TypedInv, GroupTypes, NotFromPeer, Goto, Quiet, Result, vars
<1>2. CASE GetterAnswers(p)
  BY <1>2, VersionsFit DEF TypedInv, GroupTypes, GetterAnswers, Goto, Quiet, Result, vars
<1>3. CASE GetterFails(p)
  BY <1>3, VersionsFit DEF TypedInv, GroupTypes, GetterFails, Goto, Quiet, Result, vars
<1> QED
  BY <1>1, <1>2, <1>3

LEMMA GetterPanicsQuiet ==
  ASSUME TypedInv, NEW p \in Procs, GetterPanics(p)
  PROVE  Quiet
BY DbIsNat DEF TypedInv, IInv, TypeOK, GroupTypes, GetterPanics, FnPanics, Quiet, Result, getVars

LEMMA OthersQuiet ==
  ASSUME TypedInv, RegisterPeers \/ DataChanges \/ UNCHANGED groupVars
  PROVE  Quiet
<1>1. db \in Nat /\ db \in Versions /\ (db < MaxVersion => db + 1 \in Versions)
  BY GroupAssumption DEF TypedInv, GroupTypes, Versions
<1>2. UNCHANGED <<pc, flight, val, step, want, loaded, cache, served>> /\ db' \in Versions /\ db <= db'
  BY <1>1 DEF RegisterPeers, DataChanges, groupVars, getVars, vars
<1> QED
  BY <1>2 DEF Quiet, Result
-----------------------------------------------------------------------------
(* The other steps                                                         *)

\* What a hit gives its goroutine is no older than what it had of the key, if
\* the key is this node's.
LEMMA HitData ==
  ASSUME TypedInv, DataInv, NEW p \in Procs, NEW k \in Keys, Hit(p, k)
  PROVE  DataInv' /\ \A q \in Procs, h \in Local : served'[q][h] >= served[q][h]
<1> DEFINE u == L!Lookup(cache, k)
<1>1. k \in cache.cache /\ u \in Versions /\ u \in Nat /\ u # Failed /\ db \in Nat /\ db \in Versions
  BY LookupIsVersion, VersionsFit DEF TypedInv, GroupTypes, Hit
<1>2. /\ cache'.cache = cache.cache
      /\ \A h \in cache.cache : L!Lookup(cache', h) = L!Lookup(cache, h)
  BY <1>1, HitCache DEF TypedInv, Hit
<1>3. UNCHANGED <<pc, flight, val, step, want, loaded, db>> /\ step[p] = "idle"
  BY DEF Hit, vars, getVars
<1>4. served' = [served EXCEPT ![p][k] = u]
  BY <1>1 DEF Hit, Serve
<1> HIDE DEF u
<1>5. /\ \A q \in Procs, h \in Keys : q # p \/ h # k => served'[q][h] = served[q][h]
      /\ served'[p][k] = u
  BY <1>4 DEF TypedInv, GroupTypes
<1>6. \A q \in Procs : Result(q)' = Result(q)
  BY <1>3 DEF Result
<1>7. \A h \in Keys, v \in Nat : Latest(h, v) => Latest(h, v)'
  <2> SUFFICES ASSUME NEW h \in Keys, NEW v \in Nat, Latest(h, v)
               PROVE  Latest(h, v)'
    OBVIOUS
  <2>1. h = k => u <= v
    BY <1>1 DEF Latest, u
  <2>2. \A q \in Procs : served'[q][h] <= v
    BY <1>5, <2>1 DEF Latest
  <2>3. h \in cache'.cache => L!Lookup(cache', h) <= v
    BY <1>2 DEF Latest
  <2> QED
    BY <1>3, <1>6, <2>2, <2>3 DEF Latest, Versions
<1>8. Carries(NoKey, 0)
  <2>1. \A v \in Versions : v \in Nat /\ 0 <= v
    BY VersionsFit
  <2>2. \A q \in Procs : loaded'[q] \in Versions => loaded'[q] <= db
    BY <1>3 DEF DataInv, PastInv
  <2>3. \A q \in Procs : step'[q] \in {"populate", "return"} /\ want'[q] \in Local /\ loaded'[q] \in Versions =>
          Latest(want'[q], loaded'[q]) /\ 0 <= loaded'[q]
    BY <1>3, <2>1 DEF DataInv, LoadInv
  <2>4. ASSUME NEW q \in Procs, pc'[q] \in {"done", "delete"}, want'[q] \in Local, Result(q)' \in Versions
        PROVE  Latest(want'[q], Result(q)') /\ 0 <= Result(q)'
    <3>1. PICK v \in Versions : v = Result(q)'
      BY <2>4
    <3>2. Latest(want[q], v)
      BY <1>3, <1>6, <2>4, <3>1 DEF DataInv, DoneInv
    <3> QED
      BY <1>3, <2>1, <3>1, <3>2
  <2>5. db' \in Versions /\ db <= db' /\ 0 <= db
    BY <1>1, <1>3
  <2> QED
    BY <1>7, <2>2, <2>3, <2>4, <2>5 DEF Carries
<1>9. PastInv' /\ LoadInv' /\ DoneInv'
  BY <1>8, Carried
<1>10. WaitInv'
  <2> SUFFICES ASSUME NEW q \in Procs, step[q] = "do", want[q] \in Local, Result(q) \in Versions
               PROVE  served'[q][want[q]] <= Result(q)
    BY <1>3, <1>6 DEF WaitInv, Local, Versions
  <2>1. q # p /\ want[q] \in Keys
    BY <1>3 DEF Local
  <2> QED
    BY <1>5, <2>1 DEF DataInv, WaitInv
<1>11. CacheInv'
  <2> SUFFICES ASSUME NEW h \in Local, h \in cache.cache
               PROVE  /\ \A q \in Procs : served'[q][h] <= L!Lookup(cache, h)
                      /\ \A q \in Procs : step[q] = "do" /\ want[q] = h /\ Result(q) \in Versions =>
                                            Result(q) <= L!Lookup(cache, h)
                      /\ \A q \in Procs : step[q] = "return" /\ want[q] = h /\ loaded[q] \in Versions =>
                                            loaded[q] <= L!Lookup(cache, h)
    BY <1>2, <1>3, <1>6 DEF CacheInv, Local, Versions
  <2>1. \A q \in Procs : served[q][h] <= L!Lookup(cache, h)
    BY DEF DataInv, CacheInv
  <2>2. h \in Keys
    BY DEF Local
  <2>3. h = k => u <= L!Lookup(cache, h)
    BY <1>1 DEF u
  <2>4. \A q \in Procs : served'[q][h] <= L!Lookup(cache, h)
    BY <1>5, <2>1, <2>2, <2>3
  <2> QED
    BY <2>4 DEF DataInv, CacheInv
<1>12. ASSUME NEW q \in Procs, NEW h \in Local
       PROVE  served'[q][h] >= served[q][h]
  <2>1. h \in Keys /\ served[q][h] \in Nat
    BY GroupAssumption DEF TypedInv, GroupTypes, Local
  <2>2. CASE q = p /\ h = k
    <3>1. served[p][k] <= u
      BY <1>1, <2>2 DEF DataInv, CacheInv, u
    <3> QED
      BY <1>1, <1>5, <2>1, <2>2, <3>1
  <2>3. CASE q # p \/ h # k
    BY <1>5, <2>1, <2>3
  <2> QED
    BY <2>2, <2>3
<1> QED
  BY <1>9, <1>10, <1>11, <1>12 DEF DataInv

\* Who joins a flight that is over has not been served anything newer than
\* its result.
LEMMA JoinData ==
  ASSUME TypedInv, DataInv, NEW p \in Procs, Load(p), Join(p, want[p]), Goto(p, "do")
  PROVE  DataInv'
<1> DEFINE k == want[p]
<1>1. /\ k \in Keys /\ step[p] = "missed" /\ pc[p] = "out" /\ m[k] # 0
      /\ pc' = [pc EXCEPT ![p] = "wait"] /\ flight' = [flight EXCEPT ![p] = m[k]]
      /\ step' = [step EXCEPT ![p] = "do"]
      /\ UNCHANGED <<val, want, loaded, cache, db, served>>
  BY DEF TypedInv, StepInv, Load, Join, Found, Goto
<1>2. PICK l \in Procs : Leading(l) /\ flight[l] = m[k] /\ key[l] = k
  BY <1>1 DEF TypedInv, IInv, MapInv
<1>3. l # p /\ pc[l] # "out" /\ want[l] = k
  BY <1>1, <1>2 DEF TypedInv, StepInv, Leading
<1>4. Result(p)' = Result(l) /\ \A q \in Procs : q # p => Result(q)' = Result(q)
  BY <1>1, <1>2, <1>3 DEF Result, TypedInv, IInv, TypeOK
<1>5. /\ step'[p] = "do" /\ \A q \in Procs : q # p => step'[q] = step[q]
      /\ pc'[p] = "wait" /\ \A q \in Procs : q # p => pc'[q] = pc[q]
  BY <1>1 DEF TypedInv, IInv, TypeOK, GroupTypes
<1>6. ASSUME Result(l) \in Versions
      PROVE  pc[l] \in {"done", "delete"} /\ step[l] = "do"
  BY <1>2, <1>6, VersionsFit DEF Leading, TypedInv, FreshInv, StepInv, Result
<1> HIDE DEF k
<1>7. \A h \in Keys, v \in Nat : Latest(h, v) => Latest(h, v)'
  <2> SUFFICES ASSUME NEW h \in Keys, NEW v \in Nat, Latest(h, v)
               PROVE  Latest(h, v)'
    OBVIOUS
  <2>1. k = h /\ Result(l) \in Versions => Result(l) <= v
    BY <1>3, <1>6 DEF Latest
  <2>2. \A q \in Procs : step'[q] = "do" /\ want'[q] = h /\ Result(q)' \in Versions => Result(q)' <= v
    BY <1>1, <1>4, <1>5, <2>1 DEF Latest, k
  <2> QED
    BY <1>1, <2>2 DEF Latest, Versions
<1>8. Carries(NoKey, 0)
  <2>1. \A v \in Versions : v \in Nat /\ 0 <= v
    BY VersionsFit
  <2>2. \A q \in Procs : loaded'[q] \in Versions => loaded'[q] <= db
    BY <1>1 DEF DataInv, PastInv
  <2>3. \A q \in Procs : step'[q] \in {"populate", "return"} /\ want'[q] \in Local /\ loaded'[q] \in Versions =>
          Latest(want'[q], loaded'[q]) /\ 0 <= loaded'[q]
    BY <1>1, <1>5, <2>1 DEF DataInv, LoadInv
  <2>4. ASSUME NEW q \in Procs, pc'[q] \in {"done", "delete"}, want'[q] \in Local, Result(q)' \in Versions
        PROVE  Latest(want'[q], Result(q)') /\ 0 <= Result(q)'
    <3>1. q # p /\ pc[q] \in {"done", "delete"} /\ Result(q)' = Result(q)
      BY <1>4, <1>5, <2>4
    <3>2. PICK v \in Versions : v = Result(q)'
      BY <2>4
    <3>3. Latest(want[q], v)
      BY <1>1, <2>4, <3>1, <3>2 DEF DataInv, DoneInv
    <3> QED
      BY <1>1, <2>1, <3>2, <3>3
  <2>5. db' \in Versions /\ db <= db' /\ 0 <= db
    BY <1>1, DbIsNat
  <2> QED
    BY <1>7, <2>2, <2>3, <2>4, <2>5 DEF Carries
<1>9. PastInv' /\ LoadInv' /\ DoneInv'
  BY <1>8, Carried
<1>10. WaitInv'
  <2> SUFFICES ASSUME NEW q \in Procs, step'[q] = "do", want[q] \in Local, Result(q)' \in Versions
               PROVE  served[q][want[q]] <= Result(q)'
    BY <1>1 DEF WaitInv, Local, Versions
  <2>1. CASE q = p
    <3>1. Result(l) \in Versions /\ want[l] \in Local /\ want[p] = want[l]
      BY <1>3, <1>4, <2>1 DEF k
    <3>2. Latest(want[l], Result(l))
      BY <1>6, <3>1 DEF DataInv, DoneInv
    <3> QED
      BY <1>4, <2>1, <3>1, <3>2 DEF Latest
  <2>2. CASE q # p
    BY <1>4, <1>5, <2>2 DEF DataInv, WaitInv
  <2> QED
    BY <2>1, <2>2
<1>11. CacheInv'
  <2> SUFFICES ASSUME NEW h \in Local, h \in cache.cache
               PROVE  /\ \A q \in Procs : served[q][h] <= L!Lookup(cache, h)
                      /\ \A q \in Procs : step'[q] = "do" /\ want[q] = h /\ Result(q)' \in Versions =>
                                            Result(q)' <= L!Lookup(cache, h)
                      /\ \A q \in Procs : step'[q] = "return" /\ want[q] = h /\ loaded[q] \in Versions =>
                                            loaded[q] <= L!Lookup(cache, h)
    BY <1>1 DEF CacheInv, Local, Versions
  <2>1. k = h /\ Result(l) \in Versions => Result(l) <= L!Lookup(cache, h)
    BY <1>3, <1>6 DEF DataInv, CacheInv
  <2>2. \A q \in Procs : step'[q] = "do" /\ want[q] = h /\ Result(q)' \in Versions =>
                           Result(q)' <= L!Lookup(cache, h)
    BY <1>4, <1>5, <2>1 DEF DataInv, CacheInv, k
  <2> QED
    BY <1>5, <2>2 DEF DataInv, CacheInv
<1> QED
  BY <1>9, <1>10, <1>11 DEF DataInv

\* What a flight gives its goroutine is no older than what it had of the key.
LEMMA LoadReturnsData ==
  ASSUME TypedInv, DataInv, NEW p \in Procs, LoadReturns(p)
  PROVE  DataInv' /\ \A q \in Procs, h \in Local : served'[q][h] >= served[q][h]
<1> DEFINE k == want[p]
           u == Result(p)
<1>1. /\ got'[p] = u /\ u \in Results /\ k \in Keys
      /\ pc' = [pc EXCEPT ![p] = "out"]
      /\ step[p] = "do" /\ step' = [step EXCEPT ![p] = "idle"]
      /\ UNCHANGED <<key, flight, val, want, loaded, cache, peers, db>>
  BY GivenIsResult DEF Result
<1>2. /\ step'[p] = "idle" /\ \A q \in Procs : q # p => step'[q] = step[q]
      /\ pc'[p] = "out" /\ \A q \in Procs : q # p => pc'[q] = pc[q]
  BY <1>1 DEF TypedInv, IInv, TypeOK, GroupTypes
<1>3. \A q \in Procs : Result(q)' = Result(q)
  BY <1>1 DEF Result
<1>4. u \in Versions \/ u = Failed
  BY <1>1, VersionsFit
<1> HIDE DEF k, u
<1>5. /\ \A q \in Procs, h \in Keys : q # p \/ h # k => served'[q][h] = served[q][h]
      /\ served'[p][k] = u \/ served'[p][k] = served[p][k]
      /\ served'[p][k] = u => u \in Versions \/ served'[p][k] = served[p][k]
  <2>1. served' = IF u = Failed THEN served ELSE [served EXCEPT ![p][k] = u]
    BY <1>1 DEF LoadReturns, Serve, k
  <2>2. CASE u = Failed
    BY <2>1, <2>2
  <2>3. CASE u # Failed
    BY <1>1, <1>4, <2>1, <2>3 DEF TypedInv, GroupTypes
  <2> QED
    BY <2>2, <2>3
<1>6. \A h \in Keys, v \in Nat : Latest(h, v) => Latest(h, v)'
  <2> SUFFICES ASSUME NEW h \in Keys, NEW v \in Nat, Latest(h, v)
               PROVE  Latest(h, v)'
    OBVIOUS
  <2>1. h = k /\ u \in Versions => u <= v
    BY <1>1 DEF Latest, k, u
  <2>2. \A q \in Procs : served[q][h] <= v
    BY DEF Latest
  <2>3. \A q \in Procs : served'[q][h] <= v
    BY <1>1, <1>5, <2>1, <2>2
  <2>4. \A q \in Procs : step'[q] = "do" /\ want'[q] = h /\ Result(q)' \in Versions => Result(q)' <= v
    BY <1>1, <1>2, <1>3 DEF Latest
  <2> QED
    BY <1>1, <2>3, <2>4 DEF Latest, Versions
<1>7. Carries(NoKey, 0)
  <2>1. \A v \in Versions : v \in Nat /\ 0 <= v
    BY VersionsFit
  <2>2. \A q \in Procs : loaded'[q] \in Versions => loaded'[q] <= db
    BY <1>1 DEF DataInv, PastInv
  <2>3. \A q \in Procs : step'[q] \in {"populate", "return"} /\ want'[q] \in Local /\ loaded'[q] \in Versions =>
          Latest(want'[q], loaded'[q]) /\ 0 <= loaded'[q]
    BY <1>1, <1>2, <2>1 DEF DataInv, LoadInv
  <2>4. ASSUME NEW q \in Procs, pc'[q] \in {"done", "delete"}, want'[q] \in Local, Result(q)' \in Versions
        PROVE  Latest(want'[q], Result(q)') /\ 0 <= Result(q)'
    <3>1. q # p /\ pc[q] \in {"done", "delete"} /\ Result(q)' = Result(q)
      BY <1>2, <1>3, <2>4
    <3>2. PICK v \in Versions : v = Result(q)'
      BY <2>4
    <3>3. Latest(want[q], v)
      BY <1>1, <2>4, <3>1, <3>2 DEF DataInv, DoneInv
    <3> QED
      BY <1>1, <2>1, <3>2, <3>3
  <2>5. db' \in Versions /\ db <= db' /\ 0 <= db
    BY <1>1, DbIsNat
  <2> QED
    BY <1>6, <2>2, <2>3, <2>4, <2>5 DEF Carries
<1>8. PastInv' /\ LoadInv' /\ DoneInv'
  BY <1>7, Carried
<1>9. WaitInv'
  <2> SUFFICES ASSUME NEW q \in Procs, step'[q] = "do", want[q] \in Local, Result(q) \in Versions
               PROVE  served'[q][want[q]] <= Result(q)
    BY <1>1, <1>3 DEF WaitInv, Local, Versions
  <2>1. q # p /\ want[q] \in Keys /\ step[q] = "do"
    BY <1>2 DEF Local
  <2> QED
    BY <1>5, <2>1 DEF DataInv, WaitInv
<1>10. CacheInv'
  <2> SUFFICES ASSUME NEW h \in Local, h \in cache.cache
               PROVE  /\ \A q \in Procs : served'[q][h] <= L!Lookup(cache, h)
                      /\ \A q \in Procs : step'[q] = "do" /\ want[q] = h /\ Result(q) \in Versions =>
                                            Result(q) <= L!Lookup(cache, h)
                      /\ \A q \in Procs : step'[q] = "return" /\ want[q] = h /\ loaded[q] \in Versions =>
                                            loaded[q] <= L!Lookup(cache, h)
    BY <1>1, <1>3 DEF CacheInv, Local, Versions
  <2>1. h \in Keys /\ \A q \in Procs : served[q][h] <= L!Lookup(cache, h)
    BY DEF DataInv, CacheInv, Local
  <2>2. h = k /\ u \in Versions => u <= L!Lookup(cache, h)
    BY <1>1 DEF DataInv, CacheInv, k, u
  <2>3. \A q \in Procs : served'[q][h] <= L!Lookup(cache, h)
    BY <1>1, <1>5, <2>1, <2>2
  <2> QED
    BY <1>2, <2>3 DEF DataInv, CacheInv
<1>11. ASSUME NEW q \in Procs, NEW h \in Local
       PROVE  served'[q][h] >= served[q][h]
  <2>1. h \in Keys /\ served[q][h] \in Nat
    BY GroupAssumption DEF TypedInv, GroupTypes, Local
  <2>2. CASE q = p /\ h = k /\ u \in Versions
    <3>1. served[p][k] <= u /\ u \in Nat
      BY <1>1, <2>2, VersionsFit DEF DataInv, WaitInv, k, u
    <3> QED
      BY <1>5, <2>1, <2>2, <3>1
  <2>3. CASE q # p \/ h # k \/ u \notin Versions
    BY <1>5, <2>1, <2>3
  <2> QED
    BY <2>2, <2>3
<1> QED
  BY <1>8, <1>9, <1>10, <1>11 DEF DataInv
\* What is cached replaces something no newer.
LEMMA PopulateData ==
  ASSUME TypedInv, DataInv, NEW p \in Procs, Populate(p)
  PROVE  DataInv'
<1> DEFINE k == want[p]
           u == loaded[p]
<1>1. /\ step[p] = "populate" /\ pc[p] \in {"fn", "panicked"}
      /\ k \in Keys /\ u \in Versions /\ u \in Nat /\ u <= db /\ db \in Nat
  <2>1. step[p] = "populate" /\ pc[p] \in {"fn", "panicked"}
    BY LoadsInFn DEF Populate
  <2> QED
    BY <2>1, VersionsFit DEF TypedInv, IInv, TypeOK, GroupTypes, StepInv, DataInv, PastInv
<1>2. /\ step'[p] = "return" /\ \A q \in Procs : q # p => step'[q] = step[q]
      /\ UNCHANGED <<pc, flight, val, want, loaded, db, served>>
  BY DEF Populate, Goto, vars, TypedInv, GroupTypes
<1>3. /\ \A h \in cache'.cache :
           /\ h = k => L!Lookup(cache', h) = u
           /\ h # k => h \in cache.cache /\ L!Lookup(cache', h) = L!Lookup(cache, h)
  BY <1>1, PopulateCache DEF TypedInv, Populate
<1>4. \A q \in Procs : Result(q)' = Result(q)
  BY <1>2 DEF Result
<1>5. ASSUME NEW q \in Procs, want[q] = k, q # p
      PROVE  pc[q] \notin {"done", "delete"} /\ step[q] \notin {"populate", "return"}
  BY <1>1, <1>5, OneLeader, LoadsInFn
<1> HIDE DEF k, u
<1>6. \A h \in Keys, v \in Nat : Latest(h, v) /\ (h = k => u <= v) => Latest(h, v)'
  <2> SUFFICES ASSUME NEW h \in Keys, NEW v \in Nat, Latest(h, v), h = k => u <= v
               PROVE  Latest(h, v)'
    OBVIOUS
  <2>1. h \in cache'.cache => L!Lookup(cache', h) <= v
    BY <1>3 DEF Latest
  <2>2. \A q \in Procs : step'[q] = "do" /\ want'[q] = h /\ Result(q)' \in Versions => Result(q)' <= v
    BY <1>2, <1>4 DEF Latest
  <2> QED
    BY <1>2, <2>1, <2>2 DEF Latest, Versions
<1>7. Carries(k, u)
  <2>1. \A v \in Versions : v \in Nat
    BY VersionsFit
  <2>2. \A q \in Procs : loaded'[q] \in Versions => loaded'[q] <= db
    BY <1>2 DEF DataInv, PastInv
  <2>3. ASSUME NEW q \in Procs, step'[q] \in {"populate", "return"}, want'[q] \in Local,
               loaded'[q] \in Versions
        PROVE  Latest(want'[q], loaded'[q]) /\ (want'[q] = k => u <= loaded'[q])
    <3>1. step[q] \in {"populate", "return"}
      BY <1>1, <1>2, <2>3
    <3>2. Latest(want[q], loaded[q])
      BY <1>2, <2>3, <3>1 DEF DataInv, LoadInv
    <3>3. want[q] = k => q = p
      BY <1>5, <3>1
    <3>4. q = p => u <= loaded[q]
      BY <1>1 DEF u
    <3> QED
      BY <1>2, <3>2, <3>3, <3>4
  <2>4. ASSUME NEW q \in Procs, pc'[q] \in {"done", "delete"}, want'[q] \in Local, Result(q)' \in Versions
        PROVE  Latest(want'[q], Result(q)') /\ (want'[q] = k => u <= Result(q)')
    <3>1. want[q] # k
      BY <1>1, <1>2, <1>5, <2>4
    <3>2. PICK v \in Versions : v = Result(q)'
      BY <2>4
    <3>3. Latest(want[q], v)
      BY <1>2, <1>4, <2>4, <3>2 DEF DataInv, DoneInv
    <3> QED
      BY <1>2, <3>1, <3>2, <3>3
  <2>5. db' \in Versions /\ db <= db' /\ u <= db
    BY <1>1, <1>2, DbIsNat
  <2> QED
    BY <1>6, <2>2, <2>3, <2>4, <2>5 DEF Carries
<1>8. PastInv' /\ LoadInv' /\ DoneInv'
  BY <1>1, <1>7, Carried
<1>9. WaitInv'
  <2>1. \A q \in Procs : step'[q] = "do" => step[q] = "do"
    BY <1>2
  <2> QED
    BY <1>2, <1>4, <2>1 DEF DataInv, WaitInv, Local, Versions
<1>10. CacheInv'
  <2> SUFFICES ASSUME NEW h \in Local, h \in cache'.cache
               PROVE  /\ \A q \in Procs : served[q][h] <= L!Lookup(cache', h)
                      /\ \A q \in Procs : step'[q] = "do" /\ want[q] = h /\ Result(q) \in Versions =>
                                            Result(q) <= L!Lookup(cache', h)
                      /\ \A q \in Procs : step'[q] = "return" /\ want[q] = h /\ loaded[q] \in Versions =>
                                            loaded[q] <= L!Lookup(cache', h)
    BY <1>2, <1>4 DEF CacheInv, Local, Versions
  <2>1. CASE h = k
    <3>1. L!Lookup(cache', h) = u
      BY <1>3, <2>1
    <3>2. Latest(k, u)
      BY <1>1, <2>1 DEF DataInv, LoadInv, k, u
    <3>3. \A q \in Procs : step'[q] = "return" /\ want[q] = h => q = p
      BY <1>2, <1>5, <2>1
    <3>4. u <= u /\ loaded[p] = u
      BY <1>1 DEF u
    <3>5. \A q \in Procs : step'[q] = "do" => step[q] = "do"
      BY <1>2
    <3> QED
      BY <2>1, <3>1, <3>2, <3>3, <3>4, <3>5 DEF Latest
  <2>2. CASE h # k
    <3>1. h \in cache.cache /\ L!Lookup(cache', h) = L!Lookup(cache, h)
      BY <1>3, <2>2
    <3>2. \A q \in Procs : want[q] = h => step'[q] = step[q]
      BY <1>2, <2>2 DEF k
    <3> QED
      BY <3>1, <3>2 DEF DataInv, CacheInv
  <2> QED
    BY <2>1, <2>2
<1> QED
  BY <1>8, <1>9, <1>10 DEF DataInv

\* A load that ends gives its flight a version that nothing has overtaken.
LEMMA LoadedData ==
  ASSUME TypedInv, DataInv, NEW p \in Procs, Loaded(p)
  PROVE  DataInv'
<1> DEFINE k == want[p]
           u == loaded[p]
           f == flight[p]
<1>1. /\ step[p] = "return" /\ pc[p] = "fn" /\ pc' = [pc EXCEPT ![p] = "done"]
      /\ val' = [val EXCEPT ![f] = u] /\ step' = [step EXCEPT ![p] = "do"]
      /\ UNCHANGED <<flight, want, loaded, cache, db, served>>
  BY DEF Loaded, FnReturns, Goto
<1>2. /\ k \in Keys /\ u \in Results /\ f \in Flights /\ db \in Nat
      /\ u \in Versions => u \in Nat /\ u <= db
  BY <1>1, VersionsFit DEF TypedInv, IInv, TypeOK, GroupTypes, StepInv, DataInv, PastInv
<1>3. /\ step'[p] = "do" /\ \A q \in Procs : q # p => step'[q] = step[q]
      /\ pc'[p] = "done" /\ \A q \in Procs : q # p => pc'[q] = pc[q]
  BY <1>1 DEF TypedInv, IInv, TypeOK, GroupTypes
<1>4. \A q \in Procs : /\ flight[q] = f => Result(q)' = u
                       /\ flight[q] # f => Result(q)' = Result(q)
  BY <1>1, <1>2 DEF Result, TypedInv, IInv, TypeOK
<1>5. ASSUME NEW q \in Procs, step'[q] = "do"
      PROVE  /\ step[q] = "do" \/ q = p
             /\ flight[q] = f => want[q] = k
  <2>1. step[q] = "do" \/ q = p
    BY <1>3, <1>5
  <2>2. pc[q] # "out" /\ pc[p] # "out"
    BY <1>1, <2>1 DEF TypedInv, StepInv
  <2>3. flight[q] = f => key[q] = key[p]
    BY <2>2 DEF TypedInv, FreshInv
  <2> QED
    BY <2>1, <2>2, <2>3 DEF TypedInv, StepInv
<1>6. ASSUME NEW q \in Procs, want[q] = k, q # p
      PROVE  pc[q] \notin {"done", "delete"} /\ step[q] \notin {"populate", "return"}
  BY <1>1, <1>6, OneLeader, LoadsInFn
<1>7. flight[p] = f
  OBVIOUS
<1> HIDE DEF k, u, f
<1>8. \A h \in Keys, v \in Nat : Latest(h, v) /\ (h = k /\ u \in Versions => u <= v) => Latest(h, v)'
  <2> SUFFICES ASSUME NEW h \in Keys, NEW v \in Nat, Latest(h, v), h = k /\ u \in Versions => u <= v
               PROVE  Latest(h, v)'
    OBVIOUS
  <2>1. ASSUME NEW q \in Procs, step'[q] = "do", want[q] = h, Result(q)' \in Versions
        PROVE  Result(q)' <= v
    <3>1. CASE flight[q] = f
      BY <1>4, <1>5, <2>1, <3>1
    <3>2. CASE flight[q] # f
      BY <1>4, <1>5, <1>7, <2>1, <3>2 DEF Latest
    <3> QED
      BY <3>1, <3>2
  <2> QED
    BY <1>1, <2>1 DEF Latest, Versions
<1> DEFINE w == IF u \in Versions THEN u ELSE 0
<1>9. w \in Nat /\ w <= db
  BY <1>2
<1>10. Carries(k, w)
  <2>1. \A v \in Versions : v \in Nat
    BY VersionsFit
  <2>2. \A q \in Procs : loaded'[q] \in Versions => loaded'[q] <= db
    BY <1>1 DEF DataInv, PastInv
  <2>3. ASSUME NEW q \in Procs, step'[q] \in {"populate", "return"}, want'[q] \in Local,
               loaded'[q] \in Versions
        PROVE  Latest(want'[q], loaded'[q]) /\ (want'[q] = k => w <= loaded'[q])
    <3>1. q # p /\ step[q] \in {"populate", "return"}
      BY <1>3, <2>3
    <3>2. Latest(want[q], loaded[q]) /\ want[q] # k
      BY <1>1, <1>6, <2>3, <3>1 DEF DataInv, LoadInv
    <3> QED
      BY <1>1, <3>2
  <2>4. ASSUME NEW q \in Procs, pc'[q] \in {"done", "delete"}, want'[q] \in Local, Result(q)' \in Versions
        PROVE  Latest(want'[q], Result(q)') /\ (want'[q] = k => w <= Result(q)')
    <3>1. CASE q = p
      <4>1. Result(q)' = u /\ u \in Versions /\ want[q] = k
        BY <1>4, <1>7, <2>4, <3>1 DEF k
      <4>2. Latest(k, u)
        BY <1>1, <2>4, <3>1, <4>1 DEF DataInv, LoadInv, k, u
      <4>3. w <= u
        BY <1>2, <4>1
      <4> QED
        BY <1>1, <4>1, <4>2, <4>3
    <3>2. CASE q # p
      <4>1. pc[q] \in {"done", "delete"} /\ want[q] # k /\ step'[q] = "do"
        BY <1>1, <1>3, <1>6, <2>4, <3>2 DEF TypedInv, StepInv
      <4>2. Result(q)' = Result(q)
        BY <1>4, <1>5, <4>1
      <4>3. PICK v \in Versions : v = Result(q)
        BY <2>4, <4>2
      <4>4. Latest(want[q], v)
        BY <1>1, <2>4, <4>1, <4>3 DEF DataInv, DoneInv
      <4> QED
        BY <1>1, <4>1, <4>2, <4>3, <4>4
    <3> QED
      BY <3>1, <3>2
  <2>5. db' \in Versions /\ db <= db' /\ w <= db
    BY <1>1, <1>9, DbIsNat
  <2>6. \A h \in Keys, v \in Nat : Latest(h, v) /\ (h = k => w <= v) => Latest(h, v)'
    BY <1>8
  <2> HIDE DEF w
  <2> QED
    BY <2>2, <2>3, <2>4, <2>5, <2>6 DEF Carries
<1>11. PastInv' /\ LoadInv' /\ DoneInv'
  <2> HIDE DEF w
  <2> QED
    BY <1>9, <1>10, Carried
\* What everybody in the flight was served, and what is cached, against u.
<1>12. ASSUME u \in Versions, k \in Local
       PROVE  /\ \A q \in Procs : served[q][k] <= u
              /\ k \in cache.cache => u <= L!Lookup(cache, k)
  <2>1. Latest(k, u)
    BY <1>1, <1>12 DEF DataInv, LoadInv, k, u
  <2>2. k \in cache.cache => u <= L!Lookup(cache, k)
    BY <1>1, <1>12 DEF DataInv, CacheInv, k, u
  <2> QED
    BY <2>1, <2>2 DEF Latest
<1>13. WaitInv'
  <2> SUFFICES ASSUME NEW q \in Procs, step'[q] = "do", want[q] \in Local, Result(q)' \in Versions
               PROVE  served[q][want[q]] <= Result(q)'
    BY <1>1 DEF WaitInv, Local, Versions
  <2>1. CASE flight[q] = f
    BY <1>4, <1>5, <1>12, <2>1
  <2>2. CASE flight[q] # f
    BY <1>4, <1>5, <1>7, <2>2 DEF DataInv, WaitInv
  <2> QED
    BY <2>1, <2>2
<1>14. CacheInv'
  <2> SUFFICES ASSUME NEW h \in Local, h \in cache.cache
               PROVE  /\ \A q \in Procs : served[q][h] <= L!Lookup(cache, h)
                      /\ \A q \in Procs : step'[q] = "do" /\ want[q] = h /\ Result(q)' \in Versions =>
                                            Result(q)' <= L!Lookup(cache, h)
                      /\ \A q \in Procs : step'[q] = "return" /\ want[q] = h /\ loaded[q] \in Versions =>
                                            loaded[q] <= L!Lookup(cache, h)
    BY <1>1 DEF CacheInv, Local, Versions
  <2>1. ASSUME NEW q \in Procs, step'[q] = "do", want[q] = h, Result(q)' \in Versions
        PROVE  Result(q)' <= L!Lookup(cache, h)
    <3>1. CASE flight[q] = f
      BY <1>4, <1>5, <1>12, <2>1, <3>1
    <3>2. CASE flight[q] # f
      BY <1>4, <1>5, <1>7, <2>1, <3>2 DEF DataInv, CacheInv
    <3> QED
      BY <3>1, <3>2
  <2> QED
    BY <1>3, <2>1 DEF DataInv, CacheInv
<1> QED
  BY <1>11, <1>13, <1>14 DEF DataInv

LEMMA NextData ==
  ASSUME TypedInv, DataInv, [GroupNext]_groupVars
  PROVE  /\ DataInv'
         /\ \A q \in Procs, h \in Local : served'[q][h] >= served[q][h]
<1> DEFINE Kept == \A q \in Procs, h \in Local : served'[q][h] >= served[q][h]
<1>1. \A q \in Procs, h \in Local : served[q][h] >= served[q][h]
  BY GroupAssumption DEF TypedInv, GroupTypes, Local
<1>2. ASSUME Quiet
      PROVE  DataInv' /\ Kept
  BY <1>1, <1>2, QuietData DEF Quiet
<1>3. ASSUME NEW p \in Procs, Load(p)
      PROVE  DataInv' /\ Kept
  <2>1. CASE Join(p, want[p]) /\ Goto(p, "do")
    <3>1. Kept
      BY <1>1, <1>3 DEF Load
    <3> QED
      BY <1>3, <2>1, <3>1, JoinData
  <2>2. CASE Lead(p, want[p]) /\ Goto(p, "pick")
    BY <1>2, <1>3, <2>2, LeadQuiet
  <2> QED
    BY <1>3, <2>1, <2>2 DEF Load
<1>4. ASSUME NEW p \in Procs, Populate(p) \/ Loaded(p)
      PROVE  DataInv' /\ Kept
  <2>1. Kept
    BY <1>1, <1>4 DEF Populate, Loaded
  <2> QED
    BY <1>4, <2>1, PopulateData, LoadedData
<1>5. ASSUME NEW p \in Procs, Get(p)
      PROVE  DataInv' /\ Kept
  BY <1>2, <1>3, <1>5, HitData, MissQuiet, LoadReturnsData, ReleaseWaitersQuiet DEF Get
<1>6. ASSUME NEW p \in Procs, Fn(p)
      PROVE  DataInv' /\ Kept
  BY <1>2, <1>4, <1>6, FromPeerQuiet, GetterQuiet, GetterPanicsQuiet DEF Fn
<1>7. CASE RegisterPeers \/ DataChanges \/ UNCHANGED groupVars
  BY <1>2, <1>7, OthersQuiet
<1> QED
  BY <1>5, <1>6, <1>7 DEF GroupNext, GroupHalted

\* geecache.go:68-90, 129-132: nobody who has seen a version of a key of this
\* node is ever given an older one, however loads, hits, evictions and changes
\* of the data interleave.
THEOREM ReadsAreMonotonic == GroupSpec => MonotonicReads
<1>1. TypedInv /\ DataInv /\ [GroupNext]_groupVars => DataInv'
  BY NextData
<1>2. TypedInv /\ DataInv /\ [GroupNext]_groupVars =>
        [\A p \in Procs, k \in Keys \ Remote : served'[p][k] >= served[p][k]]_groupVars
  BY NextData DEF Local
<1> QED
  BY Typed, InitData, <1>1, <1>2, PTL DEF GroupSpec, MonotonicReads

\* geecache.go:71, 129: what is cached of a key of this node is never older than
\* what anybody was served of it, whatever loads, evictions and changes of the
\* data came between.
THEOREM NothingNewerWasServed == GroupSpec => []HitsAreCurrent
<1>1. TypedInv /\ DataInv /\ [GroupNext]_groupVars => DataInv'
  BY NextData
<1>2. TypedInv /\ DataInv => HitsAreCurrent
  <2> SUFFICES ASSUME TypedInv, DataInv, NEW k \in cache.cache \ Remote, NEW p \in Procs
               PROVE  served[p][k] <= L!Lookup(cache, k)
    BY DEF HitsAreCurrent
  <2>1. k \in Local
    BY LookupIsVersion DEF Local, TypedInv
  <2> QED
    BY <2>1 DEF DataInv, CacheInv
<1> QED
  BY Typed, InitData, <1>1, <1>2, PTL DEF GroupSpec
=============================================================================
