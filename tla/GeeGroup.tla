------------------------------ MODULE GeeGroup ------------------------------
(***************************************************************************)
(* geecache.Group on one node: Get looks in the main cache (an Lru under   *)
(* cache.mu), and on a miss loads through the singleflight group, from the *)
(* peer that owns the key or with the user's getter, whose value it caches.*)
(* The flights are those of SingleFlight, which this module extends: it    *)
(* says what fn is and what happens around Do.                             *)
(*                                                                         *)
(* Grain.  A use of the cache is one step, for cache.mu covers it.  The    *)
(* data behind the getter changes as it likes; it is one version number,   *)
(* so that an old value can be told from a newer one.                      *)
(***************************************************************************)
EXTENDS SingleFlight, Integers, Sequences

CONSTANTS KeyLen(_), ValueLen(_), Missing,  \* as in Lru
          MaxBytes,     \* cacheBytes of NewGroup (0, no limit, is left to LruMachine)
          MaxVersion,   \* bound: versions of the data in a behaviour
          Failed,       \* a load that returned an error
          Remote        \* the keys that PickPeer gives to another node

ASSUME GroupAssumption == /\ MaxBytes \in Nat \ {0}
                          /\ MaxVersion \in Nat \ {0}
                          /\ Remote \subseteq Keys
                          /\ Failed \notin 1..MaxVersion
                          /\ Missing \notin 1..MaxVersion
                          /\ Results = 1..MaxVersion \cup {Failed}
                          /\ \A k \in Keys : KeyLen(k) \in Nat
                          /\ \A v \in 1..MaxVersion : ValueLen(v) \in Nat

Versions == 1..MaxVersion

VARIABLES
  step,    \* where each goroutine is in Get and in fn
  want,    \* the key of its Get
  loaded,  \* what fn is about to return
  cache,   \* g.mainCache.lru
  peers,   \* g.peers # nil
  db,      \* the version the getter's source holds
  served   \* the version each goroutine was last given of each key (history)

L == INSTANCE Lru

getVars   == <<step, want, loaded>>
groupVars == <<vars, getVars, cache, peers, db, served>>

GroupTypeOK ==
  /\ step \in [Procs -> {"idle", "missed", "do", "pick", "getter", "populate",
                         "return"}]
  /\ want \in [Procs -> Keys \cup {NoKey}]
  /\ loaded \in [Procs -> Results \cup {NoResult}]
  /\ cache.cache \subseteq Keys
  /\ \A i \in 1..Len(cache.ll) : cache.ll[i].value \in Versions
  /\ cache.nbytes \in 0..MaxBytes
  /\ peers \in BOOLEAN
  /\ db \in Versions
  /\ served \in [Procs -> [Keys -> 0..MaxVersion]]
  /\ \A p \in Procs : step[p] \in {"idle", "missed"} <=> pc[p] = "out"

GroupInit ==
  /\ Init
  /\ step = [p \in Procs |-> "idle"]
  /\ want = [p \in Procs |-> NoKey]
  /\ loaded = [p \in Procs |-> NoResult]
  /\ cache = L!NewCache(MaxBytes)
  /\ peers = FALSE
  /\ db = 1
  /\ served = [p \in Procs |-> [k \in Keys |-> 0]]

Goto(p, s) == step' = [step EXCEPT ![p] = s]

\* p's Get(k) returns r; an error gives it nothing.
Serve(p, k, r) == served' = IF r = Failed THEN served ELSE [served EXCEPT ![p][k] = r]
-----------------------------------------------------------------------------
(* Get                                                                     *)

\* mainCache.get finds the key.
Hit(p, k) ==
  /\ step[p] = "idle"
  /\ k \in cache.cache
  /\ cache' = L!Get(cache, k)
  /\ Serve(p, k, L!Lookup(cache, k))
  /\ UNCHANGED <<vars, getVars, peers, db>>

\* It does not: what others do before this goroutine calls Do is not seen.
Miss(p, k) ==
  /\ step[p] = "idle"
  /\ k \notin cache.cache
  /\ want' = [want EXCEPT ![p] = k]
  /\ Goto(p, "missed")
  /\ UNCHANGED <<vars, loaded, cache, peers, db, served>>

\* loader.Do: wait for the flight of the key, or run fn.
Load(p) ==
  /\ step[p] = "missed"
  /\ \/ Join(p, want[p]) /\ Goto(p, "do")
     \/ Lead(p, want[p]) /\ Goto(p, "pick")
  /\ UNCHANGED <<want, loaded, cache, peers, db, served>>

LoadReturns(p) ==
  /\ step[p] = "do"
  /\ Delete(p) \/ Wake(p)
  /\ Serve(p, want[p], got'[p])
  /\ Goto(p, "idle")
  /\ UNCHANGED <<want, loaded, cache, peers, db>>
-----------------------------------------------------------------------------
(* fn, which load passes to Do                                             *)

\* The peer answers, with what its own group serves: any version so far.
FromPeer(p, v) ==
  /\ step[p] = "pick"
  /\ peers /\ want[p] \in Remote
  /\ v <= db
  /\ loaded' = [loaded EXCEPT ![p] = v]
  /\ Goto(p, "return")
  /\ UNCHANGED <<vars, want, cache, peers, db, served>>

\* No peers, the key is this node's, or getFromPeer failed.
NotFromPeer(p) ==
  /\ step[p] = "pick"
  /\ Goto(p, "getter")
  /\ UNCHANGED <<vars, want, loaded, cache, peers, db, served>>

GetterAnswers(p) ==
  /\ step[p] = "getter"
  /\ loaded' = [loaded EXCEPT ![p] = db]
  /\ Goto(p, "populate")
  /\ UNCHANGED <<vars, want, cache, peers, db, served>>

\* (Mutant) the error is cached like a value.
GetterFailureCached(p) ==
  /\ step[p] = "getter"
  /\ loaded' = [loaded EXCEPT ![p] = Failed]
  /\ Goto(p, "populate")
  /\ UNCHANGED <<vars, want, cache, peers, db, served>>

GetterFails(p) ==
  /\ step[p] = "getter"
  /\ loaded' = [loaded EXCEPT ![p] = Failed]
  /\ Goto(p, "return")
  /\ UNCHANGED <<vars, want, cache, peers, db, served>>

GetterPanics(p) ==
  /\ step[p] = "getter"
  /\ FnPanics(p)
  /\ UNCHANGED <<getVars, cache, peers, db, served>>

\* (Mutant) a key that another load has filled meanwhile is left as it is.
PopulateIfAbsent(p) ==
  /\ step[p] = "populate"
  /\ cache' = IF want[p] \in cache.cache THEN cache ELSE L!Add(cache, want[p], loaded[p])
  /\ Goto(p, "return")
  /\ UNCHANGED <<vars, want, loaded, peers, db, served>>

\* populateCache, with the evictions it causes.
Populate(p) ==
  /\ step[p] = "populate"
  /\ cache' = L!Add(cache, want[p], loaded[p])
  /\ Goto(p, "return")
  /\ UNCHANGED <<vars, want, loaded, peers, db, served>>

Loaded(p) ==
  /\ step[p] = "return"
  /\ FnReturns(p, loaded[p])
  /\ Goto(p, "do")
  /\ UNCHANGED <<want, loaded, cache, peers, db, served>>

\* The leader's wg.Done, of which Group sees nothing.
ReleaseWaiters(p) ==
  /\ WgDone(p)
  /\ UNCHANGED <<getVars, cache, peers, db, served>>
-----------------------------------------------------------------------------
\* A second call panics.  Nothing orders it before the first Get: in
\* geecache/main the API server is already running.
RegisterPeers ==
  /\ ~peers
  /\ peers' = TRUE
  /\ UNCHANGED <<vars, getVars, cache, db, served>>

\* The data changes; no cache is told.
DataChanges ==
  /\ db < MaxVersion
  /\ db' = db + 1
  /\ UNCHANGED <<vars, getVars, cache, peers, served>>

\* The flights of the bound are used up, or a panic has left the rest waiting.
GroupHalted == Halted /\ UNCHANGED groupVars

Get(p) == \/ \E k \in Keys : Hit(p, k) \/ Miss(p, k)
          \/ Load(p) \/ ReleaseWaiters(p) \/ LoadReturns(p)

Fn(p) == \/ \E v \in Versions : FromPeer(p, v)
         \/ NotFromPeer(p)
         \/ GetterAnswers(p) \/ GetterFails(p) \/ GetterPanics(p)
         \/ Populate(p) \/ Loaded(p)

GroupNext ==
  (\E p \in Procs : Get(p) \/ Fn(p)) \/ RegisterPeers \/ DataChanges \/ GroupHalted

GroupSpec == GroupInit /\ [][GroupNext]_groupVars
-----------------------------------------------------------------------------
\* A goroutine that has seen a version of a key of this node never gets an
\* older one later, though values are cached without expiry, evicted, loaded
\* again and shared with waiters while the data changes: the loads of a key
\* follow one another, and each caches before it is over (geecache.go:88, 129).
\* A key of another node is exempt: its owner may be behind a local fallback.
MonotonicReads ==
  [][\A p \in Procs, k \in Keys \ Remote : served'[p][k] >= served[p][k]]_groupVars

\* Nothing that was served of a key of this node is newer than what the cache
\* holds of it, so that a hit gives nobody an older version than anybody was
\* given before.  A Get that missed before another load filled the cache loads
\* again, and its newer value must replace the one it finds (geecache.go:71,
\* 129); a waiter of an earlier flight may wake after the cache has moved on.
HitsAreCurrent ==
  \A k \in cache.cache \ Remote, p \in Procs : served[p][k] <= L!Lookup(cache, k)
=============================================================================
