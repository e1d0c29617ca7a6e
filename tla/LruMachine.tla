----------------------------- MODULE LruMachine -----------------------------
(***************************************************************************)
(* One lru.Cache under every sequence of legal calls.  The cache is not    *)
(* safe for concurrent use (geecache's cache.mu guards it), so the calls   *)
(* are sequential; Add is split at its loop, one step per RemoveOldest, so *)
(* that what the loop relies on and when it ends can be seen.              *)
(***************************************************************************)
EXTENDS Lru, FiniteSets

CONSTANTS Keys, Values,
          Budgets       \* the maxBytes that New is called with

\* A negative budget would keep Add in its loop for ever.
ASSUME LruAssumption == /\ Budgets \subseteq Nat
                        /\ \A k \in Keys : KeyLen(k) \in Nat
                        /\ \A v \in Values : ValueLen(v) \in Nat
                        /\ Missing \notin Values

VARIABLES c,        \* the cache
          pc,       \* "trim" while Add is in its loop
          mirror,   \* the keys a user has who adds what it puts in and removes
                    \* what OnEvicted tells it
          recency,  \* the keys ever added, the last used first (history)
          last      \* the value each of them was last added with (history)

vars == <<c, pc, mirror, recency, last>>

Init ==
  /\ \E b \in Budgets : c = NewCache(b)
  /\ pc = "idle"
  /\ mirror = {}
  /\ recency = <<>>
  /\ last = [k \in Keys |-> Missing]

\* A use of k makes it the most recent.
Use(k) == recency' = <<k>> \o RemoveFirst(recency, k)
-----------------------------------------------------------------------------
GetHit(k) ==
  /\ pc = "idle"
  /\ k \in c.cache
  /\ c' = Get(c, k)
  /\ Use(k)
  /\ UNCHANGED <<pc, mirror, last>>

\* Add up to its loop.
Insert(k, v) ==
  /\ pc = "idle"
  /\ c' = Put(c, k, v)
  /\ pc' = "trim"
  /\ mirror' = mirror \cup {k}
  /\ last' = [last EXCEPT ![k] = v]
  /\ Use(k)

\* RemoveOldest, with its call of OnEvicted.
Evict ==
  /\ c' = RemoveOldest(c)
  /\ mirror' = IF c.ll = <<>> THEN mirror ELSE mirror \ {Oldest(c).key}
  /\ UNCHANGED <<pc, recency, last>>

\* An iteration of Add's loop.
TrimOne == pc = "trim" /\ OverBudget(c) /\ Evict

\* The user calls RemoveOldest.
CallRemoveOldest == pc = "idle" /\ Evict

AddReturns ==
  /\ pc = "trim"
  /\ ~OverBudget(c)
  /\ pc' = "idle"
  /\ UNCHANGED <<c, mirror, recency, last>>

Next == \/ \E k \in Keys : GetHit(k)
        \/ \E k \in Keys, v \in Values : Insert(k, v)
        \/ TrimOne \/ CallRemoveOldest \/ AddReturns

Spec == Init /\ [][Next]_vars
-----------------------------------------------------------------------------
SizeOf == LET Sum[i \in 0..Len(c.ll)] ==
                IF i = 0 THEN 0 ELSE Sum[i - 1] + Size(c.ll[i])
          IN  Sum[Len(c.ll)]

\* nbytes is exactly what the entries take, through updates in place and
\* evictions, so that the empty cache is within any budget and Add's loop
\* ends; and no call returns with the cache over its budget (lru.go:52, 64,
\* 69, 71).
WithinBudget == /\ c.nbytes = SizeOf
                /\ pc = "idle" /\ c.maxBytes # 0 => c.nbytes <= c.maxBytes

\* What the cache holds is always the most recently used of all the keys ever
\* added, in that order and each with its last value: evictions and updates
\* in any sequence never drop a key that was used after one that stays.
RecentlyUsed ==
  /\ Len(c.ll) <= Len(recency)
  /\ \A i \in 1..Len(c.ll) : /\ c.ll[i].key = recency[i]
                             /\ c.ll[i].value = last[recency[i]]

\* Map, list and the user's mirror hold the same keys, each once: every entry
\* that leaves the list leaves the map and is reported (lru.go:49-55).
Coherent == /\ c.cache = {c.ll[i].key : i \in 1..Len(c.ll)}
            /\ Cardinality(c.cache) = Len(c.ll)
            /\ mirror = c.cache

\* Every iteration of Add's loop keeps what the loop will end with, so that an
\* Add is, for those who hold the cache's lock, the one step Trim(Put(...))
\* that GeeGroup takes it for (lru.go:71-73, cache.go:14-21).
LoopIsTrim ==
  [][pc = "trim" => Trim(c') = Trim(c) /\ (pc' = "idle" => c' = Trim(c))]_vars
=============================================================================
