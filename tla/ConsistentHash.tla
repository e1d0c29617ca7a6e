--------------------------- MODULE ConsistentHash ---------------------------
(***************************************************************************)
(* geecache/consistenthash: the ring that says which node owns a key.      *)
(* Every process of a cluster fills one of its own (HTTPPool.Set), in an   *)
(* order of its own: what matters is what all such rings have in common.   *)
(*                                                                         *)
(* The sorted list keys is kept as the number of times each hash is in it, *)
(* for sort.Ints follows every change that could be seen.                  *)
(***************************************************************************)
EXTENDS Integers, FiniteSets

CONSTANTS Nodes,    \* the addresses that are added
          Virtual,  \* 0..(replicas - 1)
          Place,    \* Place[n][i]: the hash of node n's virtual node i
          Top,      \* the largest hash
          None,     \* "": what a map gives for what it does not hold
          MaxTwice  \* bound: how often a hash is in keys at most

Hashes == 0..Top

ASSUME RingAssumption == /\ Top \in Nat
                         /\ IsFiniteSet(Virtual) /\ Virtual # {}
                         /\ Place \in [Nodes -> [Virtual -> Hashes]]
                         /\ None \notin Nodes
                         /\ MaxTwice \in Nat

VARIABLES keys,     \* m.keys
          hashMap,  \* m.hashMap
          members,  \* the nodes added since New and not deleted (history)
          spoilt    \* a hash was added to one that was there, or taken from
                    \* a node that was not the one deleted (history)

vars == <<keys, hashMap, members, spoilt>>

TypeOK ==
  /\ keys \in [Hashes -> 0..MaxTwice]
  /\ hashMap \in [Hashes -> Nodes \cup {None}]
  /\ members \in SUBSET Nodes
  /\ spoilt \in BOOLEAN
  /\ \A h \in Hashes : hashMap[h] # None => keys[h] > 0

NoKeys == [h \in Hashes |-> 0]
NoMap  == [h \in Hashes |-> None]

Init ==
  /\ keys = NoKeys
  /\ hashMap = NoMap
  /\ members = {}
  /\ spoilt = FALSE

Places(n) == {Place[n][i] : i \in Virtual}

Times(n, h) == Cardinality({i \in Virtual : Place[n][i] = h})

\* The hashes that are in m.keys.
Ring == {h \in Hashes : keys[h] > 0}
-----------------------------------------------------------------------------
\* New, with which HTTPPool.Set replaces its ring before it adds the peers.
New ==
  /\ members # {} \/ spoilt
  /\ keys' = NoKeys
  /\ hashMap' = NoMap
  /\ members' = {}
  /\ spoilt' = FALSE

\* One key of Add's list, with all its virtual nodes.
Add(n) ==
  /\ \A h \in Hashes : keys[h] + Times(n, h) <= MaxTwice
  /\ keys' = [h \in Hashes |-> keys[h] + Times(n, h)]
  /\ hashMap' = [h \in Hashes |-> IF h \in Places(n) THEN n ELSE hashMap[h]]
  /\ members' = members \cup {n}
  /\ spoilt' = (spoilt \/ Places(n) \cap Ring # {} \/ \E h \in Hashes : Times(n, h) > 1)

\* (Mutant) Del without the loop over keys.
DelFromMap(n) ==
  /\ hashMap' = [h \in Hashes |-> IF h \in Places(n) THEN None ELSE hashMap[h]]
  /\ members' = members \ {n}
  /\ spoilt' = (spoilt \/ (n \notin members /\ Places(n) \cap Ring # {}))
  /\ UNCHANGED keys

\* Each virtual node takes one occurrence of its hash out of keys, if there is
\* one, and the hash out of hashMap, whoever put them there.
Del(n) ==
  /\ keys' = [h \in Hashes |-> IF Times(n, h) < keys[h] THEN keys[h] - Times(n, h) ELSE 0]
  /\ hashMap' = [h \in Hashes |-> IF h \in Places(n) THEN None ELSE hashMap[h]]
  /\ members' = members \ {n}
  /\ spoilt' = (spoilt \/ (n \notin members /\ Places(n) \cap Ring # {}))

\* (Mutant) the hash modulo the length, where the code searches.
FirstModulo(R, h) ==
  CHOOSE x \in R : Cardinality({y \in R : y < x}) = h % Cardinality(R)

\* sort.Search, and % len: the first at or after h, or the first of all.
First(R, h) ==
  LET After == {x \in R : x >= h}
      From  == IF After = {} THEN R ELSE After
  IN  CHOOSE x \in From : \A y \in From : x <= y

\* The node of a key whose hash is h.
Get(h) == IF Ring = {} THEN None ELSE hashMap[First(Ring, h)]
-----------------------------------------------------------------------------
Next == New \/ \E n \in Nodes : Add(n) \/ Del(n)

Spec == Init /\ [][Next]_vars
-----------------------------------------------------------------------------
\* How far h is from a hash x, going up and round.
Distance(h, x) == (x - h) % (Top + 1)

\* The members of M that have a virtual node nearest to h.
Nearest(M, h) ==
  {n \in M : \E x \in Places(n) :
     \A o \in M : \A y \in Places(o) : Distance(h, x) <= Distance(h, y)}

\* After any sequence of Add and Del the owner of a key is the member with the
\* nearest virtual node, and there is one as long as there are members: so
\* processes that have the same members, added in whatever order, agree on
\* every owner, and exactly one of them keeps a key to itself in PickPeer
\* (consistenthash.go:36-76, http.go:88, 103).  Equal hashes void this: Del then
\* leaves keys without a node (consistenthash.go:59).
OwnerIsNearest ==
  \A h \in Hashes : ~spoilt =>
    IF members = {} THEN Get(h) = None ELSE Nearest(members, h) = {Get(h)}

\* Consistent hashing: adding a node moves keys to that node only, whatever
\* hashes are equal, and deleting one moves only its own
\* (consistenthash.go:36, 48).
MinimalMoves ==
  [][\A n \in Nodes, h \in Hashes :
       /\ Add(n) => Get(h)' \in {Get(h), n}
       /\ Del(n) /\ ~spoilt' /\ Get(h) # n => Get(h)' = Get(h)]_vars
=============================================================================
