-------------------------------- MODULE Lru ---------------------------------
(***************************************************************************)
(* geecache/lru as operators on a cache, so that the modules that hold one *)
(* (LruMachine, GeeGroup) apply them inside their own steps.  A cache is a *)
(* record: ll, the code's list of entries, front first; cache, the code's  *)
(* map, of which the keys matter; nbytes, the bytes it believes to hold.   *)
(* Keys and values are model values with a length.                         *)
(***************************************************************************)
EXTENDS Integers, Sequences, SequencesExt

CONSTANTS KeyLen(_),    \* len(key)
          ValueLen(_),  \* value.Len()
          Missing       \* what Get returns beside ok = false

NewCache(maxBytes) == [maxBytes |-> maxBytes, ll |-> <<>>, cache |-> {}, nbytes |-> 0]

Entry(k, v) == [key |-> k, value |-> v]

Size(e) == KeyLen(e.key) + ValueLen(e.value)

\* Where the element of a key is in the list.
Position(c, k) == CHOOSE i \in 1..Len(c.ll) : c.ll[i].key = k

Others(c, k) == RemoveAt(c.ll, Position(c, k))

\* (Mutant) Get without MoveToFront.
TouchNot(c, k) == c

\* Get's effect on a key that is there: ll.MoveToFront.
Touch(c, k) == [c EXCEPT !.ll = <<c.ll[Position(c, k)]>> \o Others(c, k)]

Lookup(c, k) == IF k \in c.cache THEN c.ll[Position(c, k)].value ELSE Missing

Get(c, k) == IF k \in c.cache THEN Touch(c, k) ELSE c

Oldest(c) == c.ll[Len(c.ll)]

\* (Mutant) RemoveOldest forgets the length of the key.
RemoveOldestKeyless(c) ==
  IF c.ll = <<>> THEN c
  ELSE [c EXCEPT !.ll = SubSeq(@, 1, Len(@) - 1),
                 !.cache = @ \ {Oldest(c).key},
                 !.nbytes = @ - ValueLen(Oldest(c).value)]

\* (Mutant) the key stays in the map.
RemoveOldestUnmapped(c) ==
  IF c.ll = <<>> THEN c
  ELSE [c EXCEPT !.ll = SubSeq(@, 1, Len(@) - 1), !.nbytes = @ - Size(Oldest(c))]

RemoveOldest(c) ==
  IF c.ll = <<>> THEN c
  ELSE [c EXCEPT !.ll = SubSeq(@, 1, Len(@) - 1),
                 !.cache = @ \ {Oldest(c).key},
                 !.nbytes = @ - Size(Oldest(c))]

OverBudget(c) == c.maxBytes # 0 /\ c.maxBytes < c.nbytes

\* (Mutant) if where the code has for.
TrimOnce(c) == IF OverBudget(c) THEN RemoveOldest(c) ELSE c

\* Add's loop: RemoveOldest while the cache is over budget.  If the empty
\* cache were over budget too the code would not return; the cache is then
\* left empty and over budget here, which LruMachine shows never to happen.
Trim(c) ==
  LET After[n \in 0..Len(c.ll)] == IF n = 0 THEN c ELSE RemoveOldest(After[n - 1])
      Ends(n) == n = Len(c.ll) \/ ~OverBudget(After[n])
  IN  After[CHOOSE n \in 0..Len(c.ll) : Ends(n) /\ \A i \in 0..(n - 1) : ~Ends(i)]

\* The two branches of Add: update in place and move to the front, or push.
Put(c, k, v) ==
  IF k \in c.cache
    THEN [c EXCEPT !.ll = <<Entry(k, v)>> \o Others(c, k),
                   !.nbytes = @ + ValueLen(v) - ValueLen(Lookup(c, k))]
    ELSE [c EXCEPT !.ll = <<Entry(k, v)>> \o @,
                   !.cache = @ \cup {k},
                   !.nbytes = @ + Size(Entry(k, v))]

Add(c, k, v) == Trim(Put(c, k, v))
=============================================================================
