----------------------------- MODULE LruProofs ------------------------------
(***************************************************************************)
(* The cache of geecache/lru, for any keys, values, lengths and budgets.   *)
(* Facts about the lists come first, then the one induction that the sum   *)
(* of the sizes and Add's loop need: over the numbers 0 to n, by the least *)
(* number that is not in a set.                                            *)
(***************************************************************************)
EXTENDS LruMachine, SequenceTheorems, FiniteSetTheorems, WellFoundedInduction, TLAPS

-----------------------------------------------------------------------------
(* Lists                                                                   *)

\* <<x>> \o s is s behind x.
LEMMA PushFront ==
  ASSUME NEW S, NEW s \in Seq(S), NEW x \in S, NEW t, t = <<x>> \o s
  PROVE  /\ t \in Seq(S)
         /\ Len(t) = Len(s) + 1
         /\ t[1] = x
         /\ \A i \in 1..Len(s) : t[i + 1] = s[i]
<1>1. <<x>> \in Seq(S) /\ Len(<<x>>) = 1
  OBVIOUS
<1> QED
  BY <1>1, ConcatProperties

LEMMA RemoveAtFacts ==
  ASSUME NEW S, NEW s \in Seq(S), NEW p \in 1..Len(s)
  PROVE  LET t == RemoveAt(s, p)
         IN  /\ t \in Seq(S)
             /\ Len(t) = Len(s) - 1
             /\ \A i \in 1..(p - 1) : t[i] = s[i]
             /\ \A i \in p..(Len(s) - 1) : t[i] = s[i + 1]
<1> DEFINE a == SubSeq(s, 1, p - 1)
           b == SubSeq(s, p + 1, Len(s))
<1>1. Len(s) \in Nat
  OBVIOUS
<1>2. a \in Seq(S) /\ Len(a) = p - 1 /\ \A i \in 1..(p - 1) : a[i] = s[i]
  BY <1>1, SubSeqProperties
<1>3. b \in Seq(S) /\ Len(b) = Len(s) - p /\ \A i \in 1..(Len(s) - p) : b[i] = s[p + i]
  BY <1>1, SubSeqProperties
<1> HIDE DEF a, b
<1>4. /\ a \o b \in Seq(S)
      /\ Len(a \o b) = Len(a) + Len(b)
      /\ \A i \in 1..(Len(a) + Len(b)) :
           (a \o b)[i] = IF i <= Len(a) THEN a[i] ELSE b[i - Len(a)]
  BY <1>2, <1>3, ConcatProperties, Zenon
<1>5. \A i \in 1..(p - 1) : (a \o b)[i] = s[i]
  BY <1>1, <1>2, <1>3, <1>4
<1>6. ASSUME NEW i \in p..(Len(s) - 1)
      PROVE  (a \o b)[i] = s[i + 1]
  <2>1. i - (p - 1) \in 1..(Len(s) - p) /\ p + (i - (p - 1)) = i + 1
    BY <1>1
  <2> QED
    BY <1>1, <1>2, <1>3, <1>4, <2>1
<1>7. Len(a \o b) = Len(s) - 1
  BY <1>1, <1>2, <1>3, <1>4
<1>8. RemoveAt(s, p) = a \o b
  BY DEF RemoveAt, a, b
<1> QED
  BY <1>4, <1>5, <1>6, <1>7, <1>8, Zenon

\* x in front, and the element at p gone: what MoveToFront does to the others.
InFront(S, s, p, x, t) ==
  /\ t \in Seq(S)
  /\ Len(t) = Len(s)
  /\ t[1] = x
  /\ \A i \in 2..p : t[i] = s[i - 1]
  /\ \A i \in (p + 1)..Len(s) : t[i] = s[i]

LEMMA MoveToFront ==
  ASSUME NEW S, NEW s \in Seq(S), NEW p \in 1..Len(s), NEW x \in S,
         NEW t, t = <<x>> \o RemoveAt(s, p)
  PROVE  InFront(S, s, p, x, t)
<1> DEFINE r == RemoveAt(s, p)
<1>1. Len(s) \in Nat
  OBVIOUS
<1>2. /\ r \in Seq(S)
      /\ Len(r) = Len(s) - 1
      /\ \A i \in 1..(p - 1) : r[i] = s[i]
      /\ \A i \in p..(Len(s) - 1) : r[i] = s[i + 1]
  BY RemoveAtFacts
<1> HIDE DEF r
<1>3. t \in Seq(S) /\ Len(t) = Len(r) + 1 /\ t[1] = x /\ \A i \in 1..Len(r) : t[i + 1] = r[i]
  BY <1>2, PushFront DEF r
<1>4. ASSUME NEW i \in 2..Len(s)
      PROVE  t[i] = r[i - 1]
  <2>1. i - 1 \in 1..Len(r) /\ (i - 1) + 1 = i
    BY <1>1, <1>2
  <2> QED
    BY <1>3, <2>1
<1>5. ASSUME NEW i \in 2..p
      PROVE  t[i] = s[i - 1]
  <2>1. i \in 2..Len(s) /\ i - 1 \in 1..(p - 1)
    BY <1>1
  <2> QED
    BY <1>2, <1>4, <2>1, Zenon
<1>6. ASSUME NEW i \in (p + 1)..Len(s)
      PROVE  t[i] = s[i]
  <2>1. i \in 2..Len(s) /\ i - 1 \in p..(Len(s) - 1) /\ (i - 1) + 1 = i
    BY <1>1
  <2>2. t[i] = r[i - 1] /\ r[i - 1] = s[(i - 1) + 1]
    BY <1>2, <1>4, <2>1, Zenon
  <2> QED
    BY <2>1, <2>2, Zenon
<1> QED
  BY <1>2, <1>3, <1>5, <1>6 DEF InFront

LEMMA DropLast ==
  ASSUME NEW S, NEW s \in Seq(S), s # <<>>
  PROVE  LET t == SubSeq(s, 1, Len(s) - 1)
         IN  /\ Len(s) \in Nat \ {0}
             /\ t \in Seq(S)
             /\ Len(t) = Len(s) - 1
             /\ \A i \in 1..(Len(s) - 1) : t[i] = s[i]
<1>1. Len(s) \in Nat \ {0}
  BY EmptySeq
<1>2. \A i \in 1..(Len(s) - 1) : s[i] \in S
  BY <1>1, ElementOfSeq
<1>3. PICK n \in Nat : n = Len(s) - 1
  BY <1>1
<1>4. /\ SubSeq(s, 1, n) \in Seq(S)
      /\ Len(SubSeq(s, 1, n)) = n
      /\ \A i \in 1..n : SubSeq(s, 1, n)[i] = s[i]
  BY <1>2, <1>3, SubSeqProperties
<1> QED
  BY <1>1, <1>3, <1>4
-----------------------------------------------------------------------------
(* Induction                                                               *)

LEMMA Least ==
  ASSUME NEW S \in SUBSET Nat, S # {}
  PROVE  \E x \in S : \A y \in S : x <= y
<1>1. IsWellFoundedOn(OpToRel(<, Nat), Nat)
  BY NatLessThanWellFounded
<1>2. PICK x \in S : \A y \in S : ~(<<y, x>> \in OpToRel(<, Nat))
  BY <1>1, WFMin
<1>3. \A y \in S : ~(y < x)
  BY <1>2 DEF OpToRel
<1> QED
  BY <1>3

LEMMA Induction ==
  ASSUME NEW N \in Nat, NEW T, 0 \in T,
         \A i \in 1..N : i - 1 \in T => i \in T
  PROVE  \A i \in 0..N : i \in T
<1> DEFINE Out == {i \in 0..N : i \notin T}
<1> SUFFICES ASSUME Out # {} PROVE FALSE
  OBVIOUS
<1>1. Out \in SUBSET Nat
  OBVIOUS
<1>2. PICK x \in Out : \A y \in Out : x <= y
  BY <1>1, Least
<1>3. x \in 0..N /\ x \notin T /\ x # 0
  OBVIOUS
<1>4. x \in 1..N /\ x - 1 \in 0..N /\ ~(x <= x - 1)
  BY <1>3
<1>5. x - 1 \in T
  BY <1>2, <1>4
<1> QED
  BY <1>3, <1>4, <1>5

\* A set that holds a number of 0..N holds a least one.
LEMMA LeastOf ==
  ASSUME NEW N \in Nat, NEW T, NEW n \in 0..N, n \in T
  PROVE  \E x \in 0..N : x \in T /\ \A i \in 0..(x - 1) : i \notin T
<1> DEFINE In == {i \in 0..N : i \in T}
<1>1. In \in SUBSET Nat /\ In # {}
  OBVIOUS
<1>2. PICK x \in In : \A y \in In : x <= y
  BY <1>1, Least
<1>3. x \in 0..N /\ x \in T
  OBVIOUS
<1>4. \A i \in 0..(x - 1) : i \in 0..N /\ ~(x <= i)
  BY <1>3
<1> QED
  BY <1>2, <1>3, <1>4

\* Applying F again and again defines a function of how often.
HasIterates(S, z, F, N) ==
  \E g \in [0..N -> S] : g[0] = z /\ \A i \in 1..N : g[i] = F[g[i - 1]]

LEMMA Iterates ==
  ASSUME NEW S, NEW z \in S, NEW F \in [S -> S], NEW N \in Nat
  PROVE  HasIterates(S, z, F, N)
<1> DEFINE Iterated(g, n) == g \in [0..n -> S] /\ g[0] = z /\ \A i \in 1..n : g[i] = F[g[i - 1]]
           T == {n \in 0..N : \E g : Iterated(g, n)}
<1>1. 0 \in T
  <2>1. Iterated([i \in 0..0 |-> z], 0)
    OBVIOUS
  <2> HIDE DEF Iterated
  <2>2. 0 \in 0..N
    OBVIOUS
  <2> QED
    BY <2>1, <2>2
<1>2. ASSUME NEW n \in 1..N, n - 1 \in T
      PROVE  n \in T
  <2>1. PICK g : Iterated(g, n - 1)
    BY <1>2
  <2> DEFINE h == [i \in 0..n |-> IF i = n THEN F[g[n - 1]] ELSE g[i]]
  <2>2. \A i \in 0..(n - 1) : h[i] = g[i]
    OBVIOUS
  <2>3. h[n] = F[g[n - 1]] /\ g[n - 1] \in S
    BY <2>1
  <2>4. h \in [0..n -> S]
    BY <2>1, <2>3
  <2> HIDE DEF h
  <2>5. \A i \in 1..n : h[i] = F[h[i - 1]]
    BY <2>1, <2>2, <2>3
  <2>6. h[0] = z
    BY <2>1, <2>2
  <2>7. Iterated(h, n)
    BY <2>4, <2>5, <2>6
  <2> HIDE DEF Iterated
  <2> QED
    BY <2>7
<1> HIDE DEF T
<1>3. N \in T
  BY <1>1, <1>2, Induction
<1> QED
  BY <1>3 DEF T, HasIterates
-----------------------------------------------------------------------------
(* What is true of a cache between two steps of an operation               *)

Entries == [key : Keys, value : Values]
Caches  == [maxBytes : Nat, ll : Seq(Entries), cache : SUBSET Keys, nbytes : Int]

\* acc[i] is the size of the first i entries.
Sums(acc, s) ==
  /\ acc \in [0..Len(s) -> Int]
  /\ acc[0] = 0
  /\ \A i \in 1..Len(s) : acc[i] = acc[i - 1] + Size(s[i])

Distinct(x) == \A i, j \in 1..Len(x.ll) : x.ll[i].key = x.ll[j].key => i = j
Mapped(x)   == x.cache = {x.ll[i].key : i \in 1..Len(x.ll)}
Counted(x)  == \E acc : Sums(acc, x.ll) /\ x.nbytes = acc[Len(x.ll)]

WellFormed(x) == x \in Caches /\ Distinct(x) /\ Mapped(x) /\ Counted(x)

LEMMA SizeIsNat == \A e \in Entries : Size(e) \in Nat
BY LruAssumption DEF Entries, Size

LEMMA CacheFields ==
  ASSUME NEW x \in Caches
  PROVE  /\ x.maxBytes \in Nat /\ x.ll \in Seq(Entries) /\ x.cache \subseteq Keys
         /\ x.nbytes \in Int
         /\ Len(x.ll) \in Nat
         /\ \A i \in 1..Len(x.ll) : x.ll[i] \in Entries
BY ElementOfSeq DEF Caches

LEMMA NewCacheWellFormed ==
  ASSUME NEW b \in Nat
  PROVE  WellFormed(NewCache(b))
<1>1. NewCache(b) \in Caches /\ NewCache(b).ll = <<>> /\ NewCache(b).cache = {}
      /\ NewCache(b).nbytes = 0
  BY DEF NewCache, Caches
<1>2. Sums([i \in 0..0 |-> 0], <<>>)
  BY DEF Sums
<1> QED
  BY <1>1, <1>2 DEF WellFormed, Distinct, Mapped, Counted

\* The bytes a cache counts are never fewer than none, and none if it is empty.
LEMMA CountIsNat ==
  ASSUME NEW x, WellFormed(x)
  PROVE  x.nbytes \in Nat /\ (x.ll = <<>> => x.nbytes = 0)
<1>1. x \in Caches
  BY DEF WellFormed
<1>2. PICK acc : Sums(acc, x.ll) /\ x.nbytes = acc[Len(x.ll)]
  BY DEF WellFormed, Counted
<1> DEFINE N == Len(x.ll)
           T == {i \in 0..N : acc[i] >= 0}
<1>3. N \in Nat /\ \A i \in 1..N : Size(x.ll[i]) \in Nat
  BY <1>1, CacheFields, SizeIsNat
<1>4. 0 \in T
  BY <1>2, <1>3 DEF Sums
<1>5. ASSUME NEW i \in 1..N, i - 1 \in T
      PROVE  i \in T
  <2>1. acc[i] = acc[i - 1] + Size(x.ll[i]) /\ acc[i] \in Int /\ acc[i - 1] \in Int
    <3>1. acc \in [0..N -> Int] /\ \A j \in 1..N : acc[j] = acc[j - 1] + Size(x.ll[j])
      BY <1>2 DEF Sums
    <3>2. i \in 0..N /\ i - 1 \in 0..N
      BY <1>3
    <3> QED
      BY <3>1, <3>2
  <2>2. i \in 0..N /\ acc[i - 1] >= 0 /\ Size(x.ll[i]) \in Nat
    BY <1>3, <1>5
  <2> QED
    BY <2>1, <2>2
<1> HIDE DEF T, N
<1>6. N \in T
  <2>1. \A i \in 0..N : i \in T
    BY <1>3, <1>4, <1>5, Induction
  <2> QED
    BY <1>3, <2>1
<1>7. acc[N] \in Nat
  BY <1>2, <1>3, <1>6 DEF T, Sums, N
<1> QED
  BY <1>2, <1>3, <1>7 DEF Sums, N
-----------------------------------------------------------------------------
(* RemoveOldest                                                            *)

LEMMA RemoveOldestFacts ==
  ASSUME NEW x \in Caches, x.ll # <<>>
  PROVE  LET y == RemoveOldest(x)
         IN  /\ y \in Caches /\ y.maxBytes = x.maxBytes
             /\ Len(x.ll) \in Nat \ {0}
             /\ Len(y.ll) = Len(x.ll) - 1
             /\ \A i \in 1..Len(y.ll) : y.ll[i] = x.ll[i]
             /\ y.cache = x.cache \ {x.ll[Len(x.ll)].key}
             /\ y.nbytes = x.nbytes - Size(x.ll[Len(x.ll)])
<1> DEFINE t == SubSeq(x.ll, 1, Len(x.ll) - 1)
           y == RemoveOldest(x)
<1>1. /\ Len(x.ll) \in Nat \ {0}
      /\ t \in Seq(Entries)
      /\ Len(t) = Len(x.ll) - 1
      /\ \A i \in 1..(Len(x.ll) - 1) : t[i] = x.ll[i]
  BY CacheFields, DropLast
<1>2. y = [x EXCEPT !.ll = t, !.cache = @ \ {Oldest(x).key}, !.nbytes = @ - Size(Oldest(x))]
  BY DEF RemoveOldest
<1> HIDE DEF t, y
<1>3. Size(Oldest(x)) \in Nat
  BY <1>1, CacheFields, SizeIsNat DEF Oldest
<1>4. /\ y.ll = t /\ y.cache = x.cache \ {Oldest(x).key}
      /\ y.nbytes = x.nbytes - Size(Oldest(x)) /\ y.maxBytes = x.maxBytes
  BY <1>2 DEF Caches
<1>5. y \in Caches
  <2>1. x.cache \ {Oldest(x).key} \in SUBSET Keys /\ x.nbytes - Size(Oldest(x)) \in Int
    BY <1>3, CacheFields
  <2> QED
    BY <1>1, <1>2, <2>1 DEF Caches
<1> QED
  BY <1>1, <1>4, <1>5 DEF y, Oldest

LEMMA RemoveOldestWellFormed ==
  ASSUME NEW x, WellFormed(x)
  PROVE  WellFormed(RemoveOldest(x))
<1>1. CASE x.ll = <<>>
  BY <1>1 DEF RemoveOldest
<1>2. CASE x.ll # <<>>
  <2> DEFINE y == RemoveOldest(x)
             N == Len(x.ll)
  <2>1. x \in Caches /\ Distinct(x) /\ Mapped(x)
    BY DEF WellFormed
  <2>2. PICK acc : Sums(acc, x.ll) /\ x.nbytes = acc[N]
    BY DEF WellFormed, Counted
  <2>3. /\ y \in Caches /\ N \in Nat \ {0} /\ Len(y.ll) = N - 1
        /\ \A i \in 1..(N - 1) : y.ll[i] = x.ll[i]
        /\ y.cache = x.cache \ {x.ll[N].key}
        /\ y.nbytes = x.nbytes - Size(x.ll[N])
    BY <1>2, <2>1, RemoveOldestFacts
  <2> HIDE DEF y, N
  <2>4. Distinct(y)
    <3> SUFFICES ASSUME NEW i \in 1..(N - 1), NEW j \in 1..(N - 1),
                        y.ll[i].key = y.ll[j].key
                 PROVE  i = j
      BY <2>3 DEF Distinct
    <3>1. i \in 1..N /\ j \in 1..N /\ x.ll[i].key = x.ll[j].key
      BY <2>3
    <3> QED
      BY <2>1, <3>1 DEF Distinct, N
  <2>5. Mapped(y)
    <3>1. \A i \in 1..(N - 1) : x.ll[i].key # x.ll[N].key
      BY <2>1, <2>3 DEF Distinct, N
    <3>2. x.cache = {x.ll[i].key : i \in 1..(N - 1)} \cup {x.ll[N].key}
      BY <2>1, <2>3 DEF Mapped, N
    <3>3. {y.ll[i].key : i \in 1..Len(y.ll)} = {x.ll[i].key : i \in 1..(N - 1)}
      BY <2>3
    <3> QED
      BY <2>3, <3>1, <3>2, <3>3 DEF Mapped
  <2>6. Counted(y)
    <3>0. Size(x.ll[N]) \in Nat
      BY <2>1, <2>3, CacheFields, SizeIsNat DEF N
    <3>1. Sums([i \in 0..(N - 1) |-> acc[i]], y.ll)
      BY <2>2, <2>3 DEF Sums, N
    <3>2. y.nbytes = acc[N - 1]
      <4>1. /\ acc[N] = acc[N - 1] + Size(x.ll[N])
            /\ acc[N - 1] \in Int /\ x.nbytes = acc[N]
        <5>1. /\ acc \in [0..N -> Int]
              /\ \A i \in 1..N : acc[i] = acc[i - 1] + Size(x.ll[i])
          BY <2>2 DEF Sums, N
        <5>2. N \in 1..N /\ N - 1 \in 0..N
          BY <2>3
        <5> QED
          BY <2>2, <5>1, <5>2
      <4> QED
        BY <2>3, <3>0, <4>1
    <3> QED
      BY <2>3, <3>1, <3>2 DEF Counted
  <2> QED
    BY <2>3, <2>4, <2>5, <2>6 DEF WellFormed, y
<1> QED
  BY <1>1, <1>2
-----------------------------------------------------------------------------
(* MoveToFront and PushFront                                               *)

LEMMA PositionFacts ==
  ASSUME NEW x, WellFormed(x), NEW k \in x.cache
  PROVE  /\ Position(x, k) \in 1..Len(x.ll)
         /\ x.ll[Position(x, k)].key = k
         /\ \A i \in 1..Len(x.ll) : x.ll[i].key = k => i = Position(x, k)
<1>1. \E i \in 1..Len(x.ll) : x.ll[i].key = k
  BY DEF WellFormed, Mapped
<1>2. Position(x, k) \in 1..Len(x.ll) /\ x.ll[Position(x, k)].key = k
  BY <1>1 DEF Position
<1> QED
  BY <1>2 DEF WellFormed, Distinct

\* k's entry goes to the front, as e.
Moved(x, y, k, e) ==
  /\ y \in Caches
  /\ y.ll = <<e>> \o Others(x, k)
  /\ y.cache = x.cache
  /\ y.nbytes = x.nbytes + Size(e) - Size(x.ll[Position(x, k)])

\* The entry at p went to the front of y, as e.
Relisted(x, y, p, e) ==
  /\ p \in 1..Len(x.ll) /\ Len(x.ll) \in Nat
  /\ Len(y.ll) = Len(x.ll)
  /\ y.ll[1] = e
  /\ \A i \in 2..p : y.ll[i] = x.ll[i - 1]
  /\ \A i \in (p + 1)..Len(x.ll) : y.ll[i] = x.ll[i]

LEMMA MovedList ==
  ASSUME NEW x, WellFormed(x), NEW k \in x.cache, NEW e \in Entries, NEW y, Moved(x, y, k, e)
  PROVE  Relisted(x, y, Position(x, k), e)
<1>1. x.ll \in Seq(Entries) /\ Len(x.ll) \in Nat
  BY CacheFields DEF WellFormed
<1> DEFINE p == Position(x, k)
<1>2. p \in 1..Len(x.ll) /\ x.ll[p].key = k
  BY PositionFacts
<1>3. y.ll = <<e>> \o RemoveAt(x.ll, p)
  BY DEF Moved, Others
<1> HIDE DEF p
<1>4. /\ Len(y.ll) = Len(x.ll)
      /\ y.ll[1] = e
      /\ \A i \in 2..p : y.ll[i] = x.ll[i - 1]
      /\ \A i \in (p + 1)..Len(x.ll) : y.ll[i] = x.ll[i]
  <2>1. InFront(Entries, x.ll, p, e, y.ll)
    BY <1>1, <1>2, <1>3, MoveToFront
  <2> QED
    BY <2>1 DEF InFront
<1> QED
  BY <1>1, <1>2, <1>4, Zenon DEF Relisted, p

LEMMA MovedWellFormed ==
  ASSUME NEW x, WellFormed(x), NEW k \in x.cache, NEW e \in Entries, e.key = k,
         NEW y, Moved(x, y, k, e)
  PROVE  WellFormed(y)
<1> DEFINE p == Position(x, k)
           N == Len(x.ll)
<1>1. /\ p \in 1..N /\ N \in Nat /\ x.ll[p].key = k
      /\ Len(y.ll) = N
      /\ y.ll[1] = e
      /\ \A i \in 2..p : y.ll[i] = x.ll[i - 1]
      /\ \A i \in (p + 1)..N : y.ll[i] = x.ll[i]
  <2>1. Relisted(x, y, p, e)
    BY MovedList
  <2> QED
    BY <2>1, PositionFacts DEF Relisted
<1>2. /\ x \in Caches /\ Mapped(x)
      /\ \A i, j \in 1..N : x.ll[i].key = x.ll[j].key => i = j
  BY DEF WellFormed, Distinct
<1>3. /\ y \in Caches /\ y.cache = x.cache
      /\ y.nbytes = x.nbytes + Size(e) - Size(x.ll[p])
  BY DEF Moved
<1>4. PICK acc : Sums(acc, x.ll) /\ x.nbytes = acc[N]
  BY DEF WellFormed, Counted
<1>5. /\ Size(e) \in Nat
      /\ \A i \in 1..N : x.ll[i] \in Entries /\ Size(x.ll[i]) \in Nat
  BY <1>1, <1>2, CacheFields, SizeIsNat
<1> HIDE DEF p, N
\* Where each entry of y comes from.
<1> DEFINE from(i) == IF i = 1 THEN p ELSE IF i <= p THEN i - 1 ELSE i
<1>6. \A i \in 1..N : from(i) \in 1..N /\ y.ll[i].key = x.ll[from(i)].key
  BY <1>1
<1>7. \A i, j \in 1..N : from(i) = from(j) => i = j
  BY <1>1
<1>8. \A h \in 1..N : \E i \in 1..N : from(i) = h
  <2> SUFFICES ASSUME NEW h \in 1..N
               PROVE  \E i \in 1..N : from(i) = h
    OBVIOUS
  <2>1. CASE h = p
    BY <1>1, <2>1
  <2>2. CASE h < p
    <3>1. h + 1 \in 1..N /\ from(h + 1) = h
      BY <1>1, <2>2
    <3> QED
      BY <3>1
  <2>3. CASE h > p
    <3>1. from(h) = h
      BY <1>1, <2>3
    <3> QED
      BY <3>1
  <2> QED
    BY <1>1, <2>1, <2>2, <2>3
<1>9. Distinct(y)
  <2> SUFFICES ASSUME NEW i \in 1..N, NEW j \in 1..N, y.ll[i].key = y.ll[j].key
               PROVE  i = j
    BY <1>1 DEF Distinct
  <2> HIDE DEF from
  <2>1. x.ll[from(i)].key = x.ll[from(j)].key
    BY <1>6
  <2> QED
    BY <1>2, <1>6, <1>7, <2>1
<1>10. Mapped(y)
  <2> HIDE DEF from
  <2>1. x.cache = {x.ll[i].key : i \in 1..N}
    BY <1>2 DEF Mapped, N
  <2>2. {y.ll[i].key : i \in 1..N} = {x.ll[i].key : i \in 1..N}
    BY <1>6, <1>8
  <2>3. y.cache = {y.ll[i].key : i \in 1..N}
    BY <1>3, <2>1, <2>2
  <2>4. Len(y.ll) = N
    BY <1>1
  <2> QED
    BY <2>3, <2>4, Zenon DEF Mapped
<1>11. Counted(y)
  <2> DEFINE more == [i \in 0..N |-> IF i = 0 THEN 0
                                     ELSE IF i < p THEN acc[i - 1] + Size(e)
                                     ELSE acc[i] + Size(e) - Size(x.ll[p])]
  <2>1. /\ acc \in [0..N -> Int] /\ acc[0] = 0
        /\ \A i \in 1..N : acc[i] = acc[i - 1] + Size(x.ll[i])
    BY <1>4 DEF Sums, N
  <2>2. more \in [0..N -> Int] /\ more[0] = 0
    <3>1. Size(e) \in Int /\ Size(x.ll[p]) \in Int /\ 0 \in 0..N
      BY <1>1, <1>5
    <3>2. \A i \in 0..N : acc[i] \in Int /\ (i # 0 => i - 1 \in 0..N)
      BY <1>1, <2>1
    <3>3. \A i \in 0..N : i # 0 => acc[i - 1] \in Int
      BY <3>2
    <3> QED
      BY <3>1, <3>2, <3>3
  <2>3. ASSUME NEW i \in 1..N
        PROVE  more[i] = more[i - 1] + Size(y.ll[i])
    <3>1. i \in 0..N /\ i - 1 \in 0..N /\ acc[i] \in Int /\ acc[i - 1] \in Int
      BY <1>1, <2>1
    <3>2. CASE i = 1
      <4>1. more[i - 1] = 0
        BY <1>1, <3>2
      <4>2. more[i] = Size(e)
        <5>1. CASE p = 1
          BY <1>1, <1>5, <2>1, <3>1, <3>2, <5>1
        <5>2. CASE p > 1
          BY <1>1, <1>5, <2>1, <3>1, <3>2, <5>2
        <5> QED
          BY <1>1, <5>1, <5>2
      <4> QED
        BY <1>1, <1>5, <3>2, <4>1, <4>2
    <3>3. CASE i > 1 /\ i < p
      <4>1. i - 1 \in 1..N /\ (i - 1) - 1 \in 0..N /\ y.ll[i] = x.ll[i - 1]
        BY <1>1, <3>3
      <4>2. more[i] = acc[i - 1] + Size(e) /\ more[i - 1] = acc[(i - 1) - 1] + Size(e)
        BY <1>1, <3>1, <3>3, <4>1
      <4> QED
        BY <1>1, <1>5, <2>1, <4>1, <4>2
    <3>4. CASE i > 1 /\ i = p
      <4>1. i - 1 \in 1..N /\ (i - 1) - 1 \in 0..N /\ y.ll[i] = x.ll[i - 1]
        BY <1>1, <3>4
      <4>2. /\ more[i] = acc[i] + Size(e) - Size(x.ll[p])
            /\ more[i - 1] = acc[(i - 1) - 1] + Size(e)
        BY <1>1, <3>1, <3>4, <4>1
      <4>3. acc[i] = acc[i - 1] + Size(x.ll[p]) /\ Size(x.ll[p]) \in Int
        BY <1>5, <2>1, <3>4
      <4>4. /\ acc[i - 1] = acc[(i - 1) - 1] + Size(y.ll[i]) /\ Size(y.ll[i]) \in Int
            /\ acc[(i - 1) - 1] \in Int
        BY <1>5, <2>1, <4>1
      <4> HIDE DEF more
      <4> QED
        BY <1>5, <3>1, <4>2, <4>3, <4>4
    <3>5. CASE i > 1 /\ i > p
      <4>1. i - 1 >= p /\ y.ll[i] = x.ll[i]
        BY <1>1, <3>5
      <4>2. /\ more[i] = acc[i] + Size(e) - Size(x.ll[p])
            /\ more[i - 1] = acc[i - 1] + Size(e) - Size(x.ll[p])
        BY <1>1, <3>1, <3>5, <4>1
      <4>3. acc[i] = acc[i - 1] + Size(y.ll[i]) /\ Size(y.ll[i]) \in Int /\ Size(x.ll[p]) \in Int
        <5>1. acc[i] = acc[i - 1] + Size(x.ll[i])
          BY <2>1
        <5>2. Size(x.ll[i]) \in Nat /\ Size(x.ll[p]) \in Nat
          BY <1>1, <1>5
        <5> QED
          BY <4>1, <5>1, <5>2
      <4> HIDE DEF more
      <4> QED
        BY <1>5, <3>1, <4>2, <4>3
    <3> QED
      BY <1>1, <3>2, <3>3, <3>4, <3>5
  <2>4. y.nbytes = more[N]
    <3>1. p <= N /\ N > 0
      BY <1>1
    <3> QED
      BY <1>1, <1>3, <1>4, <1>5, <2>1, <3>1
  <2> HIDE DEF more
  <2>5. Sums(more, y.ll)
    BY <1>1, <2>2, <2>3 DEF Sums
  <2> QED
    BY <1>1, <2>4, <2>5 DEF Counted
<1> QED
  BY <1>3, <1>9, <1>10, <1>11 DEF WellFormed

\* A new entry goes to the front.
Pushed(x, y, e) ==
  /\ y \in Caches
  /\ y.ll = <<e>> \o x.ll
  /\ y.cache = x.cache \cup {e.key}
  /\ y.nbytes = x.nbytes + Size(e)

LEMMA PushedList ==
  ASSUME NEW x \in Caches, NEW e \in Entries, NEW y, Pushed(x, y, e)
  PROVE  /\ Len(x.ll) \in Nat
         /\ Len(y.ll) = Len(x.ll) + 1
         /\ y.ll[1] = e
         /\ \A i \in 1..Len(x.ll) : y.ll[i + 1] = x.ll[i]
<1>1. x.ll \in Seq(Entries) /\ Len(x.ll) \in Nat
  BY CacheFields
<1>2. y.ll = <<e>> \o x.ll
  BY DEF Pushed
<1>3. \A s \in Seq(Entries) : \A t : t = <<e>> \o s =>
        /\ Len(t) = Len(s) + 1
        /\ t[1] = e
        /\ \A i \in 1..Len(s) : t[i + 1] = s[i]
  BY PushFront
<1> QED
  BY <1>1, <1>2, <1>3

LEMMA PushedWellFormed ==
  ASSUME NEW x, WellFormed(x), NEW e \in Entries, e.key \notin x.cache,
         NEW y, Pushed(x, y, e)
  PROVE  WellFormed(y)
<1> DEFINE N == Len(x.ll)
<1>1. /\ x \in Caches /\ Mapped(x)
      /\ \A i, j \in 1..N : x.ll[i].key = x.ll[j].key => i = j
  BY DEF WellFormed, Distinct
<1>2. /\ N \in Nat /\ Len(y.ll) = N + 1 /\ y.ll[1] = e
      /\ \A i \in 1..N : y.ll[i + 1] = x.ll[i]
  BY <1>1, PushedList
<1>3. /\ y \in Caches /\ y.cache = x.cache \cup {e.key} /\ y.nbytes = x.nbytes + Size(e)
  BY DEF Pushed
<1>4. PICK acc : Sums(acc, x.ll) /\ x.nbytes = acc[N]
  BY DEF WellFormed, Counted
<1>5. Size(e) \in Nat /\ \A i \in 1..N : Size(x.ll[i]) \in Nat
  BY <1>1, CacheFields, SizeIsNat
<1>6. x.cache = {x.ll[i].key : i \in 1..N}
  BY <1>1 DEF Mapped
<1> HIDE DEF N
<1>7. \A i \in 2..(N + 1) : i - 1 \in 1..N /\ y.ll[i] = x.ll[i - 1]
  <2> SUFFICES ASSUME NEW i \in 2..(N + 1)
               PROVE  i - 1 \in 1..N /\ y.ll[i] = x.ll[i - 1]
    OBVIOUS
  <2>1. i - 1 \in 1..N /\ (i - 1) + 1 = i
    BY <1>2
  <2> QED
    BY <1>2, <2>1
<1>8. \A i \in 2..(N + 1) : y.ll[i].key # e.key
  BY <1>6, <1>7
<1>9. Distinct(y)
  <2> SUFFICES ASSUME NEW i \in 1..(N + 1), NEW j \in 1..(N + 1), y.ll[i].key = y.ll[j].key
               PROVE  i = j
    BY <1>2 DEF Distinct
  <2>1. CASE i = 1 \/ j = 1
    BY <1>2, <1>8, <2>1
  <2>2. CASE i # 1 /\ j # 1
    <3>1. i \in 2..(N + 1) /\ j \in 2..(N + 1)
      BY <1>2, <2>2
    <3>2. /\ i - 1 \in 1..N /\ j - 1 \in 1..N
          /\ x.ll[i - 1].key = x.ll[j - 1].key
      BY <1>7, <3>1, Zenon
    <3>3. i - 1 = j - 1
      BY <1>1, <3>2, Zenon DEF N
    <3> QED
      BY <1>2, <3>3
  <2> QED
    BY <2>1, <2>2
<1>10. Mapped(y)
  <2>1. {y.ll[i].key : i \in 1..(N + 1)} = {x.ll[i].key : i \in 1..N} \cup {e.key}
    <3>1. \A i \in 1..N : i + 1 \in 1..(N + 1) /\ y.ll[i + 1].key = x.ll[i].key
      BY <1>2
    <3>2. \A i \in 1..(N + 1) : i = 1 \/ i \in 2..(N + 1)
      BY <1>2
    <3>3. 1 \in 1..(N + 1) /\ y.ll[1].key = e.key
      BY <1>2
    <3>4. \A i \in 2..(N + 1) : i - 1 \in 1..N /\ y.ll[i].key = x.ll[i - 1].key
      BY <1>7
    <3>5. \A i \in 1..(N + 1) :
            y.ll[i].key \in {x.ll[h].key : h \in 1..N} \cup {e.key}
      BY <3>2, <3>3, <3>4
    <3>6. \A h \in 1..N : x.ll[h].key \in {y.ll[i].key : i \in 1..(N + 1)}
      BY <3>1
    <3>7. e.key \in {y.ll[i].key : i \in 1..(N + 1)}
      BY <3>3
    <3> QED
      BY <3>5, <3>6, <3>7
  <2>2. y.cache = {y.ll[i].key : i \in 1..(N + 1)}
    BY <1>3, <1>6, <2>1
  <2>3. Len(y.ll) = N + 1
    BY <1>2
  <2> QED
    BY <2>2, <2>3, Zenon DEF Mapped
<1>11. Counted(y)
  <2> DEFINE more == [i \in 0..(N + 1) |-> IF i = 0 THEN 0 ELSE acc[i - 1] + Size(e)]
  <2>1. /\ acc \in [0..N -> Int] /\ acc[0] = 0
        /\ \A i \in 1..N : acc[i] = acc[i - 1] + Size(x.ll[i])
    BY <1>4 DEF Sums, N
  <2>2. more \in [0..(N + 1) -> Int] /\ more[0] = 0
    <3>1. \A i \in 0..(N + 1) : i # 0 => i - 1 \in 0..N
      BY <1>2
    <3>2. \A i \in 0..(N + 1) : i # 0 => acc[i - 1] + Size(e) \in Int
      BY <1>5, <2>1, <3>1
    <3> QED
      BY <1>2, <3>2
  <2>3. \A i \in 1..(N + 1) : more[i] = acc[i - 1] + Size(e) /\ i - 1 \in 0..N
    BY <1>2
  <2> HIDE DEF more
  <2>4. ASSUME NEW i \in 1..(N + 1)
        PROVE  more[i] = more[i - 1] + Size(y.ll[i])
    <3>1. CASE i = 1
      BY <1>2, <1>5, <2>1, <2>2, <2>3, <3>1
    <3>2. CASE i # 1
      <4>1. i \in 2..(N + 1) /\ i - 1 \in 1..N /\ i - 1 \in 1..(N + 1) /\ (i - 1) - 1 \in 0..N
        BY <1>2, <3>2
      <4>2. acc[i - 1] = acc[(i - 1) - 1] + Size(y.ll[i]) /\ Size(y.ll[i]) \in Int
        BY <1>5, <1>7, <2>1, <4>1
      <4>3. acc[(i - 1) - 1] \in Int
        BY <2>1, <4>1
      <4> QED
        BY <1>5, <2>3, <4>1, <4>2, <4>3
    <3> QED
      BY <3>1, <3>2
  <2>5. Sums(more, y.ll)
    BY <1>2, <2>2, <2>4 DEF Sums
  <2>6. y.nbytes = more[N + 1]
    <3>1. N + 1 \in 1..(N + 1) /\ (N + 1) - 1 = N
      BY <1>2
    <3> QED
      BY <1>3, <1>4, <2>3, <3>1
  <2> QED
    BY <1>2, <2>5, <2>6 DEF Counted
<1> QED
  BY <1>3, <1>9, <1>10, <1>11 DEF WellFormed
-----------------------------------------------------------------------------
(* Get and the two branches of Add, in these terms                         *)

LEMMA LookupFacts ==
  ASSUME NEW x, WellFormed(x), NEW k \in x.cache
  PROVE  /\ Lookup(x, k) \in Values
         /\ Position(x, k) \in 1..Len(x.ll)
         /\ x.ll[Position(x, k)] \in Entries
         /\ x.ll[Position(x, k)].key = k
         /\ Lookup(x, k) = x.ll[Position(x, k)].value
<1>1. Position(x, k) \in 1..Len(x.ll) /\ x.ll[Position(x, k)].key = k
  BY PositionFacts
<1>2. x.ll[Position(x, k)] \in Entries
  BY <1>1, CacheFields DEF WellFormed
<1> QED
  BY <1>1, <1>2 DEF Lookup, Entries

LEMMA GetMoves ==
  ASSUME NEW x, WellFormed(x), NEW k \in x.cache
  PROVE  /\ Moved(x, Get(x, k), k, x.ll[Position(x, k)])
         /\ Get(x, k).maxBytes = x.maxBytes
<1> DEFINE e == x.ll[Position(x, k)]
           y == Get(x, k)
<1>1. x \in Caches /\ e \in Entries /\ Position(x, k) \in 1..Len(x.ll)
  BY LookupFacts DEF WellFormed
<1>2. y = [x EXCEPT !.ll = <<e>> \o Others(x, k)]
  BY DEF Get, Touch
<1> HIDE DEF e, y
<1>3. <<e>> \o Others(x, k) \in Seq(Entries)
  <2>1. InFront(Entries, x.ll, Position(x, k), e, <<e>> \o Others(x, k))
    BY <1>1, <1>1, CacheFields, MoveToFront DEF Others
  <2> QED
    BY <2>1 DEF InFront
<1>4. y \in Caches /\ y.ll = <<e>> \o Others(x, k) /\ y.cache = x.cache
      /\ y.nbytes = x.nbytes /\ y.maxBytes = x.maxBytes
  BY <1>1, <1>2, <1>3 DEF Caches
<1>5. x.nbytes \in Int /\ Size(e) \in Nat
  BY <1>1, CacheFields, SizeIsNat
<1>6. y.nbytes = x.nbytes + Size(e) - Size(e)
  BY <1>4, <1>5
<1> QED
  BY <1>4, <1>6 DEF Moved, e, y

LEMMA PutMoves ==
  ASSUME NEW x, WellFormed(x), NEW k \in x.cache, NEW v \in Values
  PROVE  /\ Moved(x, Put(x, k, v), k, Entry(k, v))
         /\ Put(x, k, v).maxBytes = x.maxBytes
<1> DEFINE e == Entry(k, v)
           old == x.ll[Position(x, k)]
           y == Put(x, k, v)
<1>1. /\ x \in Caches /\ old \in Entries /\ Position(x, k) \in 1..Len(x.ll)
      /\ old.key = k /\ Lookup(x, k) = old.value /\ Lookup(x, k) \in Values
  BY LookupFacts DEF WellFormed
<1>2. k \in Keys /\ e \in Entries /\ e.key = k /\ e.value = v
  BY <1>1, CacheFields DEF Entry, Entries
<1>3. y = [x EXCEPT !.ll = <<e>> \o Others(x, k),
                    !.nbytes = @ + ValueLen(v) - ValueLen(Lookup(x, k))]
  BY DEF Put
<1> HIDE DEF e, y
<1>4. <<e>> \o Others(x, k) \in Seq(Entries)
  <2>1. InFront(Entries, x.ll, Position(x, k), e, <<e>> \o Others(x, k))
    BY <1>1, <1>2, CacheFields, MoveToFront DEF Others
  <2> QED
    BY <2>1 DEF InFront
<1>5. /\ KeyLen(k) \in Nat /\ ValueLen(v) \in Nat /\ ValueLen(Lookup(x, k)) \in Nat
      /\ x.nbytes \in Int
  BY <1>1, <1>2, LruAssumption, CacheFields
<1>6. y \in Caches /\ y.ll = <<e>> \o Others(x, k) /\ y.cache = x.cache
      /\ y.nbytes = x.nbytes + ValueLen(v) - ValueLen(Lookup(x, k)) /\ y.maxBytes = x.maxBytes
  <2>1. x.nbytes + ValueLen(v) - ValueLen(Lookup(x, k)) \in Int
    BY <1>5
  <2> HIDE DEF old
  <2> QED
    BY <1>1, <1>3, <1>4, <2>1 DEF Caches
<1>7. y.nbytes = x.nbytes + Size(e) - Size(old)
  <2>1. Size(e) = KeyLen(k) + ValueLen(v) /\ Size(old) = KeyLen(k) + ValueLen(Lookup(x, k))
    BY <1>1, <1>2 DEF Size
  <2> QED
    BY <1>5, <1>6, <2>1
<1> QED
  BY <1>6, <1>7 DEF Moved, e, y

LEMMA PutPushes ==
  ASSUME NEW x \in Caches, NEW k \in Keys \ x.cache, NEW v \in Values
  PROVE  /\ Pushed(x, Put(x, k, v), Entry(k, v))
         /\ Put(x, k, v).maxBytes = x.maxBytes
<1> DEFINE e == Entry(k, v)
           y == Put(x, k, v)
<1>1. e \in Entries /\ e.key = k
  BY DEF Entry, Entries
<1>2. y = [x EXCEPT !.ll = <<e>> \o @, !.cache = @ \cup {k}, !.nbytes = @ + Size(e)]
  BY DEF Put
<1> HIDE DEF e, y
<1>3. <<e>> \o x.ll \in Seq(Entries)
  <2>1. \A s \in Seq(Entries) : \A t : t = <<e>> \o s => t \in Seq(Entries)
    BY <1>1, PushFront
  <2> QED
    BY <2>1, CacheFields
<1>4. x.cache \cup {k} \in SUBSET Keys /\ x.nbytes + Size(e) \in Int
  BY <1>1, CacheFields, SizeIsNat
<1>5. y \in Caches /\ y.ll = <<e>> \o x.ll /\ y.cache = x.cache \cup {k}
      /\ y.nbytes = x.nbytes + Size(e) /\ y.maxBytes = x.maxBytes
  BY <1>2, <1>3, <1>4 DEF Caches
<1> QED
  BY <1>1, <1>5 DEF Pushed, e, y

LEMMA GetWellFormed ==
  ASSUME NEW x, WellFormed(x), NEW k \in x.cache
  PROVE  WellFormed(Get(x, k))
BY GetMoves, MovedWellFormed, LookupFacts

LEMMA PutWellFormed ==
  ASSUME NEW x, WellFormed(x), NEW k \in Keys, NEW v \in Values
  PROVE  WellFormed(Put(x, k, v)) /\ Put(x, k, v).maxBytes = x.maxBytes
<1>1. Entry(k, v) \in Entries /\ Entry(k, v).key = k /\ x \in Caches
  BY DEF Entry, Entries, WellFormed
<1>2. CASE k \in x.cache
  BY <1>1, <1>2, PutMoves, MovedWellFormed
<1>3. CASE k \notin x.cache
  BY <1>1, <1>3, PutPushes, PushedWellFormed
<1> QED
  BY <1>2, <1>3
-----------------------------------------------------------------------------
(* Add's loop                                                              *)

\* The caches the loop goes through: x, and each the one before it without its
\* oldest entry.
Removals(x) ==
  CHOOSE A : A = [n \in 0..Len(x.ll) |-> IF n = 0 THEN x ELSE RemoveOldest(A[n - 1])]

LEMMA RemoveOldestIsCache == \A y \in Caches : RemoveOldest(y) \in Caches
<1> SUFFICES ASSUME NEW y \in Caches
             PROVE  RemoveOldest(y) \in Caches
  OBVIOUS
<1>1. CASE y.ll = <<>>
  BY <1>1 DEF RemoveOldest
<1>2. CASE y.ll # <<>>
  BY <1>2, RemoveOldestFacts
<1> QED
  BY <1>1, <1>2

LEMMA RemovalsFacts ==
  ASSUME NEW x \in Caches
  PROVE  /\ Len(x.ll) \in Nat
         /\ Removals(x)[0] = x
         /\ \A i \in 1..Len(x.ll) : Removals(x)[i] = RemoveOldest(Removals(x)[i - 1])
<1> DEFINE N == Len(x.ll)
           Is(A) == A = [n \in 0..N |-> IF n = 0 THEN x ELSE RemoveOldest(A[n - 1])]
           F == [y \in Caches |-> RemoveOldest(y)]
<1>1. N \in Nat
  BY CacheFields
<1>2. F \in [Caches -> Caches]
  BY RemoveOldestIsCache
<1> HIDE DEF F
<1>3. PICK g \in [0..N -> Caches] : g[0] = x /\ \A i \in 1..N : g[i] = F[g[i - 1]]
  <2> HIDE DEF N
  <2>1. HasIterates(Caches, x, F, N)
    BY <1>1, <1>2, Iterates
  <2> QED
    BY <2>1, Zenon DEF HasIterates
<1>4. \A i \in 0..N : g[i] = IF i = 0 THEN x ELSE RemoveOldest(g[i - 1])
  <2>1. \A i \in 0..N : i # 0 => i \in 1..N /\ i - 1 \in 0..N
    BY <1>1
  <2>2. \A i \in 1..N : i - 1 \in 0..N
    BY <1>1
  <2>3. \A i \in 1..N : g[i - 1] \in Caches
    BY <1>3, <2>2
  <2>4. \A i \in 1..N : F[g[i - 1]] = RemoveOldest(g[i - 1])
    BY <2>3, Zenon DEF F
  <2> SUFFICES ASSUME NEW i \in 0..N
               PROVE  g[i] = IF i = 0 THEN x ELSE RemoveOldest(g[i - 1])
    BY Zenon
  <2>5. CASE i = 0
    BY <1>3, <2>5, Zenon
  <2>6. CASE i # 0
    <3>1. i \in 1..N
      BY <2>1, <2>6
    <3> QED
      BY <1>3, <2>4, <2>6, <3>1, Zenon
  <2> QED
    BY <2>5, <2>6
<1>5. Is(g)
  BY <1>3, <1>4, Zenon
<1>6. Is(CHOOSE A : Is(A))
  <2> HIDE DEF Is
  <2> QED
    BY <1>5
<1>7. Is(Removals(x))
  BY <1>6 DEF Removals
<1> DEFINE A == Removals(x)
<1> HIDE DEF A
<1>8. A[0] = x /\ \A i \in 1..N : A[i] = RemoveOldest(A[i - 1])
  <2>1. A = [n \in 0..N |-> IF n = 0 THEN x ELSE RemoveOldest(A[n - 1])]
    BY <1>7, Zenon DEF A
  <2>2. \A n \in 0..N : A[n] = IF n = 0 THEN x ELSE RemoveOldest(A[n - 1])
    BY <2>1, Zenon
  <2>3. 0 \in 0..N /\ \A i \in 1..N : i \in 0..N /\ i # 0
    BY <1>1
  <2> QED
    BY <2>2, <2>3, Zenon
<1> QED
  BY <1>1, <1>8, Zenon DEF A

\* What RemoveOldest keeps, every cache of the loop has.
LEMMA RemovalsKeep ==
  ASSUME NEW x \in Caches, NEW T, x \in T,
         \A y \in T : RemoveOldest(y) \in T
  PROVE  \A i \in 0..Len(x.ll) : Removals(x)[i] \in T
<1> DEFINE N == Len(x.ll)
           A == Removals(x)
           In == {i \in 0..N : A[i] \in T}
<1>1. N \in Nat /\ A[0] = x /\ \A i \in 1..N : A[i] = RemoveOldest(A[i - 1])
  BY RemovalsFacts
<1> HIDE DEF A, N
<1>2. 0 \in In
  BY <1>1
<1>3. \A i \in 1..N : i - 1 \in In => i \in In
  BY <1>1
<1>4. \A i \in 0..N : i \in In
  <2> HIDE DEF In
  <2> QED
    BY <1>1, <1>2, <1>3, Induction
<1> QED
  BY <1>4 DEF A, N

LEMMA RemovalsShrink ==
  ASSUME NEW x \in Caches
  PROVE  \A i \in 0..Len(x.ll) : Removals(x)[i] \in Caches /\ Len(Removals(x)[i].ll) = Len(x.ll) - i
<1> DEFINE N == Len(x.ll)
           A == Removals(x)
           In == {i \in 0..N : Len(A[i].ll) = N - i}
<1>1. N \in Nat /\ A[0] = x /\ \A i \in 1..N : A[i] = RemoveOldest(A[i - 1])
  BY RemovalsFacts
<1>2. \A i \in 0..N : A[i] \in Caches
  BY RemovalsKeep, RemoveOldestIsCache
<1>3. 0 \in In
  BY <1>1
<1> HIDE DEF A, N
<1>4. ASSUME NEW i \in 1..N, i - 1 \in In
      PROVE  i \in In
  <2>1. i - 1 \in 0..N /\ i \in 0..N /\ Len(A[i - 1].ll) = N - (i - 1) /\ N - (i - 1) > 0
    BY <1>1, <1>4
  <2>2. A[i - 1].ll # <<>>
    <3>1. Len(<<>>) = 0
      OBVIOUS
    <3> QED
      BY <1>1, <2>1, <3>1
  <2>3. Len(A[i].ll) = Len(A[i - 1].ll) - 1
    BY <1>1, <1>2, <2>1, <2>2, RemoveOldestFacts
  <2>4. Len(A[i].ll) = N - i
    BY <1>1, <2>1, <2>3
  <2> QED
    BY <2>1, <2>4
<1>5. \A i \in 0..N : i \in In
  <2> HIDE DEF In
  <2> QED
    BY <1>1, <1>3, <1>4, Induction DEF N
<1> QED
  BY <1>2, <1>5 DEF A, N

\* Where the loop ends.
Ended(x, n) == n = Len(x.ll) \/ ~OverBudget(Removals(x)[n])

LEMMA TrimEnds ==
  ASSUME NEW x \in Caches
  PROVE  \E n \in 0..Len(x.ll) : /\ Trim(x) = Removals(x)[n]
                                 /\ Ended(x, n)
                                 /\ \A i \in 0..(n - 1) : ~Ended(x, i)
<1> DEFINE First(n) == Ended(x, n) /\ \A i \in 0..(n - 1) : ~Ended(x, i)
           T == {n \in 0..Len(x.ll) : Ended(x, n)}
<1>1. Trim(x) = Removals(x)[CHOOSE n \in 0..Len(x.ll) : First(n)]
  BY DEF Trim, Removals, Ended
<1>2. Len(x.ll) \in Nat
  BY CacheFields
<1>3. Len(x.ll) \in 0..Len(x.ll) /\ Len(x.ll) \in T
  BY <1>2 DEF Ended
<1>4. PICK n \in 0..Len(x.ll) : n \in T /\ \A i \in 0..(n - 1) : i \notin T
  <2> HIDE DEF T
  <2> QED
    BY <1>2, <1>3, LeastOf
<1>5. \A i \in 0..(n - 1) : i \in 0..Len(x.ll)
  BY <1>2
<1>6. First(n)
  BY <1>4, <1>5
<1> HIDE DEF First
<1>7. PICK m \in 0..Len(x.ll) : m = (CHOOSE h \in 0..Len(x.ll) : First(h)) /\ First(m)
  BY <1>6
<1> QED
  BY <1>1, <1>7 DEF First

\* What RemoveOldest keeps, Add's loop keeps.
LEMMA TrimKeeps ==
  ASSUME NEW x \in Caches, NEW T, x \in T,
         \A y \in T : RemoveOldest(y) \in T
  PROVE  Trim(x) \in T
<1>1. \A i \in 0..Len(x.ll) : Removals(x)[i] \in T
  BY RemovalsKeep
<1> QED
  BY <1>1, TrimEnds

LEMMA TrimWellFormed ==
  ASSUME NEW x, WellFormed(x)
  PROVE  WellFormed(Trim(x)) /\ Trim(x).maxBytes = x.maxBytes
<1> DEFINE T == {y \in Caches : WellFormed(y) /\ y.maxBytes = x.maxBytes}
<1>1. x \in Caches /\ x \in T
  BY DEF WellFormed
<1>2. \A y \in T : RemoveOldest(y) \in T
  <2> SUFFICES ASSUME NEW y \in T
               PROVE  RemoveOldest(y) \in T
    OBVIOUS
  <2>1. RemoveOldest(y) \in Caches /\ WellFormed(RemoveOldest(y))
    BY RemoveOldestWellFormed, RemoveOldestIsCache
  <2>2. RemoveOldest(y).maxBytes = y.maxBytes
    BY RemoveOldestFacts DEF RemoveOldest
  <2> QED
    BY <2>1, <2>2
<1> HIDE DEF T
<1>3. Trim(x) \in T
  BY <1>1, <1>2, TrimKeeps
<1> QED
  BY <1>3 DEF T

\* Add never returns over its budget.
LEMMA TrimWithin ==
  ASSUME NEW x, WellFormed(x)
  PROVE  ~OverBudget(Trim(x))
<1> DEFINE N == Len(x.ll)
<1>1. x \in Caches /\ N \in Nat
  BY CacheFields DEF WellFormed
<1>2. PICK n \in 0..N : Trim(x) = Removals(x)[n] /\ Ended(x, n)
  BY <1>1, TrimEnds
<1>3. CASE n = N
  <2>1. Trim(x) \in Caches /\ Len(Trim(x).ll) = 0
    BY <1>1, <1>2, <1>3, RemovalsShrink
  <2>2. Trim(x).ll = <<>>
    BY <2>1, CacheFields, EmptySeq
  <2>3. Trim(x).nbytes = 0 /\ Trim(x).maxBytes \in Nat
    BY <2>1, <2>2, TrimWellFormed, CountIsNat, CacheFields
  <2> QED
    BY <2>3 DEF OverBudget
<1>4. CASE n # N
  BY <1>2, <1>4 DEF Ended
<1> QED
  BY <1>3, <1>4

LEMMA TrimOfWithin ==
  ASSUME NEW x \in Caches, ~OverBudget(x)
  PROVE  Trim(x) = x
<1>1. PICK n \in 0..Len(x.ll) : Trim(x) = Removals(x)[n] /\ \A i \in 0..(n - 1) : ~Ended(x, i)
  BY TrimEnds
<1>2. Len(x.ll) \in Nat /\ Removals(x)[0] = x
  BY RemovalsFacts
<1>3. Ended(x, 0)
  BY <1>2 DEF Ended
<1>4. n = 0
  BY <1>1, <1>2, <1>3
<1> QED
  BY <1>1, <1>2, <1>4

\* An iteration of the loop does not change what the loop ends with.
LEMMA TrimAfterOne ==
  ASSUME NEW x \in Caches, OverBudget(x), x.ll # <<>>
  PROVE  Trim(RemoveOldest(x)) = Trim(x)
<1> DEFINE N == Len(x.ll)
           y == RemoveOldest(x)
           A == Removals(x)
           B == Removals(y)
           In == {i \in 0..(N - 1) : B[i] = A[i + 1]}
<1>1. N \in Nat \ {0} /\ y \in Caches /\ Len(y.ll) = N - 1
  BY RemoveOldestFacts
<1>2. A[0] = x /\ \A i \in 1..N : A[i] = RemoveOldest(A[i - 1])
  BY RemovalsFacts
<1>3. B[0] = y /\ \A i \in 1..(N - 1) : B[i] = RemoveOldest(B[i - 1])
  BY <1>1, RemovalsFacts
<1>4. PICK n \in 0..N : /\ Trim(x) = A[n] /\ Ended(x, n)
                        /\ \A i \in 0..(n - 1) : ~Ended(x, i)
  BY TrimEnds
<1>5. PICK m \in 0..(N - 1) : /\ Trim(y) = B[m] /\ Ended(y, m)
                              /\ \A i \in 0..(m - 1) : ~Ended(y, i)
  BY <1>1, TrimEnds
<1>6. A[1] = RemoveOldest(A[1 - 1]) /\ 1 - 1 = 0
  BY <1>1, <1>2
<1>7. B[0] = A[1]
  BY <1>2, <1>3, <1>6
<1>8. /\ ~Ended(x, 0)
      /\ \A i \in 0..N : Ended(x, i) <=> i = N \/ ~OverBudget(A[i])
      /\ \A i \in 0..(N - 1) : Ended(y, i) <=> i = N - 1 \/ ~OverBudget(B[i])
  BY <1>1, <1>2 DEF Ended
<1> HIDE DEF A, B, N, y
<1>9. \A i \in 0..(N - 1) : B[i] = A[i + 1]
  <2>1. 0 \in In
    BY <1>1, <1>7
  <2>2. ASSUME NEW i \in 1..(N - 1), i - 1 \in In
        PROVE  i \in In
    <3>1. i \in 0..(N - 1) /\ i + 1 \in 1..N /\ (i + 1) - 1 = i /\ (i - 1) + 1 = i
      BY <1>1
    <3>2. B[i] = RemoveOldest(B[i - 1]) /\ A[i + 1] = RemoveOldest(A[(i + 1) - 1])
      BY <1>2, <1>3, <3>1
    <3>3. B[i - 1] = A[(i - 1) + 1]
      BY <2>2
    <3> QED
      BY <3>1, <3>2, <3>3
  <2>3. \A i \in 0..(N - 1) : i \in In
    <3>1. N - 1 \in Nat
      BY <1>1
    <3> HIDE DEF In
    <3> QED
      BY <2>1, <2>2, <3>1, Induction
  <2> QED
    BY <2>3
<1>10. \A i \in 0..(N - 1) : Ended(y, i) <=> Ended(x, i + 1)
  <2> SUFFICES ASSUME NEW i \in 0..(N - 1)
               PROVE  Ended(y, i) <=> Ended(x, i + 1)
    OBVIOUS
  <2>1. i + 1 \in 0..N /\ (i = N - 1 <=> i + 1 = N)
    BY <1>1
  <2>2. B[i] = A[i + 1]
    BY <1>9
  <2> QED
    BY <1>8, <2>1, <2>2
<1>11. n # 0
  BY <1>4, <1>8
<1>12. ~(m + 1 < n)
  <2> SUFFICES ASSUME m + 1 < n PROVE FALSE
    OBVIOUS
  <2>1. m + 1 \in 0..(n - 1)
    BY <1>1
  <2> QED
    BY <1>4, <1>5, <1>10, <2>1
<1>13. ~(n < m + 1)
  <2> SUFFICES ASSUME n < m + 1 PROVE FALSE
    OBVIOUS
  <2>1. n - 1 \in 0..(m - 1) /\ n - 1 \in 0..(N - 1) /\ (n - 1) + 1 = n
    BY <1>1, <1>11
  <2> QED
    BY <1>4, <1>5, <1>10, <2>1
<1>14. n = m + 1
  BY <1>1, <1>12, <1>13
<1> QED
  BY <1>4, <1>5, <1>9, <1>14 DEF y
-----------------------------------------------------------------------------
(* What is found afterwards                                                *)

LEMMA LookupOf ==
  ASSUME NEW x, WellFormed(x), NEW i \in 1..Len(x.ll)
  PROVE  x.ll[i].key \in x.cache /\ Lookup(x, x.ll[i].key) = x.ll[i].value
<1>1. x.ll[i].key \in x.cache
  BY DEF WellFormed, Mapped
<1>2. i = Position(x, x.ll[i].key)
  BY <1>1, PositionFacts
<1> QED
  BY <1>1, <1>2 DEF Lookup

\* In y, k has v, and the other keys have what they have in x.
Updated(x, y, k, v) ==
  \A h \in y.cache : /\ h = k => Lookup(y, h) = v
                     /\ h # k => h \in x.cache /\ Lookup(y, h) = Lookup(x, h)

\* y has some of the keys of x, and for them what x has.
Within(x, y) == \A h \in y.cache : h \in x.cache /\ Lookup(y, h) = Lookup(x, h)

LEMMA MovedLooksUp ==
  ASSUME NEW x, WellFormed(x), NEW k \in x.cache, NEW e \in Entries, e.key = k,
         NEW y, Moved(x, y, k, e)
  PROVE  Updated(x, y, k, e.value)
<1> DEFINE N == Len(x.ll)
           p == Position(x, k)
<1>1. /\ p \in 1..N /\ N \in Nat /\ x.ll[p].key = k
      /\ Len(y.ll) = N
      /\ y.ll[1] = e
      /\ \A i \in 2..p : y.ll[i] = x.ll[i - 1]
      /\ \A i \in (p + 1)..N : y.ll[i] = x.ll[i]
  <2>1. Relisted(x, y, p, e)
    BY MovedList
  <2> QED
    BY <2>1, PositionFacts DEF Relisted
<1>2. WellFormed(y)
  BY MovedWellFormed
<1>3. \A i \in 1..N : x.ll[i].key = k => i = p
  BY PositionFacts
<1>4. ASSUME NEW h \in y.cache
      PROVE  /\ h = k => Lookup(y, h) = e.value
             /\ h # k => h \in x.cache /\ Lookup(y, h) = Lookup(x, h)
  <2> DEFINE j == Position(y, h)
  <2>1. j \in 1..N /\ y.ll[j].key = h /\ Lookup(y, h) = y.ll[j].value
    BY <1>1, <1>2, <1>4, PositionFacts DEF Lookup
  <2> HIDE DEF j, p, N
  <2>2. CASE j = 1
    BY <1>1, <2>1, <2>2
  <2>3. ASSUME NEW i \in 1..N, i # p, y.ll[j] = x.ll[i]
        PROVE  h # k /\ h \in x.cache /\ Lookup(y, h) = Lookup(x, h)
    <3>1. h # k
      BY <1>3, <2>1, <2>3
    <3>2. x.ll[i].key \in x.cache /\ Lookup(x, x.ll[i].key) = x.ll[i].value
      BY LookupOf DEF N
    <3> QED
      BY <2>1, <2>3, <3>1, <3>2
  <2>4. CASE j \in 2..p
    <3>1. j - 1 \in 1..N /\ j - 1 # p /\ y.ll[j] = x.ll[j - 1]
      BY <1>1, <2>4
    <3> QED
      BY <2>3, <3>1
  <2>5. CASE j \in (p + 1)..N
    <3>1. j \in 1..N /\ j # p /\ y.ll[j] = x.ll[j]
      BY <1>1, <2>5
    <3> QED
      BY <2>3, <3>1
  <2>6. j = 1 \/ j \in 2..p \/ j \in (p + 1)..N
    BY <1>1, <2>1
  <2> QED
    BY <2>2, <2>4, <2>5, <2>6, Zenon
<1> QED
  BY <1>4 DEF Updated

LEMMA PushedLooksUp ==
  ASSUME NEW x, WellFormed(x), NEW e \in Entries, e.key \notin x.cache,
         NEW y, Pushed(x, y, e)
  PROVE  Updated(x, y, e.key, e.value)
<1> DEFINE N == Len(x.ll)
<1>1. /\ N \in Nat /\ Len(y.ll) = N + 1 /\ y.ll[1] = e
      /\ \A i \in 1..N : y.ll[i + 1] = x.ll[i]
  BY PushedList DEF WellFormed
<1>2. WellFormed(y)
  BY PushedWellFormed
<1>3. ASSUME NEW h \in y.cache
      PROVE  /\ h = e.key => Lookup(y, h) = e.value
             /\ h # e.key => h \in x.cache /\ Lookup(y, h) = Lookup(x, h)
  <2> DEFINE j == Position(y, h)
  <2>1. j \in 1..(N + 1) /\ y.ll[j].key = h /\ Lookup(y, h) = y.ll[j].value
    BY <1>1, <1>2, <1>3, PositionFacts DEF Lookup
  <2> HIDE DEF j, N
  <2>2. CASE j = 1
    BY <1>1, <2>1, <2>2
  <2>3. CASE j # 1
    <3>1. j - 1 \in 1..N /\ (j - 1) + 1 = j
      BY <1>1, <2>1, <2>3
    <3>2. y.ll[j] = x.ll[j - 1]
      BY <1>1, <3>1
    <3>3. x.ll[j - 1].key \in x.cache /\ Lookup(x, x.ll[j - 1].key) = x.ll[j - 1].value
      BY <3>1, LookupOf DEF N
    <3> QED
      BY <2>1, <3>2, <3>3
  <2> QED
    BY <2>2, <2>3
<1> QED
  BY <1>3 DEF Updated

LEMMA RemoveOldestLooksUp ==
  ASSUME NEW x, WellFormed(x)
  PROVE  Within(x, RemoveOldest(x))
<1> DEFINE y == RemoveOldest(x)
<1>1. CASE x.ll = <<>>
  BY <1>1 DEF RemoveOldest, Within
<1>2. CASE x.ll # <<>>
  <2>1. x \in Caches /\ WellFormed(y)
    BY RemoveOldestWellFormed DEF WellFormed
  <2>2. /\ Len(x.ll) \in Nat \ {0} /\ Len(y.ll) = Len(x.ll) - 1
        /\ \A i \in 1..Len(y.ll) : y.ll[i] = x.ll[i]
    BY <1>2, <2>1, RemoveOldestFacts
  <2> HIDE DEF y
  <2>3. ASSUME NEW h \in y.cache
        PROVE  h \in x.cache /\ Lookup(y, h) = Lookup(x, h)
    <3> DEFINE j == Position(y, h)
    <3>1. j \in 1..Len(y.ll) /\ y.ll[j].key = h /\ Lookup(y, h) = y.ll[j].value
      BY <2>1, <2>3, PositionFacts DEF Lookup
    <3> HIDE DEF j
    <3>2. j \in 1..Len(x.ll) /\ y.ll[j] = x.ll[j]
      BY <2>2, <3>1
    <3>3. x.ll[j].key \in x.cache /\ Lookup(x, x.ll[j].key) = x.ll[j].value
      BY <3>2, LookupOf
    <3> QED
      BY <3>1, <3>2, <3>3
  <2> QED
    BY <2>3 DEF Within, y
<1> QED
  BY <1>1, <1>2

LEMMA TrimLooksUp ==
  ASSUME NEW x, WellFormed(x)
  PROVE  Within(x, Trim(x))
<1> DEFINE T == {y \in Caches : WellFormed(y) /\ Within(x, y)}
<1>1. x \in Caches /\ x \in T
  BY DEF WellFormed, Within
<1>2. \A y \in T : RemoveOldest(y) \in T
  <2> SUFFICES ASSUME NEW y \in T
               PROVE  RemoveOldest(y) \in T
    OBVIOUS
  <2>1. RemoveOldest(y) \in Caches /\ WellFormed(RemoveOldest(y))
    BY RemoveOldestWellFormed, RemoveOldestIsCache
  <2>2. Within(y, RemoveOldest(y))
    BY RemoveOldestLooksUp
  <2>3. Within(x, RemoveOldest(y))
    BY <2>2 DEF Within
  <2> QED
    BY <2>1, <2>3
<1> HIDE DEF T
<1>3. Trim(x) \in T
  BY <1>1, <1>2, TrimKeeps
<1> QED
  BY <1>3 DEF T

\* What Get and Add leave in the cache, and what is found there then.
LEMMA GetFacts ==
  ASSUME NEW x, WellFormed(x), NEW k \in x.cache
  PROVE  /\ WellFormed(Get(x, k))
         /\ Get(x, k).maxBytes = x.maxBytes /\ Get(x, k).nbytes = x.nbytes
         /\ Get(x, k).cache = x.cache
         /\ \A h \in x.cache : Lookup(Get(x, k), h) = Lookup(x, h)
<1> DEFINE e == x.ll[Position(x, k)]
           y == Get(x, k)
<1>1. Moved(x, y, k, e) /\ y.maxBytes = x.maxBytes /\ WellFormed(y)
  BY GetMoves, GetWellFormed
<1>2. e \in Entries /\ e.key = k /\ Lookup(x, k) = e.value
  BY LookupFacts
<1>3. y.nbytes = x.nbytes
  BY DEF Get, Touch, WellFormed, Caches
<1> HIDE DEF e, y
<1>4. Updated(x, y, k, e.value) /\ y.cache = x.cache
  BY <1>1, <1>2, MovedLooksUp DEF Moved
<1>5. \A h \in x.cache : Lookup(y, h) = Lookup(x, h)
  BY <1>2, <1>4 DEF Updated
<1> QED
  BY <1>1, <1>3, <1>4, <1>5 DEF y

LEMMA AddFacts ==
  ASSUME NEW x, WellFormed(x), NEW k \in Keys, NEW v \in Values
  PROVE  /\ WellFormed(Add(x, k, v))
         /\ Add(x, k, v).maxBytes = x.maxBytes
         /\ ~OverBudget(Add(x, k, v))
         /\ Updated(x, Add(x, k, v), k, v)
<1> DEFINE e == Entry(k, v)
           y == Put(x, k, v)
<1>1. e \in Entries /\ e.key = k /\ e.value = v /\ x \in Caches
  BY DEF Entry, Entries, WellFormed
<1>2. WellFormed(y) /\ y.maxBytes = x.maxBytes
  BY PutWellFormed
<1>3. Updated(x, y, k, v)
  <2>1. CASE k \in x.cache
    BY <1>1, <2>1, PutMoves, MovedLooksUp
  <2>2. CASE k \notin x.cache
    BY <1>1, <2>2, PutPushes, PushedLooksUp
  <2> QED
    BY <2>1, <2>2
<1> HIDE DEF y
<1>4. /\ WellFormed(Trim(y)) /\ Trim(y).maxBytes = y.maxBytes
      /\ ~OverBudget(Trim(y)) /\ Within(y, Trim(y))
  BY <1>2, TrimWellFormed, TrimWithin, TrimLooksUp
<1>5. Updated(x, Trim(y), k, v)
  BY <1>3, <1>4 DEF Updated, Within
<1> QED
  BY <1>2, <1>4, <1>5 DEF Add, y
-----------------------------------------------------------------------------
(* The order of use                                                        *)

LEMMA RemoveFirstFacts ==
  ASSUME NEW S, NEW s \in Seq(S), NEW e
  PROVE  \/ /\ \A i \in 1..Len(s) : s[i] # e
            /\ RemoveFirst(s, e) = s
         \/ \E q \in 1..Len(s) : /\ s[q] = e
                                 /\ \A i \in 1..(q - 1) : s[i] # e
                                 /\ RemoveFirst(s, e) = RemoveAt(s, q)
<1> DEFINE I == {i \in 1..Len(s) : s[i] = e}
<1>1. CASE I = {}
  <2>1. \A i \in 1..Len(s) : s[i] # e
    BY <1>1
  <2> QED
    BY <2>1 DEF RemoveFirst
<1>2. CASE I # {}
  <2>1. Len(s) \in Nat /\ I \in SUBSET Nat
    OBVIOUS
  <2>2. \E q \in I : \A i \in I : q <= i
    BY <1>2, <2>1, Least
  <2>3. Min(I) \in I /\ \A i \in I : Min(I) <= i
    BY <2>2 DEF Min
  <2>4. RemoveFirst(s, e) = RemoveAt(s, Min(I))
    <3>1. \E i \in 1..Len(s) : s[i] = e
      BY <1>2
    <3>2. SelectInSeq(s, LAMBDA v : v = e) = Min(I)
      BY <1>2 DEF SelectInSeq
    <3> QED
      BY <3>1, <3>2, Zenon DEF RemoveFirst
  <2> DEFINE q == Min(I)
  <2>5. q \in 1..Len(s) /\ s[q] = e
    BY <2>3
  <2>6. \A i \in 1..(q - 1) : s[i] # e
    BY <2>1, <2>3, <2>5
  <2> QED
    BY <2>4, <2>5, <2>6
<1> QED
  BY <1>1, <1>2

\* A key that is used goes to the front of the order of use: what becomes of
\* the first n, of which it is one or not.
Used(r, k, n, t) ==
  /\ t \in Seq(Keys) /\ t[1] = k
  /\ (\A i \in 1..n : r[i] # k) =>
        n + 1 <= Len(t) /\ \A i \in 1..n : t[i + 1] = r[i]
  /\ \A p \in 1..n : r[p] = k /\ (\A i \in 1..n : r[i] = k => i = p) =>
        /\ Len(t) = Len(r)
        /\ \A i \in 2..p : t[i] = r[i - 1]
        /\ \A i \in (p + 1)..n : t[i] = r[i]

LEMMA UseFacts ==
  ASSUME NEW r \in Seq(Keys), NEW k \in Keys, NEW n \in Nat, n <= Len(r),
         NEW t, t = <<k>> \o RemoveFirst(r, k)
  PROVE  Used(r, k, n, t)
<1>1. Len(r) \in Nat
  OBVIOUS
<1>2. ASSUME (\A i \in 1..Len(r) : r[i] # k) /\ RemoveFirst(r, k) = r
      PROVE  Used(r, k, n, t)
  <2>1. t = <<k>> \o r
    BY <1>2
  <2>2. /\ t \in Seq(Keys) /\ Len(t) = Len(r) + 1 /\ t[1] = k
        /\ \A i \in 1..Len(r) : t[i + 1] = r[i]
    <3>1. \A s \in Seq(Keys) : \A u : u = <<k>> \o s =>
            /\ u \in Seq(Keys) /\ Len(u) = Len(s) + 1 /\ u[1] = k
            /\ \A i \in 1..Len(s) : u[i + 1] = s[i]
      BY PushFront
    <3> QED
      BY <2>1, <3>1
  <2> QED
    BY <1>1, <1>2, <2>2 DEF Used
<1>3. ASSUME NEW q \in 1..Len(r), r[q] = k, \A i \in 1..(q - 1) : r[i] # k,
             RemoveFirst(r, k) = RemoveAt(r, q)
      PROVE  Used(r, k, n, t)
  <2>1. t = <<k>> \o RemoveAt(r, q)
    BY <1>3
  <2>2. /\ t \in Seq(Keys) /\ Len(t) = Len(r) /\ t[1] = k
        /\ \A i \in 2..q : t[i] = r[i - 1]
        /\ \A i \in (q + 1)..Len(r) : t[i] = r[i]
    <3>1. InFront(Keys, r, q, k, t)
      BY <2>1, MoveToFront
    <3> QED
      BY <3>1 DEF InFront
  <2>3. ASSUME \A i \in 1..n : r[i] # k
        PROVE  n + 1 <= Len(t) /\ \A i \in 1..n : t[i + 1] = r[i]
    <3>1. n < q
      BY <1>1, <1>3, <2>3
    <3>2. \A i \in 1..n : i + 1 \in 2..q /\ (i + 1) - 1 = i
      BY <1>1, <3>1
    <3> QED
      BY <1>1, <2>2, <3>1, <3>2
  <2>4. ASSUME NEW p \in 1..n, r[p] = k, \A i \in 1..n : r[i] = k => i = p
        PROVE  /\ Len(t) = Len(r)
               /\ \A i \in 2..p : t[i] = r[i - 1]
               /\ \A i \in (p + 1)..n : t[i] = r[i]
    <3>1. q <= p
      BY <1>1, <1>3, <2>4
    <3>2. q \in 1..n
      BY <1>1, <3>1
    <3>3. q = p
      BY <1>3, <2>4, <3>2
    <3> QED
      BY <1>1, <2>2, <3>3
  <2> QED
    BY <2>2, <2>3, <2>4 DEF Used
<1> QED
  BY <1>2, <1>3, RemoveFirstFacts, Zenon

\* RecentlyUsed of any cache, order of use and last values.
Recent(x, r, l) ==
  /\ Len(x.ll) <= Len(r)
  /\ \A i \in 1..Len(x.ll) : x.ll[i].key = r[i] /\ x.ll[i].value = l[r[i]]

LEMMA MovedRecent ==
  ASSUME NEW x, WellFormed(x), NEW k \in x.cache, NEW e \in Entries, e.key = k,
         NEW y, Moved(x, y, k, e),
         NEW r \in Seq(Keys), NEW l \in [Keys -> Values \cup {Missing}], Recent(x, r, l),
         NEW t, t = <<k>> \o RemoveFirst(r, k)
  PROVE  Recent(y, t, [l EXCEPT ![k] = e.value]) /\ t \in Seq(Keys)
<1> DEFINE N == Len(x.ll)
           p == Position(x, k)
           m == [l EXCEPT ![k] = e.value]
<1>1. /\ p \in 1..N /\ N \in Nat /\ x.ll[p].key = k
      /\ Len(y.ll) = N
      /\ y.ll[1] = e
      /\ \A i \in 2..p : y.ll[i] = x.ll[i - 1]
      /\ \A i \in (p + 1)..N : y.ll[i] = x.ll[i]
  <2>1. Relisted(x, y, p, e)
    BY MovedList
  <2> QED
    BY <2>1, PositionFacts DEF Relisted
<1>2. /\ N <= Len(r) /\ Len(r) \in Nat
      /\ \A i \in 1..N : x.ll[i].key = r[i] /\ x.ll[i].value = l[r[i]]
  BY DEF Recent
<1>3. \A i \in 1..N : x.ll[i].key = k => i = p
  BY PositionFacts
<1>4. k \in Keys /\ \A i \in 1..Len(r) : r[i] \in Keys
  BY CacheFields, ElementOfSeq DEF WellFormed
<1> HIDE DEF N, p
<1>5. r[p] = k /\ \A i \in 1..N : r[i] = k => i = p
  BY <1>1, <1>2, <1>3
<1>6. /\ t \in Seq(Keys) /\ t[1] = k /\ Len(t) = Len(r)
      /\ \A i \in 2..p : t[i] = r[i - 1]
      /\ \A i \in (p + 1)..N : t[i] = r[i]
  <2>1. Used(r, k, N, t)
    BY <1>1, <1>2, <1>4, UseFacts
  <2> QED
    BY <1>1, <1>5, <2>1 DEF Used
<1>7. m[k] = e.value /\ \A h \in Keys : h # k => m[h] = l[h]
  BY <1>4
<1> HIDE DEF m
<1>8. ASSUME NEW i \in 1..N
      PROVE  y.ll[i].key = t[i] /\ y.ll[i].value = m[t[i]]
  <2>1. CASE i = 1
    BY <1>1, <1>6, <1>7, <2>1
  <2>2. CASE i \in 2..p
    <3>1. i - 1 \in 1..N /\ i - 1 # p /\ i - 1 \in 1..Len(r)
      BY <1>1, <1>2, <2>2
    <3>2. r[i - 1] # k /\ r[i - 1] \in Keys
      BY <1>4, <1>5, <3>1
    <3>3. y.ll[i] = x.ll[i - 1] /\ t[i] = r[i - 1]
      BY <1>1, <1>6, <2>2
    <3>4. x.ll[i - 1].key = r[i - 1] /\ x.ll[i - 1].value = l[r[i - 1]]
      BY <1>2, <3>1
    <3>5. m[r[i - 1]] = l[r[i - 1]]
      BY <1>7, <3>2
    <3> QED
      BY <3>3, <3>4, <3>5, Zenon
  <2>3. CASE i \in (p + 1)..N
    <3>1. i # p /\ i \in 1..Len(r)
      BY <1>1, <1>2, <2>3
    <3>2. r[i] # k /\ r[i] \in Keys
      BY <1>4, <1>5, <3>1
    <3>3. y.ll[i] = x.ll[i] /\ t[i] = r[i]
      BY <1>1, <1>6, <2>3
    <3>4. x.ll[i].key = r[i] /\ x.ll[i].value = l[r[i]]
      BY <1>2
    <3>5. m[r[i]] = l[r[i]]
      BY <1>7, <3>2
    <3> QED
      BY <3>3, <3>4, <3>5, Zenon
  <2>4. i = 1 \/ i \in 2..p \/ i \in (p + 1)..N
    BY <1>1
  <2> QED
    BY <2>1, <2>2, <2>3, <2>4, Zenon
<1> QED
  BY <1>1, <1>2, <1>6, <1>8 DEF Recent, m

LEMMA PushedRecent ==
  ASSUME NEW x, WellFormed(x), NEW e \in Entries, e.key \notin x.cache,
         NEW y, Pushed(x, y, e),
         NEW r \in Seq(Keys), NEW l \in [Keys -> Values \cup {Missing}], Recent(x, r, l),
         NEW t, t = <<e.key>> \o RemoveFirst(r, e.key)
  PROVE  Recent(y, t, [l EXCEPT ![e.key] = e.value]) /\ t \in Seq(Keys)
<1> DEFINE N == Len(x.ll)
           k == e.key
           m == [l EXCEPT ![k] = e.value]
<1>1. x \in Caches
  BY DEF WellFormed
<1>2. /\ N \in Nat /\ Len(y.ll) = N + 1 /\ y.ll[1] = e
      /\ \A i \in 1..N : y.ll[i + 1] = x.ll[i]
  BY <1>1, PushedList
<1>3. /\ N <= Len(r) /\ Len(r) \in Nat
      /\ \A i \in 1..N : x.ll[i].key = r[i] /\ x.ll[i].value = l[r[i]]
  BY DEF Recent
<1>4. ASSUME NEW i \in 1..N
      PROVE  r[i] # k
  <2>1. x.ll[i].key \in x.cache
    BY DEF WellFormed, Mapped
  <2> QED
    BY <1>3, <2>1
<1>5. k \in Keys /\ \A i \in 1..Len(r) : r[i] \in Keys
  BY ElementOfSeq DEF Entries
<1> HIDE DEF N, k
<1>6. /\ t \in Seq(Keys) /\ t[1] = k /\ N + 1 <= Len(t)
      /\ \A i \in 1..N : t[i + 1] = r[i]
  <2>1. t = <<k>> \o RemoveFirst(r, k)
    BY DEF k
  <2>2. Used(r, k, N, t)
    BY <1>2, <1>3, <1>5, <2>1, UseFacts
  <2> QED
    BY <1>4, <2>2 DEF Used
<1>7. m[k] = e.value /\ \A h \in Keys : h # k => m[h] = l[h]
  BY <1>5
<1> HIDE DEF m
<1>8. ASSUME NEW i \in 1..(N + 1)
      PROVE  y.ll[i].key = t[i] /\ y.ll[i].value = m[t[i]]
  <2>1. CASE i = 1
    BY <1>2, <1>6, <1>7, <2>1 DEF k
  <2>2. CASE i # 1
    <3>1. i - 1 \in 1..N /\ (i - 1) + 1 = i /\ i - 1 \in 1..Len(r)
      BY <1>2, <1>3, <2>2
    <3>2. y.ll[i] = x.ll[i - 1] /\ t[i] = r[i - 1]
      BY <1>2, <1>6, <3>1
    <3>3. r[i - 1] # k /\ r[i - 1] \in Keys
      BY <1>4, <1>5, <3>1
    <3>4. x.ll[i - 1].key = r[i - 1] /\ x.ll[i - 1].value = l[r[i - 1]]
      BY <1>3, <3>1
    <3>5. m[r[i - 1]] = l[r[i - 1]]
      BY <1>7, <3>3
    <3> QED
      BY <3>2, <3>4, <3>5
  <2> QED
    BY <2>1, <2>2
<1> QED
  BY <1>2, <1>6, <1>8 DEF Recent, m, k

LEMMA RemoveOldestRecent ==
  ASSUME NEW x \in Caches, NEW r, NEW l, Len(r) \in Nat, Recent(x, r, l)
  PROVE  Recent(RemoveOldest(x), r, l)
<1>1. CASE x.ll = <<>>
  BY <1>1 DEF RemoveOldest
<1>2. CASE x.ll # <<>>
  <2> DEFINE y == RemoveOldest(x)
  <2>1. Len(y.ll) = Len(x.ll) - 1 /\ \A i \in 1..(Len(x.ll) - 1) : y.ll[i] = x.ll[i]
    BY <1>2, RemoveOldestFacts
  <2>2. Len(x.ll) \in Nat
    BY CacheFields
  <2> HIDE DEF y
  <2>3. \A i \in 1..(Len(x.ll) - 1) : i \in 1..Len(x.ll)
    BY <2>2
  <2>4. Len(y.ll) <= Len(r)
    BY <2>1, <2>2 DEF Recent
  <2>5. \A i \in 1..Len(y.ll) : y.ll[i].key = r[i] /\ y.ll[i].value = l[r[i]]
    BY <2>1, <2>3 DEF Recent
  <2> QED
    BY <2>4, <2>5 DEF Recent, y
<1> QED
  BY <1>1, <1>2
-----------------------------------------------------------------------------
(* The machine                                                             *)

\* Between two steps the cache is well formed, its history is that of its
\* keys, and only inside Add is it ever over its budget.
Inv ==
  /\ WellFormed(c)
  /\ pc \in {"idle", "trim"}
  /\ pc = "idle" => ~OverBudget(c)
  /\ mirror = c.cache
  /\ recency \in Seq(Keys)
  /\ last \in [Keys -> Values \cup {Missing}]
  /\ Recent(c, recency, last)

LEMMA InitInv == Init => Inv
<1> SUFFICES ASSUME Init PROVE Inv
  OBVIOUS
<1>1. PICK b \in Budgets : c = NewCache(b)
  BY DEF Init
<1>2. b \in Nat
  BY LruAssumption
<1>3. WellFormed(c)
  BY <1>1, <1>2, NewCacheWellFormed
<1>4. c.ll = <<>> /\ c.cache = {} /\ c.nbytes = 0 /\ c.maxBytes \in Nat
  BY <1>1, <1>2 DEF NewCache
<1>5. recency = <<>> /\ recency \in Seq(Keys) /\ last \in [Keys -> Values \cup {Missing}]
      /\ pc = "idle" /\ mirror = {}
  BY DEF Init
<1>6. Recent(c, recency, last)
  BY <1>4, <1>5 DEF Recent
<1>7. ~OverBudget(c)
  BY <1>4 DEF OverBudget
<1> QED
  BY <1>3, <1>4, <1>5, <1>6, <1>7 DEF Inv

LEMMA GetHitInv == ASSUME Inv, NEW k \in Keys, GetHit(k) PROVE Inv'
<1> DEFINE e == c.ll[Position(c, k)]
<1>1. /\ k \in c.cache /\ c' = Get(c, k) /\ pc = "idle" /\ pc' = pc
      /\ mirror' = mirror /\ last' = last /\ recency' = <<k>> \o RemoveFirst(recency, k)
  BY DEF GetHit, Use
<1>2. WellFormed(c) /\ c \in Caches
  BY DEF Inv, WellFormed
<1>3. Moved(c, c', k, e) /\ c'.maxBytes = c.maxBytes /\ WellFormed(c')
  BY <1>1, <1>2, GetMoves, GetWellFormed
<1>4. e \in Entries /\ e.key = k /\ Position(c, k) \in 1..Len(c.ll)
  BY <1>1, <1>2, LookupFacts
<1>5. last[k] = e.value
  <2>1. Recent(c, recency, last)
    BY DEF Inv
  <2> QED
    BY <1>4, <2>1 DEF Recent
<1> HIDE DEF e
<1>6. [last EXCEPT ![k] = e.value] = last
  BY <1>5 DEF Inv
<1>7. Recent(c', recency', last') /\ recency' \in Seq(Keys)
  <2>1. Recent(c', recency', [last EXCEPT ![k] = e.value]) /\ recency' \in Seq(Keys)
    BY <1>1, <1>2, <1>3, <1>4, MovedRecent DEF Inv
  <2> QED
    BY <1>1, <1>6, <2>1
<1>8. c'.cache = c.cache /\ c'.nbytes = c.nbytes
  BY <1>1 DEF Get, Touch, Inv, WellFormed, Caches
<1>9. ~OverBudget(c')
  BY <1>1, <1>3, <1>8 DEF Inv, OverBudget
<1> QED
  BY <1>1, <1>3, <1>7, <1>8, <1>9 DEF Inv

LEMMA InsertInv == ASSUME Inv, NEW k \in Keys, NEW v \in Values, Insert(k, v) PROVE Inv'
<1> DEFINE e == Entry(k, v)
<1>1. /\ c' = Put(c, k, v) /\ pc' = "trim"
      /\ mirror' = mirror \cup {k} /\ last' = [last EXCEPT ![k] = v]
      /\ recency' = <<k>> \o RemoveFirst(recency, k)
  BY DEF Insert, Use
<1>2. WellFormed(c) /\ c \in Caches
  BY DEF Inv, WellFormed
<1>3. WellFormed(c')
  BY <1>1, <1>2, PutWellFormed
<1>4. e \in Entries /\ e.key = k /\ e.value = v
  BY DEF Entry, Entries
<1> HIDE DEF e
<1>5. c'.cache = c.cache \cup {k} /\ Recent(c', recency', last') /\ recency' \in Seq(Keys)
  <2>1. CASE k \in c.cache
    <3>1. Moved(c, c', k, e)
      BY <1>1, <1>2, <2>1, PutMoves DEF e
    <3>2. Recent(c', recency', [last EXCEPT ![k] = e.value]) /\ recency' \in Seq(Keys)
      BY <1>1, <1>2, <1>4, <2>1, <3>1, MovedRecent DEF Inv
    <3>3. c'.cache = c.cache \cup {k}
      BY <2>1, <3>1 DEF Moved
    <3> QED
      BY <1>1, <1>4, <3>2, <3>3
  <2>2. CASE k \notin c.cache
    <3>1. Pushed(c, c', e)
      BY <1>1, <1>2, <2>2, PutPushes DEF e
    <3>2. recency' = <<e.key>> \o RemoveFirst(recency, e.key)
      BY <1>1, <1>4
    <3>3. Recent(c', recency', [last EXCEPT ![e.key] = e.value]) /\ recency' \in Seq(Keys)
      BY <1>2, <1>4, <2>2, <3>1, <3>2, PushedRecent DEF Inv
    <3>4. c'.cache = c.cache \cup {k}
      BY <1>4, <3>1 DEF Pushed
    <3> QED
      BY <1>1, <1>4, <3>3, <3>4
  <2> QED
    BY <2>1, <2>2
<1>6. last' \in [Keys -> Values \cup {Missing}]
  BY <1>1 DEF Inv
<1> QED
  BY <1>1, <1>3, <1>5, <1>6 DEF Inv

LEMMA EvictInv == ASSUME Inv, Evict PROVE Inv'
<1>1. /\ c' = RemoveOldest(c) /\ pc' = pc /\ recency' = recency /\ last' = last
      /\ mirror' = IF c.ll = <<>> THEN mirror ELSE mirror \ {Oldest(c).key}
  BY DEF Evict
<1>2. WellFormed(c) /\ c \in Caches
  BY DEF Inv, WellFormed
<1>3. WellFormed(c')
  BY <1>1, <1>2, RemoveOldestWellFormed
<1>4. Recent(c', recency', last')
  <2>1. Recent(c, recency, last) /\ Len(recency) \in Nat
    BY DEF Inv
  <2> QED
    BY <1>1, <1>2, <2>1, RemoveOldestRecent
<1>5. mirror' = c'.cache /\ (~OverBudget(c) => ~OverBudget(c'))
  <2>1. CASE c.ll = <<>>
    BY <1>1, <2>1 DEF RemoveOldest, Inv
  <2>2. CASE c.ll # <<>>
    <3>1. /\ c'.maxBytes = c.maxBytes /\ Len(c.ll) \in Nat \ {0}
          /\ c'.cache = c.cache \ {Oldest(c).key}
          /\ c'.nbytes = c.nbytes - Size(Oldest(c))
      BY <1>1, <1>2, <2>2, RemoveOldestFacts DEF Oldest
    <3>2. Size(Oldest(c)) \in Nat /\ c.nbytes \in Int /\ c.maxBytes \in Nat
      BY <1>2, <3>1, CacheFields, SizeIsNat DEF Oldest
    <3>3. mirror' = c'.cache
      BY <1>1, <2>2, <3>1 DEF Inv
    <3>4. ~OverBudget(c) => ~OverBudget(c')
      BY <3>1, <3>2 DEF OverBudget
    <3> QED
      BY <3>3, <3>4
  <2> QED
    BY <2>1, <2>2
<1> QED
  BY <1>1, <1>3, <1>4, <1>5 DEF Inv

LEMMA NextInv == Inv /\ [Next]_vars => Inv'
<1> SUFFICES ASSUME Inv, [Next]_vars PROVE Inv'
  OBVIOUS
<1>1. ASSUME NEW k \in Keys, GetHit(k) PROVE Inv'
  BY <1>1, GetHitInv
<1>2. ASSUME NEW k \in Keys, NEW v \in Values, Insert(k, v) PROVE Inv'
  BY <1>2, InsertInv
<1>3. CASE TrimOne \/ CallRemoveOldest
  BY <1>3, EvictInv DEF TrimOne, CallRemoveOldest
<1>4. CASE AddReturns
  BY <1>4 DEF AddReturns, Inv
<1>5. CASE UNCHANGED vars
  BY <1>5 DEF vars, Inv
<1> QED
  BY <1>1, <1>2, <1>3, <1>4, <1>5 DEF Next

LEMMA Invariant == Spec => []Inv
BY InitInv, NextInv, PTL DEF Spec
-----------------------------------------------------------------------------
(* The sum and the number of the entries                                   *)

\* SizeOf is the last of any sums of the entries' sizes.
LEMMA SizeOfIsSum ==
  ASSUME NEW acc, Len(c.ll) \in Nat, \A i \in 1..Len(c.ll) : Size(c.ll[i]) \in Nat,
         Sums(acc, c.ll)
  PROVE  SizeOf = acc[Len(c.ll)]
<1> DEFINE N == Len(c.ll)
           Is(S) == S = [i \in 0..N |-> IF i = 0 THEN 0 ELSE S[i - 1] + Size(c.ll[i])]
           Sum == CHOOSE S : Is(S)
           T == {i \in 0..N : Sum[i] = acc[i]}
<1>1. SizeOf = Sum[N]
  BY DEF SizeOf
<1>2. /\ N \in Nat /\ acc \in [0..N -> Int] /\ acc[0] = 0
      /\ \A i \in 1..N : acc[i] = acc[i - 1] + Size(c.ll[i])
  BY DEF Sums
<1> HIDE DEF N
<1>3. Is(acc)
  <2>1. \A i \in 0..N : i = 0 \/ i \in 1..N
    BY <1>2
  <2>2. \A i \in 0..N : acc[i] = IF i = 0 THEN 0 ELSE acc[i - 1] + Size(c.ll[i])
    BY <1>2, <2>1
  <2> QED
    BY <1>2, <2>2
<1>4. Is(Sum)
  <2> HIDE DEF Is
  <2> QED
    BY <1>3
<1> HIDE DEF Sum
<1>5. Sum[0] = 0 /\ \A i \in 1..N : Sum[i] = Sum[i - 1] + Size(c.ll[i])
  BY <1>2, <1>4
<1>6. 0 \in T
  BY <1>2, <1>5
<1>7. \A i \in 1..N : i - 1 \in T => i \in T
  BY <1>2, <1>5
<1>8. N \in T
  <2> HIDE DEF T
  <2>1. \A i \in 0..N : i \in T
    BY <1>2, <1>6, <1>7, Induction
  <2> QED
    BY <1>2, <2>1
<1> QED
  BY <1>1, <1>8 DEF N

\* A list whose keys are distinct has as many keys as elements.
LEMMA KeysCounted ==
  ASSUME NEW x, WellFormed(x)
  PROVE  Cardinality(x.cache) = Len(x.ll)
<1> DEFINE N == Len(x.ll)
           f == [i \in 1..N |-> x.ll[i].key]
<1>1. N \in Nat
  BY CacheFields DEF WellFormed
<1>2. f \in [1..N -> x.cache] /\ \A k \in x.cache : \E i \in 1..N : f[i] = k
  BY DEF WellFormed, Mapped
<1>3. \A i, j \in 1..N : f[i] = f[j] => i = j
  BY DEF WellFormed, Distinct
<1>4. f \in Bijection(1..N, x.cache)
  BY <1>2, <1>3 DEF Bijection, Injection, Surjection, IsInjective
<1>5. ExistsBijection(1..N, x.cache)
  BY <1>4 DEF ExistsBijection
<1>6. IsFiniteSet(1..N) /\ Cardinality(1..N) = N
  BY <1>1, FS_Interval
<1> HIDE DEF N
<1> QED
  BY <1>5, <1>6, FS_Bijection DEF N
-----------------------------------------------------------------------------
(* The theorems                                                            *)

\* lru.go:52, 64, 69, 71: nbytes is what the entries take, for any lengths, and
\* no call returns over the budget.
THEOREM StaysWithinBudget == Spec => []WithinBudget
<1>1. Inv => WithinBudget
  <2> SUFFICES ASSUME Inv PROVE WithinBudget
    OBVIOUS
  <2>1. WellFormed(c) /\ c \in Caches /\ (pc = "idle" => ~OverBudget(c))
    BY DEF Inv, WellFormed
  <2>2. PICK acc : Sums(acc, c.ll) /\ c.nbytes = acc[Len(c.ll)]
    BY <2>1 DEF WellFormed, Counted
  <2>3. /\ Len(c.ll) \in Nat /\ \A i \in 1..Len(c.ll) : Size(c.ll[i]) \in Nat
        /\ c.nbytes \in Int /\ c.maxBytes \in Nat
    BY <2>1, CacheFields, SizeIsNat
  <2>4. c.nbytes = SizeOf
    BY <2>2, <2>3, SizeOfIsSum
  <2>5. pc = "idle" /\ c.maxBytes # 0 => c.nbytes <= c.maxBytes
    BY <2>1, <2>3 DEF OverBudget
  <2> QED
    BY <2>4, <2>5 DEF WithinBudget
<1> QED
  BY <1>1, Invariant, PTL

\* lru.go:36-45, 60-70: the list is the front part of the keys in the order of
\* their last use, each with its last value.
THEOREM StaysRecentlyUsed == Spec => []RecentlyUsed
<1>1. Inv => RecentlyUsed
  BY DEF Inv, Recent, RecentlyUsed
<1> QED
  BY <1>1, Invariant, PTL

\* lru.go:49-55: map, list and the user's mirror never part.
THEOREM StaysCoherent == Spec => []Coherent
<1>1. Inv => Coherent
  BY KeysCounted DEF Inv, Coherent, WellFormed, Mapped
<1> QED
  BY <1>1, Invariant, PTL

\* lru.go:71-73: Add's loop is Trim, whichever of its iterations is looked at.
THEOREM AddIsTrim == Spec => LoopIsTrim
<1> DEFINE Kept == pc = "trim" => Trim(c') = Trim(c) /\ (pc' = "idle" => c' = Trim(c))
<1>1. Inv /\ [Next]_vars => [Kept]_vars
  <2> SUFFICES ASSUME Inv, Next, pc = "trim"
               PROVE  Trim(c') = Trim(c) /\ (pc' = "idle" => c' = Trim(c))
    OBVIOUS
  <2>1. WellFormed(c) /\ c \in Caches
    BY DEF Inv, WellFormed
  <2>2. CASE TrimOne
    <3>1. OverBudget(c) /\ c' = RemoveOldest(c) /\ pc' = "trim"
      BY <2>2 DEF TrimOne, Evict
    <3>2. c.ll # <<>>
      BY <2>1, <3>1, CountIsNat, CacheFields DEF OverBudget
    <3> QED
      BY <2>1, <3>1, <3>2, TrimAfterOne
  <2>3. CASE AddReturns
    BY <2>1, <2>3, TrimOfWithin DEF AddReturns
  <2> QED
    BY <2>2, <2>3 DEF Next, GetHit, Insert, CallRemoveOldest
<1> QED
  BY <1>1, Invariant, PTL DEF Spec, LoopIsTrim
=============================================================================
