------------------------ MODULE ConsistentHashProofs ------------------------
(***************************************************************************)
(* The ring for any nodes, hashes and number of virtual nodes: first what  *)
(* the search in the sorted list finds, then what the ring holds.          *)
(***************************************************************************)
EXTENDS ConsistentHash, FiniteSetTheorems, WellFoundedInduction, TLAPS

\* A non-empty set of hashes has a least one.
LEMMA LeastOf ==
  ASSUME NEW S \in SUBSET Nat, S # {}
  PROVE  \E x \in S : \A y \in S : x <= y
<1>1. IsWellFoundedOn(OpToRel(<, Nat), Nat)
  BY NatLessThanWellFounded
<1>2. PICK x \in S : \A y \in S : ~(<<y, x>> \in OpToRel(<, Nat))
  BY <1>1, WFMin
<1>3. \A y \in S : ~(y < x)
  BY <1>2 DEF OpToRel
<1> QED
  BY <1>3

LEMMA HashesAreNat == Hashes \subseteq Nat
BY RingAssumption DEF Hashes

\* x is the first of R at or after h, or of all.
IsFirst(R, h, x) ==
  /\ x \in R
  /\ IF \E y \in R : y >= h THEN x >= h /\ \A y \in R : y >= h => x <= y
                            ELSE \A y \in R : x <= y

\* What sort.Search and % len find.
LEMMA FirstFinds ==
  ASSUME NEW R \in SUBSET Hashes, R # {}, NEW h \in Hashes
  PROVE  IsFirst(R, h, First(R, h))
<1> DEFINE After == {x \in R : x >= h}
           From  == IF After = {} THEN R ELSE After
<1>1. From \in SUBSET Nat /\ From # {} /\ From \subseteq R
  BY HashesAreNat
<1>2. \E x \in From : \A y \in From : x <= y
  BY <1>1, LeastOf
<1>3. First(R, h) = CHOOSE x \in From : \A y \in From : x <= y
  BY DEF First
<1>4. First(R, h) \in From /\ \A y \in From : First(R, h) <= y
  BY <1>2, <1>3
<1> QED
  BY <1>1, <1>4 DEF IsFirst

LEMMA FirstIsUnique ==
  ASSUME NEW R \in SUBSET Hashes, NEW h \in Hashes, NEW x, NEW y,
         IsFirst(R, h, x), IsFirst(R, h, y)
  PROVE  x = y
<1>1. x \in Nat /\ y \in Nat /\ h \in Nat
  BY HashesAreNat DEF IsFirst
<1>2. x <= y /\ y <= x
  BY DEF IsFirst
<1> QED
  BY <1>1, <1>2

\* More hashes: the first is one of them, or it was the first before.
LEMMA FirstOfMore ==
  ASSUME NEW R \in SUBSET Hashes, R # {}, NEW Q \in SUBSET Hashes, NEW h \in Hashes
  PROVE  First(R \cup Q, h) \in Q \/ First(R \cup Q, h) = First(R, h)
<1>1. IsFirst(R \cup Q, h, First(R \cup Q, h))
  <2>1. R \cup Q \in SUBSET Hashes /\ R \cup Q # {}
    OBVIOUS
  <2> QED
    BY <2>1, FirstFinds
<1>2. First(R \cup Q, h) \in R => IsFirst(R, h, First(R \cup Q, h))
  BY <1>1 DEF IsFirst
<1>3. IsFirst(R, h, First(R, h))
  BY FirstFinds
<1>4. First(R \cup Q, h) \in R => First(R \cup Q, h) = First(R, h)
  BY <1>2, <1>3, FirstIsUnique
<1> QED
  BY <1>1, <1>4 DEF IsFirst

\* Fewer hashes: the first is still the first, if it is still there.
LEMMA FirstOfFewer ==
  ASSUME NEW R \in SUBSET Hashes, R # {}, NEW Q, NEW h \in Hashes, First(R, h) \notin Q
  PROVE  R \ Q # {} /\ First(R \ Q, h) = First(R, h)
<1>1. IsFirst(R, h, First(R, h))
  BY FirstFinds
<1>2. R \ Q # {} /\ R \ Q \in SUBSET Hashes
  BY <1>1 DEF IsFirst
<1>3. IsFirst(R \ Q, h, First(R, h))
  BY <1>1 DEF IsFirst
<1>4. IsFirst(R \ Q, h, First(R \ Q, h))
  BY <1>2, FirstFinds
<1> QED
  BY <1>2, <1>3, <1>4, FirstIsUnique
-----------------------------------------------------------------------------
LEMMA Modulo ==
  ASSUME NEW d \in Nat \ {0}, NEW a \in 0..(d - 1)
  PROVE  a % d = a /\ (a - d) % d = a
OBVIOUS

LEMMA DistanceIs ==
  ASSUME NEW h \in Hashes, NEW x \in Hashes
  PROVE  Distance(h, x) = IF x >= h THEN x - h ELSE x - h + (Top + 1)
<1>1. h \in 0..Top /\ x \in 0..Top /\ Top \in Nat /\ Top + 1 \in Nat \ {0}
  BY RingAssumption DEF Hashes
<1>2. CASE x >= h
  <2>1. x - h \in 0..((Top + 1) - 1)
    BY <1>1, <1>2
  <2> QED
    BY <1>1, <1>2, <2>1, Modulo DEF Distance
<1>3. CASE ~(x >= h)
  <2> DEFINE a == x - h + (Top + 1)
  <2>1. a \in 0..((Top + 1) - 1) /\ x - h = a - (Top + 1)
    BY <1>1, <1>3
  <2>2. (a - (Top + 1)) % (Top + 1) = a
    BY <1>1, <2>1, Modulo
  <2> QED
    BY <1>3, <2>1, <2>2 DEF Distance
<1> QED
  BY <1>2, <1>3

\* The first is the nearest, and nothing else is as near.
LEMMA FirstIsNearest ==
  ASSUME NEW R \in SUBSET Hashes, R # {}, NEW h \in Hashes, NEW y \in R
  PROVE  /\ Distance(h, First(R, h)) <= Distance(h, y)
         /\ Distance(h, y) <= Distance(h, First(R, h)) => y = First(R, h)
<1> DEFINE f == First(R, h)
<1>1. IsFirst(R, h, f)
  BY FirstFinds
<1>2. f \in Hashes /\ y \in Hashes
  BY <1>1 DEF IsFirst
<1>3. f \in 0..Top /\ y \in 0..Top /\ h \in 0..Top /\ Top \in Nat
  BY <1>2, RingAssumption DEF Hashes
<1>4. /\ Distance(h, f) = IF f >= h THEN f - h ELSE f - h + (Top + 1)
      /\ Distance(h, y) = IF y >= h THEN y - h ELSE y - h + (Top + 1)
  BY <1>2, DistanceIs
<1>5. /\ y >= h => f >= h /\ f <= y
      /\ f >= h \/ f <= y
  BY <1>1, <1>3 DEF IsFirst
<1> HIDE DEF f
<1>6. Distance(h, f) <= Distance(h, y) /\ (Distance(h, y) <= Distance(h, f) => y = f)
  BY <1>3, <1>4, <1>5
<1> QED
  BY <1>6 DEF f
-----------------------------------------------------------------------------
LEMMA TimesFacts ==
  ASSUME NEW n \in Nodes, NEW h \in Hashes
  PROVE  /\ Times(n, h) \in Nat
         /\ Times(n, h) > 0 <=> h \in Places(n)
<1> DEFINE S == {i \in Virtual : Place[n][i] = h}
<1>1. IsFiniteSet(S)
  BY RingAssumption, FS_Subset
<1>2. Cardinality(S) \in Nat /\ (Cardinality(S) = 0 <=> S = {})
  BY <1>1, FS_CardinalityType, FS_EmptySet
<1> QED
  BY <1>2 DEF Times, Places

LEMMA PlacesFacts ==
  ASSUME NEW n \in Nodes
  PROVE  Places(n) \in SUBSET Hashes /\ Places(n) # {}
BY RingAssumption DEF Places

\* As long as no hash was there twice, list and map hold exactly the virtual
\* nodes of the members.
RingInv ==
  ~spoilt => \A h \in Hashes :
    /\ keys[h] > 0 => keys[h] = 1 /\ hashMap[h] \in members /\ h \in Places(hashMap[h])
    /\ \A n \in members : h \in Places(n) => keys[h] > 0 /\ hashMap[h] = n /\ Times(n, h) = 1

IInv == TypeOK /\ RingInv

LEMMA EmptyRing ==
  /\ NoKeys \in [Hashes -> 0..MaxTwice] /\ \A h \in Hashes : NoKeys[h] = 0
  /\ NoMap \in [Hashes -> Nodes \cup {None}] /\ \A h \in Hashes : NoMap[h] = None
<1>1. 0 \in 0..MaxTwice
  BY RingAssumption
<1> QED
  BY <1>1 DEF NoKeys, NoMap

LEMMA InitIInv == Init => IInv
<1>1. Init => TypeOK
  BY EmptyRing DEF Init, TypeOK
<1>2. Init => RingInv
  BY EmptyRing DEF Init, RingInv
<1> QED
  BY <1>1, <1>2 DEF IInv

LEMMA NewStep == IInv /\ New => IInv'
<1>1. New => TypeOK'
  BY EmptyRing DEF New, TypeOK
<1>2. New => RingInv'
  BY EmptyRing DEF New, RingInv
<1> QED
  BY <1>1, <1>2 DEF IInv

LEMMA AddStep ==
  ASSUME IInv, NEW n \in Nodes, Add(n)
  PROVE  IInv'
<1>1. \A h \in Hashes : /\ Times(n, h) \in Nat /\ (Times(n, h) > 0 <=> h \in Places(n))
                        /\ keys[h] \in Nat
                        /\ keys'[h] = keys[h] + Times(n, h) /\ keys'[h] <= MaxTwice
                        /\ hashMap'[h] = IF h \in Places(n) THEN n ELSE hashMap[h]
  BY TimesFacts, RingAssumption DEF Add, IInv, TypeOK
<1>2. TypeOK'
  BY <1>1, RingAssumption DEF Add, IInv, TypeOK
<1>3. RingInv'
  <2> SUFFICES ASSUME ~spoilt', NEW h \in Hashes
               PROVE  /\ keys'[h] > 0 => keys'[h] = 1 /\ hashMap'[h] \in members'
                                         /\ h \in Places(hashMap'[h])
                      /\ \A o \in members' : h \in Places(o) =>
                           keys'[h] > 0 /\ hashMap'[h] = o /\ Times(o, h) = 1
    BY DEF RingInv
  <2>1. /\ ~spoilt /\ members' = members \cup {n} /\ ~(Times(n, h) > 1)
        /\ Places(n) \cap Ring = {}
    BY DEF Add
  <2>2. h \in Places(n) => keys[h] = 0
    BY <1>1, <2>1 DEF Ring
  <2>3. CASE h \in Places(n)
    BY <1>1, <2>1, <2>2, <2>3 DEF IInv, RingInv
  <2>4. CASE h \notin Places(n)
    BY <1>1, <2>1, <2>2, <2>4 DEF IInv, RingInv
  <2> QED
    BY <2>3, <2>4
<1> QED
  BY <1>2, <1>3 DEF IInv

\* What Del takes out of the ring, as long as no hash was there twice.
LEMMA DelTakes ==
  ASSUME IInv, NEW n \in Nodes, Del(n), ~spoilt', NEW h \in Hashes
  PROVE  /\ keys'[h] = IF h \in Places(n) THEN 0 ELSE keys[h]
         /\ hashMap'[h] = IF h \in Places(n) THEN None ELSE hashMap[h]
<1>1. /\ Times(n, h) \in Nat /\ (Times(n, h) > 0 <=> h \in Places(n)) /\ keys[h] \in Nat
      /\ keys'[h] = IF Times(n, h) < keys[h] THEN keys[h] - Times(n, h) ELSE 0
      /\ hashMap'[h] = IF h \in Places(n) THEN None ELSE hashMap[h]
  BY TimesFacts, RingAssumption DEF Del, IInv, TypeOK
<1>2. ~spoilt /\ (n \in members \/ Places(n) \cap Ring = {})
  BY DEF Del
<1>3. h \in Places(n) => keys[h] = 0 \/ keys[h] = 1
  BY <1>1, <1>2 DEF IInv, RingInv, Ring
<1> QED
  BY <1>1, <1>3

LEMMA DelStep ==
  ASSUME IInv, NEW n \in Nodes, Del(n)
  PROVE  IInv'
<1>1. TypeOK'
  <2>1. \A h \in Hashes : /\ Times(n, h) \in Nat /\ (Times(n, h) > 0 <=> h \in Places(n))
                          /\ keys[h] \in 0..MaxTwice
                          /\ keys'[h] = IF Times(n, h) < keys[h] THEN keys[h] - Times(n, h) ELSE 0
                          /\ hashMap'[h] = IF h \in Places(n) THEN None ELSE hashMap[h]
    BY TimesFacts, RingAssumption DEF Del, IInv, TypeOK
  <2>2. \A h \in Hashes : keys'[h] \in 0..MaxTwice /\ (h \notin Places(n) => keys'[h] = keys[h])
    BY <2>1, RingAssumption
  <2> QED
    BY <2>1, <2>2, RingAssumption DEF Del, IInv, TypeOK
<1>2. RingInv'
  <2> SUFFICES ASSUME ~spoilt', NEW h \in Hashes
               PROVE  /\ keys'[h] > 0 => keys'[h] = 1 /\ hashMap'[h] \in members'
                                         /\ h \in Places(hashMap'[h])
                      /\ \A o \in members' : h \in Places(o) =>
                           keys'[h] > 0 /\ hashMap'[h] = o /\ Times(o, h) = 1
    BY DEF RingInv
  <2>1. /\ keys'[h] = IF h \in Places(n) THEN 0 ELSE keys[h]
        /\ hashMap'[h] = IF h \in Places(n) THEN None ELSE hashMap[h]
    BY DelTakes
  <2>2. /\ ~spoilt /\ members' = members \ {n}
        /\ n \in members \/ (h \in Places(n) => ~(keys[h] > 0))
    BY DEF Del, Ring
  <2> QED
    BY <2>1, <2>2 DEF IInv, RingInv
<1> QED
  BY <1>1, <1>2 DEF IInv

\* List and map agree with the members in every ring.
THEOREM Invariance == Spec => []IInv
<1>1. IInv /\ [Next]_vars => IInv'
  <2>1. IInv /\ UNCHANGED vars => IInv'
    BY DEF vars, IInv, TypeOK, RingInv
  <2> QED
    BY <2>1, NewStep, AddStep, DelStep DEF Next
<1> QED
  BY InitIInv, <1>1, PTL DEF Spec

\* The ring's variables keep their types.
THEOREM TypeCorrect == Spec => []TypeOK
<1>1. IInv => TypeOK
  BY DEF IInv
<1> QED
  BY Invariance, <1>1, PTL

\* The owner of a key is the member with the nearest virtual node
\* (consistenthash.go:63-76).
THEOREM OwnerNearest == Spec => []OwnerIsNearest
<1>1. IInv => OwnerIsNearest
  <2> SUFFICES ASSUME IInv, NEW h \in Hashes, ~spoilt
               PROVE  IF members = {} THEN Get(h) = None ELSE Nearest(members, h) = {Get(h)}
    BY DEF OwnerIsNearest
  <2>1. Ring \in SUBSET Hashes /\ members \subseteq Nodes
    BY DEF Ring, IInv, TypeOK
  <2>2. /\ \A x \in Ring : hashMap[x] \in members /\ x \in Places(hashMap[x])
        /\ \A n \in members : \A x \in Places(n) : x \in Ring /\ hashMap[x] = n
    BY <2>1, PlacesFacts DEF IInv, RingInv, Ring
  <2>3. CASE members = {}
    BY <2>2, <2>3 DEF Get
  <2>4. CASE members # {}
    <3>1. Ring # {}
      BY <2>1, <2>2, <2>4, PlacesFacts
    <3> DEFINE f == First(Ring, h)
    <3>2. f \in Ring /\ Get(h) = hashMap[f]
      BY <2>1, <3>1, FirstFinds DEF IsFirst, Get
    <3>3. \A y \in Ring : /\ Distance(h, f) <= Distance(h, y)
                          /\ Distance(h, y) <= Distance(h, f) => y = f
      BY <2>1, <3>1, FirstIsNearest
    <3> HIDE DEF f
    <3>4. Get(h) \in Nearest(members, h)
      BY <2>2, <3>2, <3>3 DEF Nearest
    <3>5. ASSUME NEW n \in Nearest(members, h)
          PROVE  n = Get(h)
      <4>1. PICK x \in Places(n) : \A o \in members : \A y \in Places(o) : Distance(h, x) <= Distance(h, y)
        BY DEF Nearest
      <4>2. n \in members /\ x \in Ring /\ hashMap[x] = n
        BY <2>2, <4>1 DEF Nearest
      <4>3. Distance(h, x) <= Distance(h, f)
        BY <2>2, <3>2, <4>1
      <4> QED
        BY <3>2, <3>3, <4>2, <4>3
    <3> QED
      BY <2>4, <3>4, <3>5
  <2> QED
    BY <2>3, <2>4
<1> QED
  BY Invariance, <1>1, PTL

\* Adding or deleting a node moves no keys but its own (consistenthash.go:36,
\* 48).
THEOREM FewKeysMove == Spec => MinimalMoves
<1> DEFINE Moves == \A n \in Nodes, h \in Hashes :
              /\ Add(n) => Get(h)' \in {Get(h), n}
              /\ Del(n) /\ ~spoilt' /\ Get(h) # n => Get(h)' = Get(h)
<1>1. ASSUME IInv
      PROVE  Moves
  <2>1. Ring \in SUBSET Hashes
    BY DEF Ring
  <2>2. ASSUME NEW n \in Nodes, NEW h \in Hashes, Add(n)
        PROVE  Get(h)' \in {Get(h), n}
    <3>1. \A x \in Hashes : /\ keys'[x] = keys[x] + Times(n, x)
                            /\ keys[x] \in Nat /\ Times(n, x) \in Nat
                            /\ Times(n, x) > 0 <=> x \in Places(n)
                            /\ hashMap'[x] = IF x \in Places(n) THEN n ELSE hashMap[x]
      BY <1>1, <2>2, TimesFacts, RingAssumption DEF Add, IInv, TypeOK
    <3>2. Ring' = Ring \cup Places(n) /\ Places(n) \in SUBSET Hashes /\ Places(n) # {}
      BY <3>1, PlacesFacts DEF Ring
    <3> DEFINE f == First(Ring \cup Places(n), h)
    <3>3. f \in Ring \cup Places(n) /\ Get(h)' = hashMap'[f]
      BY <2>1, <3>2, FirstFinds DEF IsFirst, Get
    <3>4. f \in Places(n) \/ (Ring # {} /\ f = First(Ring, h))
      BY <2>1, <3>2, <3>3, FirstOfMore
    <3> QED
      BY <2>1, <3>1, <3>2, <3>3, <3>4 DEF Get
  <2>3. ASSUME NEW n \in Nodes, NEW h \in Hashes, Del(n), ~spoilt', Get(h) # n
        PROVE  Get(h)' = Get(h)
    <3>1. \A x \in Hashes : /\ keys'[x] = IF x \in Places(n) THEN 0 ELSE keys[x]
                            /\ hashMap'[x] = IF x \in Places(n) THEN None ELSE hashMap[x]
      BY <1>1, <2>3, DelTakes
    <3>2. Ring' = Ring \ Places(n)
      BY <3>1 DEF Ring
    <3>3. CASE Ring = {}
      BY <3>2, <3>3 DEF Get
    <3>4. CASE Ring # {}
      <4> DEFINE f == First(Ring, h)
      <4>1. f \in Ring /\ Get(h) = hashMap[f]
        BY <2>1, <3>4, FirstFinds DEF IsFirst, Get
      <4>2. f \notin Places(n)
        <5> SUFFICES ASSUME f \in Places(n) PROVE FALSE
          OBVIOUS
        <5>1. ~spoilt /\ (n \in members \/ Places(n) \cap Ring = {})
          BY <2>3 DEF Del
        <5> QED
          BY <1>1, <2>1, <2>3, <4>1, <5>1 DEF IInv, RingInv, Ring
      <4>3. Ring' # {} /\ First(Ring', h) = f
        BY <2>1, <3>2, <3>4, <4>2, FirstOfFewer
      <4> QED
        BY <2>1, <3>1, <4>1, <4>2, <4>3 DEF Get
    <3> QED
      BY <3>3, <3>4
  <2> QED
    BY <2>2, <2>3
<1>2. IInv => [Moves]_vars
  BY <1>1
<1> QED
  BY Invariance, <1>2, PTL DEF MinimalMoves
=============================================================================
