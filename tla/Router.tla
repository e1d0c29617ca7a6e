------------------------------- MODULE Router -------------------------------
(***************************************************************************)
(* geeweb's router (router.go, trie.go) as operators.  A path is the       *)
(* sequence of its segments ("/p/:lang" is <<"p", ":lang">>, "//p" is      *)
(* <<Empty, "p">>).  A tree is a function from the labels of its nodes,    *)
(* from the root down, to what the code keeps there: insert never gives    *)
(* two children of a node the same part, so the labels name the node.      *)
(***************************************************************************)
EXTENDS Naturals, Sequences, SequencesExt

CONSTANTS Empty,   \* the empty segment, as in "//" or after a last "/"
          Named,   \* the parts that begin with ':'
          Stars    \* the parts that begin with '*', a name after it

Wild == Named \cup Stars  \* node.isWild

NoPattern == <<>>         \* node.pattern = "", and getRoute's nil node

NewNode  == [pattern |-> NoPattern, children |-> <<>>]
NoTree   == [n \in {} |-> NewNode]     \* roots[method] is not there
RootOnly == [n \in {<<>>} |-> NewNode]

\* The segments that are not empty.
NonEmpty(path) ==
  LET kept[i \in 0..Len(path)] ==
        IF i = 0 THEN <<>>
        ELSE IF path[i] = Empty THEN kept[i - 1] ELSE Append(kept[i - 1], path[i])
  IN  kept[Len(path)]

\* The segments that are not empty, up to the first that begins with '*'.
parsePattern(pattern) ==
  LET parts == NonEmpty(pattern)
      star  == SelectInSeq(parts, LAMBDA item : item \in Stars)
  IN  IF star = 0 THEN parts ELSE SubSeq(parts, 1, star)

\* A child that is equal or wild.
Matching(child, part) == child = part \/ child \in Wild

\* Where the first of them is, in the order they were inserted; 0 for nil.
matchChild(node, part) == SelectInSeq(node.children, LAMBDA c : Matching(c, part))

NodeAt(tree, n) == IF n \in DOMAIN tree THEN tree[n] ELSE NewNode

\* The nodes that insert visits, by height: it follows the first child that
\* matches and adds one when there is none.
Visited(tree, parts) ==
  LET at[h \in 0..Len(parts)] ==
        IF h = 0 THEN <<>>
        ELSE LET n   == at[h - 1]
                 old == matchChild(NodeAt(tree, n), parts[h])
             IN  Append(n, IF old = 0 THEN parts[h] ELSE NodeAt(tree, n).children[old])
  IN  at

insert(tree, pattern) ==
  LET parts == parsePattern(pattern)
      at    == Visited(tree, parts)
      Added(n) == /\ Len(n) < Len(parts)
                  /\ at[Len(n)] = n
                  /\ at[Len(n) + 1] \notin DOMAIN tree
  IN  [n \in DOMAIN tree \cup {at[h] : h \in DOMAIN at} |->
        [pattern  |-> IF n = at[Len(parts)] THEN pattern ELSE NodeAt(tree, n).pattern,
         children |-> IF Added(n) THEN Append(NodeAt(tree, n).children, Last(at[Len(n) + 1]))
                                  ELSE NodeAt(tree, n).children]]

\* search goes no further down: the path is at its end, or the node's part
\* begins with '*'.
AtEnd(n, parts) == Len(n) = Len(parts) \/ (n # <<>> /\ Last(n) \in Stars)

\* (Mutant) no way back out of the first child that matches.
SearchGreedy(tree, parts) ==
  LET found[n \in {n \in DOMAIN tree : Len(n) <= Len(parts)}] ==
        IF AtEnd(n, parts) THEN tree[n].pattern
        ELSE LET hit == matchChild(tree[n], parts[Len(n) + 1])
             IN  IF hit = 0 THEN NoPattern ELSE found[Append(n, tree[n].children[hit])]
  IN  found[<<>>]

\* (Mutant) a node of the tree is found though no pattern ends there.
SearchAnyNode(tree, parts) ==
  LET found[n \in {n \in DOMAIN tree : Len(n) <= Len(parts)}] ==
        IF AtEnd(n, parts) THEN IF tree[n].pattern = NoPattern THEN n ELSE tree[n].pattern
        ELSE LET kids == tree[n].children
                 hit  == SelectInSeq(kids, LAMBDA c : /\ Matching(c, parts[Len(n) + 1])
                                                      /\ found[Append(n, c)] # NoPattern)
             IN  IF hit = 0 THEN NoPattern ELSE found[Append(n, kids[hit])]
  IN  found[<<>>]

\* The pattern of the first node that search finds, depth first; the height
\* of a node is the length of its label.
search(tree, parts) ==
  LET found[n \in {n \in DOMAIN tree : Len(n) <= Len(parts)}] ==
        IF AtEnd(n, parts) THEN tree[n].pattern
        ELSE LET kids == tree[n].children
                 hit  == SelectInSeq(kids, LAMBDA c : /\ Matching(c, parts[Len(n) + 1])
                                                      /\ found[Append(n, c)] # NoPattern)
             IN  IF hit = 0 THEN NoPattern ELSE found[Append(n, kids[hit])]
  IN  found[<<>>]

\* The pattern that serves a path, NoPattern for getRoute's nil.
getRoute(tree, path) ==
  IF tree = NoTree THEN NoPattern ELSE search(tree, parsePattern(path))

\* c.Params: a named part gets the segment at its place, a star all the rest;
\* of two parts with one name the later counts.  A part stands for its name, so
\* a named part and a star have different ones.
routeParams(pattern, path) ==
  LET parts == parsePattern(pattern)
      segs  == parsePattern(path)
      Place(w) == SelectLastInSubSeq(parts, 1, Len(parts), LAMBDA p : p = w)
  IN  [w \in {parts[i] : i \in 1..Len(parts)} \cap Wild |->
        IF w \in Stars THEN SubSeq(segs, Place(w), Len(segs)) ELSE <<segs[Place(w)]>>]
=============================================================================
