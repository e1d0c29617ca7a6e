-------------------------------- MODULE Gee --------------------------------
(***************************************************************************)
(* geeweb's engine (gee.go): groups, middlewares and routes are registered *)
(* first, through Router's operators, then requests are served: ServeHTTP  *)
(* builds the chain of a request, which Context runs.  Once it runs the    *)
(* engine is only read.                                                    *)
(***************************************************************************)
EXTENDS Integers, Router, Context

CONSTANTS Methods,   \* HTTP methods
          Segments,  \* what may stand between two slashes
          Comps,     \* what is given to GET, POST and Static, as paths
          GroupPrefixes,  \* what is given to Group
          Paths,     \* the paths of requests
          Filepath,  \* the part that Static appends, a star
          Longer,    \* the pairs <<s, t>> of segments, t a string prefix of s
          MaxCalls,  \* bound: calls of Group, Use, GET, POST and Static
          MaxRoutes  \* bound: how many of them register a route

ASSUME GeeAssumption == /\ Filepath \in Stars \cap Segments
                        /\ Comps \cup GroupPrefixes \cup Paths \subseteq Seq(Segments)
                        /\ "GET" \in Methods
                        /\ MaxCalls \in Nat
                        /\ MaxRoutes \in Nat

VARIABLES
  groups,    \* engine.groups, the engine's own group first
  roots,     \* router.roots, a tree for each method
  handlers,  \* router.handlers, by method and pattern
  routes,    \* the routes in the order they were registered (history)
  running,   \* Run was called
  params     \* c.Params

setup == <<groups, roots, handlers, routes, running>>
vars  == <<setup, params, context>>

Root     == 1
NotFound == [group |-> Root, kind |-> "404"]
NoRoutes == [k \in {} |-> NotFound]
NoParams == [w \in {} |-> <<>>]

TypeOK ==
  /\ \A g \in DOMAIN groups : /\ groups[g].parent \in 0..(g - 1)
                              /\ groups[g].middlewares \in Seq(Kinds)
  /\ \A mt \in Methods : \A n \in DOMAIN roots[mt] : n = <<>> \/ Front(n) \in DOMAIN roots[mt]
  /\ \A k \in DOMAIN handlers : handlers[k].group \in DOMAIN groups
  /\ ContextTypeOK

\* New
Init ==
  /\ groups = <<[prefix |-> <<>>, middlewares |-> <<>>, parent |-> 0]>>
  /\ roots = [mt \in Methods |-> NoTree]
  /\ handlers = NoRoutes
  /\ routes = <<>>
  /\ running = FALSE
  /\ params = NoParams
  /\ ContextInit
-----------------------------------------------------------------------------
(* Registration                                                            *)

\* All middlewares of all groups.
Uses == Len(FlattenSeq([g \in DOMAIN groups |-> groups[g].middlewares]))

MayRegister == ~running /\ Len(groups) - 1 + Uses + Len(routes) < MaxCalls

\* (Mutant) the newest group comes first.
GroupFirst(g, prefix) ==
  /\ MayRegister
  /\ groups' = <<[prefix      |-> groups[g].prefix \o prefix,
                  middlewares |-> <<>>,
                  parent      |-> g]>> \o groups
  /\ UNCHANGED <<roots, handlers, routes, running, params, context>>

Group(g, prefix) ==
  /\ MayRegister
  /\ groups' = Append(groups, [prefix      |-> groups[g].prefix \o prefix,
                               middlewares |-> <<>>,
                               parent      |-> g])
  /\ UNCHANGED <<roots, handlers, routes, running, params, context>>

Use(g, kind) ==
  /\ MayRegister
  /\ groups' = [groups EXCEPT ![g].middlewares = Append(@, kind)]
  /\ UNCHANGED <<roots, handlers, routes, running, params, context>>

\* method + "-" + pattern
Key(method, pattern) == <<method, pattern>>

AddRoute(g, method, comp) ==
  LET pattern == groups[g].prefix \o comp
      key     == Key(method, pattern)
      tree    == IF roots[method] = NoTree THEN RootOnly ELSE roots[method]
  IN  /\ MayRegister
      /\ Len(routes) < MaxRoutes
      /\ roots' = [roots EXCEPT ![method] = insert(tree, pattern)]
      /\ handlers' = [k \in DOMAIN handlers \cup {key} |->
                        IF k = key THEN [group |-> g, kind |-> "route"] ELSE handlers[k]]
      /\ routes' = Append(routes, [method |-> method, pattern |-> pattern, group |-> g])
      /\ UNCHANGED <<groups, running, params, context>>

\* path.Join drops the empty segments of what it is given.
Static(g, comp) ==
  AddRoute(g, "GET", Append(NonEmpty(comp), Filepath))

Run == ~running /\ running' = TRUE /\ UNCHANGED <<groups, roots, handlers, routes, params, context>>
-----------------------------------------------------------------------------
(* ServeHTTP                                                               *)

StartsWith(s, t) == s = t \/ t = Empty \/ <<s, t>> \in Longer

\* strings.HasPrefix of two paths.
HasPrefix(path, prefix) ==
  \/ prefix = <<>>
  \/ /\ Len(prefix) <= Len(path)
     /\ IsPrefix(Front(prefix), path)
     /\ StartsWith(path[Len(prefix)], Last(prefix))

\* (Mutant) the last group whose prefix the path has takes the others' place.
LastMiddlewares(path) ==
  LET last == CHOOSE g \in DOMAIN groups :
                /\ HasPrefix(path, groups[g].prefix)
                /\ \A h \in DOMAIN groups : HasPrefix(path, groups[h].prefix) => h <= g
  IN  [i \in DOMAIN groups[last].middlewares |->
        [group |-> last, kind |-> groups[last].middlewares[i]]]

\* The middlewares of all groups whose prefix the path has.
Middlewares(path) ==
  FlattenSeq([g \in DOMAIN groups |->
    IF HasPrefix(path, groups[g].prefix)
      THEN [i \in DOMAIN groups[g].middlewares |->
              [group |-> g, kind |-> groups[g].middlewares[i]]]
      ELSE <<>>])

\* The chain is complete and Next has moved the index to its first handler.
ServeHTTP(method, path) ==
  LET pattern == getRoute(roots[method], path)
  IN  /\ running /\ stack = <<>>
      /\ IF pattern # NoPattern
           THEN /\ params' = routeParams(pattern, path)
                /\ chain' = Append(Middlewares(path), handlers[Key(method, pattern)])
           ELSE /\ params' = NoParams
                /\ chain' = Append(Middlewares(path), NotFound)
      /\ Begin
      /\ UNCHANGED setup
-----------------------------------------------------------------------------
Register ==
  \E g \in DOMAIN groups :
    \/ \E prefix \in GroupPrefixes : Group(g, prefix)
    \/ \E kind \in Kinds : Use(g, kind)
    \/ \E mt \in Methods, comp \in Comps : AddRoute(g, mt, comp)
    \/ \E comp \in Comps : Static(g, comp)

Next == \/ Register \/ Run
        \/ \E mt \in Methods, path \in Paths : ServeHTTP(mt, path)
        \/ Serve /\ UNCHANGED <<setup, params>>

Spec == Init /\ [][Next]_vars
-----------------------------------------------------------------------------
(* What a router promises.  These are stated of every path in every state  *)
(* of the registration, before the engine runs.                            *)

Routes(mt) == {i \in DOMAIN routes : routes[i].method = mt}

PartsOf(i) == parsePattern(routes[i].pattern)

\* p passes a wild part where q, the same until there, has another part.
Hides(p, q) ==
  \E k \in 1..Len(p) : /\ k <= Len(q)
                       /\ SubSeq(p, 1, k - 1) = SubSeq(q, 1, k - 1)
                       /\ p[k] \in Wild
                       /\ q[k] # p[k]

\* No route was registered after one that hides it: static parts come first,
\* and a place in the tree has one wild part.
WellOrdered(mt) == \A i, j \in Routes(mt) : i < j => ~Hides(PartsOf(i), PartsOf(j))

Matches(parts, segs) ==
  /\ Len(parts) = Len(segs) \/ (parts # <<>> /\ Last(parts) \in Stars /\ Len(parts) <= Len(segs))
  /\ \A k \in 1..Len(parts) : parts[k] \in Wild \/ parts[k] = segs[k]

\* p is static at the first part where it differs from q.
Beats(p, q) ==
  \E k \in 1..Len(p) : /\ k <= Len(q)
                       /\ SubSeq(p, 1, k - 1) = SubSeq(q, 1, k - 1)
                       /\ p[k] # q[k]
                       /\ p[k] \notin Wild

\* The parameters have different names.
DistinctNames(parts) ==
  \A k, l \in 1..Len(parts) : parts[k] \in Wild /\ parts[k] = parts[l] => k = l

\* The path again, from the parts of a pattern and the parameters.
Filled(parts, values) ==
  FlattenSeq([k \in DOMAIN parts |-> IF parts[k] \in Wild THEN values[parts[k]] ELSE <<parts[k]>>])

\* With routes registered in a good order, a path finds the best of the
\* patterns that match it, and none if none does; it gets the handler last
\* registered for that pattern and, if their names differ, parameters that
\* give the path again.  So the order of the tree's children and the search's
\* way back (trie.go:53-72) amount to "static parts first".
RoutesRight ==
  ~running => \A mt \in Methods :
    WellOrdered(mt) => \A path \in Paths :
      LET segs    == parsePattern(path)
          hits    == {i \in Routes(mt) : Matches(PartsOf(i), segs)}
          pattern == getRoute(roots[mt], path)
      IN  IF hits = {} THEN pattern = NoPattern
          ELSE \E i \in hits :
            /\ routes[i].pattern = pattern
            /\ \A j \in hits : PartsOf(j) = PartsOf(i) \/ Beats(PartsOf(i), PartsOf(j))
            /\ \A j \in hits : PartsOf(j) = PartsOf(i) => j <= i
            /\ handlers[Key(mt, pattern)].group = routes[i].group
            /\ DistinctNames(PartsOf(i)) => Filled(PartsOf(i), routeParams(pattern, path)) = segs

\* In whatever order, what getRoute finds was registered, so that handle does
\* not call a nil handler, and has no more parts than the path has segments,
\* so that the parameters' indexes are in range (router.go:55-64, 73-77).
FoundIsServable ==
  ~running => \A mt \in Methods, path \in Paths :
    LET pattern == getRoute(roots[mt], path)
    IN  pattern # NoPattern =>
          /\ Key(mt, pattern) \in DOMAIN handlers
          /\ \E i \in Routes(mt) : routes[i].pattern = pattern
          /\ Len(parsePattern(pattern)) <= Len(parsePattern(path))

\* A group and the groups it is nested in.
Ancestors(g) ==
  LET up[h \in 0..g] == IF h = 0 THEN {} ELSE {h} \cup up[groups[h].parent] IN up[g]

\* Those of a chain's handlers that these groups registered.
OfGroups(handlersOf, around) ==
  LET kept[i \in 0..Len(handlersOf)] ==
        IF i = 0 THEN <<>>
        ELSE IF handlersOf[i].group \in around THEN Append(kept[i - 1], handlersOf[i])
        ELSE kept[i - 1]
  IN  kept[Len(handlersOf)]

\* A route of a group runs behind all the middlewares of the group and of those
\* around it, each once and the outermost first, in whatever order groups,
\* middlewares and routes were registered: ServeHTTP chooses middlewares by the
\* text of the path and the router the handler by its parts (gee.go:105-116),
\* and the two agree where the routes are in a good order and neither the
\* prefixes nor the path have wild or empty parts.  Elsewhere they do not: a
\* path such as "//a/b" finds the route of "/a/b" and not the middlewares of
\* "/a".  Middlewares of other groups may run among them, since the text "/a"
\* begins "/ab/b" too.
GroupsGuardRoutes ==
  ~running => \A mt \in Methods :
    WellOrdered(mt) => \A path \in Paths :
      LET pattern == getRoute(roots[mt], path)
      IN  pattern # NoPattern /\ Empty \notin {path[k] : k \in DOMAIN path} =>
          LET around == {g \in Ancestors(handlers[Key(mt, pattern)].group) :
                           \A k \in DOMAIN groups[g].prefix :
                             groups[g].prefix[k] \notin Wild \cup {Empty}}
          IN  OfGroups(Middlewares(path), around)
                = FlattenSeq([g \in DOMAIN groups |->
                    IF g \in around
                      THEN [i \in DOMAIN groups[g].middlewares |->
                              [group |-> g, kind |-> groups[g].middlewares[i]]]
                      ELSE <<>>])
=============================================================================
