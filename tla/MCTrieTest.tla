----------------------------- MODULE MCTrieTest -----------------------------
(* The router of trie_test.go: newTestRouter registers five routes, one     *)
(* after the other, and TestGetRoute then asks for two paths.               *)
EXTENDS Router

VARIABLES tree, registered

vars == <<tree, registered>>

newTestRouter == << <<Empty>>, <<"hello", ":name">>, <<"hello", "b", "c">>,
                    <<"hi", ":name">>, <<"assets", "*filepath">> >>

Init == tree = RootOnly /\ registered = 0

Register ==
  /\ registered < Len(newTestRouter)
  /\ registered' = registered + 1
  /\ tree' = insert(tree, newTestRouter[registered'])

Spec == Init /\ [][Register]_vars

\* What the test requires of the finished router: both paths have a route
\* (trie_test.go:30-44).
TestGetRoute ==
  registered = Len(newTestRouter) =>
    /\ getRoute(tree, <<"assets", "aaa", "bbb", "ccc">>) = <<"assets", "*filepath">>
    /\ getRoute(tree, <<"hello", "zzz", "a">>) # NoPattern
=============================================================================
