------------------------------ MODULE HTTPPool ------------------------------
(***************************************************************************)
(* geecache/http.go: how a node asks the owner of a key for its value.     *)
(* Goroutines in Group.load pick the peer, their httpGetter makes a URL    *)
(* and sends it, and the peer's ServeHTTP takes the URL apart again.  If   *)
(* that fails load turns to the getter of its own node.                    *)
(*                                                                         *)
(* A name (of a group, or a key) is the sequence of what stands between    *)
(* its slashes, each of which is a sequence of words: names that are       *)
(* written one after the other run together in the middle.  The path of a  *)
(* URL is such a name; url.QueryEscape hides a slash from the URL and the  *)
(* server's URL.Path shows it again.                                       *)
(***************************************************************************)
EXTENDS Naturals, Sequences

CONSTANTS Procs,  \* goroutines in load, each for one key
          Home,   \* the node each of them runs on
          Group,  \* the group it loads for
          Key,    \* the key it loads
          Owner,  \* the node each key's ring gives, see ConsistentHash
          Groups  \* the groups that every node has

VARIABLES pc,      \* where each goroutine is
          path,    \* the path of its request, after basePath
          status   \* of the response; 0 before

vars == <<pc, path, status>>

TypeOK ==
  /\ pc \in [Procs -> {"pick", "send", "serve", "receive", "local", "done"}]
  /\ DOMAIN path = Procs
  /\ status \in [Procs -> {0, 200, 400, 404, 500}]

Init ==
  /\ pc = [p \in Procs |-> "pick"]
  /\ path = [p \in Procs |-> <<>>]
  /\ status = [p \in Procs |-> 0]

Goto(p, l) == pc' = [pc EXCEPT ![p] = l]

\* What stands between slashes when name n is written right after name m.
Concat(m, n) ==
  SubSeq(m, 1, Len(m) - 1) \o <<m[Len(m)] \o Head(n)>> \o Tail(n)

\* Sprintf("%v%v%v", baseURL, group, key), from basePath on.
URL(group, key) == Concat(group, key)
-----------------------------------------------------------------------------
PickPeer(p) ==
  /\ pc[p] = "pick"
  /\ Goto(p, IF Owner[Key[p]] = Home[p] THEN "local" ELSE "send")
  /\ UNCHANGED <<path, status>>

Send(p) ==
  /\ pc[p] = "send"
  /\ path' = [path EXCEPT ![p] = URL(Group[p], Key[p])]
  /\ Goto(p, "serve")
  /\ UNCHANGED status

Respond(p, s) == status' = [status EXCEPT ![p] = s] /\ Goto(p, "receive")

\* SplitN(..., "/", 2) finds no slash.
BadRequest(p) ==
  /\ pc[p] = "serve"
  /\ Len(path[p]) < 2
  /\ Respond(p, 400)
  /\ UNCHANGED path

NoSuchGroup(p) ==
  /\ pc[p] = "serve"
  /\ Len(path[p]) >= 2
  /\ <<path[p][1]>> \notin Groups
  /\ Respond(p, 404)
  /\ UNCHANGED path

\* The group is there, and its Get returns a value or an error.
ServeGet(p) ==
  /\ pc[p] = "serve"
  /\ Len(path[p]) >= 2
  /\ <<path[p][1]>> \in Groups
  /\ \E s \in {200, 500} : Respond(p, s)
  /\ UNCHANGED path

\* http.Get fails, before or after the peer has dealt with the request.
RequestLost(p) ==
  /\ pc[p] \in {"serve", "receive"}
  /\ Goto(p, "local")
  /\ UNCHANGED <<path, status>>

Receive(p) ==
  /\ pc[p] = "receive"
  /\ Goto(p, IF status[p] = 200 THEN "done" ELSE "local")
  /\ UNCHANGED <<path, status>>

GetLocally(p) ==
  /\ pc[p] = "local"
  /\ Goto(p, "done")
  /\ UNCHANGED <<path, status>>

Returned == (\A p \in Procs : pc[p] = "done") /\ UNCHANGED vars
-----------------------------------------------------------------------------
Next == \/ \E p \in Procs : \/ PickPeer(p) \/ Send(p)
                            \/ BadRequest(p) \/ NoSuchGroup(p) \/ ServeGet(p)
                            \/ RequestLost(p) \/ Receive(p) \/ GetLocally(p)
        \/ Returned

Spec == Init /\ [][Next]_vars
-----------------------------------------------------------------------------
\* ServeHTTP says that "/<basepath>/<groupname>/<key>" is required (http.go:52):
\* what a peer of the same pool asks for has that form.
PeersAskWell == \A p \in Procs : status[p] # 400
=============================================================================
