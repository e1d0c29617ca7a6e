# Verification of 7days_project

The repository holds four Go libraries: `geerpc` (an RPC library with a registry
and a client pool), `geecache` (a distributed cache), `geeweb` (a web framework)
and `geeorm` (an object-relational mapper). This directory models the parts whose
correctness depends on interleavings, failures and long sequences of calls,
checks them with TLC and proves the main results with TLAPS.

The repository has no documentation of its own beyond comments and tests: the
modules are translated from the code. `PROJECT.json` maps every definition to
its lines.

## 1. Inventory

### geerpc client (`geerpc/client/client.go`)

*State.* `pending` (the calls that wait, by number), `seq`, one `header` that all
requests share, the flags `closing` (by the user) and `shutdown` (by the
receiver), the mutexes `sending` and `mu`; each `Call` has `Seq`, `Error`,
`Reply` and a channel `Done`.
*Operations.* `Go` and `Call` (`send`, `registerCall`, `removeCall`), `receive`,
`terminateCalls`, `Close`, `IsAvailable`; `dialTimeout` and the functions over it.
*Interactions.* Writes requests and reads responses through the codec; one
goroutine per caller and one receiver share the state above; `XClient` keeps
clients in a pool.
*Hard.* Three places deliver to a call (`send`, `receive`, `terminateCalls`);
contexts end while a response is being handled; the connection dies between
registering a call and writing it; a user's full channel blocks the receiver.
*Correct when* each call gets exactly one outcome, its own; nobody is left
waiting; nothing is sent after shutdown; the loss of the connection settles
every call.

### geerpc server (`geerpc/server/server.go`)

*State.* Per connection: the mutex `sending`, the `WaitGroup` of handlers, a
header per request; per request: the channels `called` and `sent`.
*Operations.* `ServeConn`, `serverCodec`, `readRequest`, `handleRequest` with the
goroutine it starts, `sendResponse`, `service.call`.
*Interactions.* Reads and writes through the codec; calls the user's methods.
*Hard.* The timer of a request races its method; loop, handlers and workers all
write to one connection; the close races the last response; a method may never
return; a body that does not encode closes the connection for everyone.
*Correct when* a request gets at most one response, responses do not mix, none is
cut off by the close, and a request is answered or sees its connection closed.

### geerpc codec (`geerpc/codec`, `geerpc/common`)

*State.* A connection with a buffered writer. *Operations.* `ReadHeader`,
`ReadBody`, `Write`, `Close`. It is modelled by what client and server see of
it: a `Write` that fails after the header and then closes the connection, a
`Flush` whose error is lost, an options decoder that reads ahead of the codec.

### geerpc registry (`geerpc/registry/registry.go`)

*State.* The table of servers, with the time of each one's last announcement.
*Operations.* POST (`putServer`), GET (`aliveServers`), `Heartbeat`.
*Interactions.* Servers announce themselves over HTTP; discovery asks over HTTP.
*Hard.* The period of the heartbeat, the delays and the timeout must fit; one
failed heartbeat ends the loop, while one that something else than the registry
answers counts as sent; the registry forgets everything when it restarts.
*Correct when* a server whose announcements arrive is listed, and one that is
silent soon is not.

### geerpc discovery and xclient (`geerpc/xclient`)

*State.* Discovery: the cached list of servers and its age, under `mu`. XClient:
the pool of clients by address, under `mu`; a Broadcast's first error, reply and
context.
*Operations.* `Refresh`, `Get`, `GetAll`, `Update`; `dial`, `Call`, `Broadcast`,
`Close`.
*Interactions.* Discovery calls the registry; XClient calls discovery and clients.
*Hard.* The list outlives what it was fetched from; `Refresh` and `Get` are two
sections of the lock; clients are replaced while others use them; a dial that
times out leaves a handshake running; the first error of a Broadcast cancels the
calls that are under way; a call has no timeout of its own.
*Correct when* silent servers are handed out no longer than the two timeouts
allow, no connection escapes the pool, and a Broadcast returns, with the first
real error, unless a server takes a call and never answers it.

### geecache singleflight (`geecache/singleflight/singleflight.go`)

*State.* The map of flights under `mu`; each flight has a `WaitGroup` and a result.
*Operations.* `Do`. *Interactions.* Called by `Group.load`.
*Hard.* The leader releases its waiters before it takes the flight out of the
map; a panic of `fn` leaves the flight there.
*Correct when* `fn` runs once at a time per key and all who took part return the
same result.

### geecache group and cache (`geecache/geecache.go`, `cache.go`, `lru/lru.go`)

*State.* The LRU cache (list, map, bytes) under `cache.mu`; `peers`.
*Operations.* `Get`, `load`, `getFromPeer`, `getLocally`, `populateCache`,
`RegisterPeers`; `lru.Get`, `Add`, `RemoveOldest`.
*Interactions.* `Get` runs its loads through singleflight; loads call peers or
the user's getter.
*Hard.* A miss and the load after it are two steps; entries larger than the
budget; updates in place; data that changes behind the cache.
*Correct when* the cache holds the most recently used entries within its budget,
a reader never goes back to an older version, and a hit gives nobody an older one
than anybody was given before.

### geecache peers (`geecache/http.go`, `consistenthash/consistenthash.go`)

*State.* The ring: the sorted list `keys` and the map `hashMap`, per process,
under `HTTPPool.mu`. *Operations.* `Set`, `PickPeer`, `httpGetter.Get`,
`ServeHTTP`; `Add`, `Del`, `Get` of the ring.
*Interactions.* `load` picks a peer; its request runs `Group.Get` on the peer.
*Hard.* Processes fill their rings in different orders; hashes may be equal; `Del`
takes hashes out of two structures; a request fails half way.
*Correct when* processes with the same members agree on every owner, adding or
deleting a node moves no keys but its own, and peers understand each other.

### geeweb router (`geeweb/gee/trie.go`, `router.go`)

*State.* A trie per HTTP method and the map of handlers by method and pattern.
*Operations.* `parsePattern`, `insert`, `search`, `addRoute`, `getRoute`, `handle`.
*Interactions.* The engine registers routes and, once it runs, only reads.
*Hard.* `insert` follows the first child that is equal or wild, so the trie
depends on the order of registration; `search` goes back out of children that
match but lead nowhere; handlers are found by the pattern's text.
*Correct when* a path is given the best of the patterns that match it, with the
parameters that give the path again, and never a nil handler.

### geeweb engine and context (`geeweb/gee/gee.go`, `context.go`, `recovery.go`)

*State.* Groups with their prefixes and middlewares; per request the chain of
handlers and the index that all its loops share.
*Operations.* `Group`, `Use`, `GET`, `POST`, `Static`, `Run`, `ServeHTTP`; `Next`,
`Recovery`.
*Interactions.* `ServeHTTP` chooses the middlewares, the router the handler, and
the handlers call `Next`, which calls handlers.
*Hard.* Middlewares are chosen by the path's text, handlers by its parts; any
handler may call `Next`, once, again or not at all, or panic.
*Correct when* a route runs behind the middlewares of its groups, no handler of
a request runs twice or out of order, and who gets the control back from `Next`
finds the whole chain run.

### Not modelled

| Component | Why |
| --- | --- |
| geecache protobuf messages | generated code |
| geeorm | does not compile at this commit (`Session` has two methods `DB`, `Migrate` returns bare with its results shadowed), so it has no behaviour to be faithful to |
| geeorm dialects and log | type names, SQL text and log output |
| example programs | demonstrations of the libraries |

## 2. Modules

| Module | Models | Kind |
| --- | --- | --- |
| `CallOnce` | what a client promises its users | abstract specification |
| `RpcClient` | `client.go`: callers, receiver, connection | state machine, refines `CallOnce` |
| `RpcClientProofs` | | theorems about `RpcClient` |
| `RpcServer` | `server.go`: one connection | state machine |
| `RpcServerProofs` | | theorems about `RpcServer` |
| `SingleFlight` | `singleflight.go` | state machine |
| `Lru` | `lru.go` as operators on a cache | operators |
| `LruMachine` | one `lru.Cache` under every sequence of calls | state machine over `Lru` |
| `LruProofs` | | theorems about `LruMachine`, and the facts about `Lru` that the group needs |
| `GeeGroup` | `geecache.go` and `cache.go` | extends `SingleFlight`, composes `Lru` |
| `GeeGroupProofs` | | theorems about `SingleFlight` and `GeeGroup` |
| `Registry` | `registry.go` with the servers' heartbeats | actions, run by `Discovery` |
| `Discovery` | `discovery_gee.go` with its users | composes `Registry` |
| `DiscoveryProofs` | | theorems about `Discovery` with its `Registry` |
| `XClient` | `xclient.go` and `client.dialTimeout` | composes `CallOnce` for its calls |
| `XClientProofs` | | theorems about `XClient` |
| `ConsistentHash` | `consistenthash.go` | state machine |
| `ConsistentHashProofs` | | theorems about `ConsistentHash` |
| `HTTPPool` | `http.go`: a request from one node to another | state machine |
| `Router` | `trie.go` and `router.go` as operators on a trie | operators |
| `Context` | `context.go` and `recovery.go`: the chain of one request | state machine |
| `Gee` | `gee.go`: registration, then requests | composes `Router` and `Context` |
| `GeeProofs` | | theorems about `Context`, carried over to `Gee`, and about the trie and the engine |
| `MC*` | | instances for TLC |

The pieces fit as the code's do: `XClient` relies on each client keeping the
promise of `CallOnce`, which is what `RpcClient` is shown to implement;
`GeeGroup` extends `SingleFlight` and runs its steps, so the loader's guarantees
hold of its loads; it takes an `Add` to the cache for one step, which `LruMachine`
justifies (`LoopIsTrim`). `Gee` builds the chain of a request with `Router`'s
operators and hands it to `Context`, whose steps it runs.

### How state and actions correspond to the code

**RpcClient.** A call's goroutine goes `idle -> register -> write -> wait ->
returned | cancelled`, with `abort` and `fail` for a write that failed; one
action per section between two points where another goroutine can be seen.
`client.sending` is a variable, for it is held across all of `send`; `client.mu`
is held across steps by `terminateCalls` only, so it is taken exactly when
`rpc = "flush"`. `pending` is the code's map, `header` the shared header,
`Queue(c)` what lies in the channel a call is delivered on. The argument and
result of a call are the call itself, so a result that reaches a stranger shows.
The server answers requests in any order, with results or errors.

**RpcServer.** Agents are the loop, and per request a handler and a worker; a
response is two writes (header, body) under `sending`. `called` and `sent` are
unbuffered, so sending and receiving on them is one step. `stream` says what the
loop's decoder will find: the options, good requests, nothing (requests were
swallowed by the options' decoder), or bytes that do not decode. A body that the
loop sends with an error (`req.argv`, a `reflect.Value`) never encodes with gob,
which closes the connection: `WriteBodyFails` is the loop's only way on.

**SingleFlight.** The sections under `g.mu` are steps, and so are the return of
`fn`, `wg.Done` and the return of `wg.Wait`. Flights are numbered in place of
the code's pointers.

**Lru, LruMachine.** A cache is a record `[maxBytes, ll, cache, nbytes]`; keys
and values are model values with lengths. `LruMachine` splits `Add` at its loop.

**GeeGroup.** `step` says where a goroutine is in `Get` and in the function that
`load` gives to `Do`; the module extends `SingleFlight`, whose variables and
actions are its loader's. The data behind the getter is a version number that grows.

**Registry, Discovery.** Times are ages, kept only as far as they matter, so the
clock needs no end. An HTTP exchange is three steps (send, handle, reply), and
another than the registry may answer it (`BeatUnheard` for a POST, `ErrorAnswers`
for a GET): neither side looks at the status. `unheard` remembers of which
servers the last answer came so.
`mu` is held from `Ask` to `Install`, as in `Refresh`; `Choose` is the second
section, of `Get` or `GetAll`.

**XClient.** A task runs `xc.call`: `dial -> connect -> handshake -> call`, with
`xc.mu` held from `Redial` to the end of the handshake, and `collect` is the
section of Broadcast's `mu`. `state` says what became of each connection;
`orphan` is one whose dial timed out, closed, with its goroutine stuck. A call
ends for a reason only: its server answered or refused it, its connection is
gone, or its context is over.

**ConsistentHash.** `keys`, a sorted list, is kept as the number of times each
hash is in it; sorting follows every change, so the order is no state of its own.
`Set` is `New` and one `Add` per peer, and the properties hold between them.

**HTTPPool.** A name is the sequence of what stands between its slashes, so that
names written one after the other run together; the owner of a key is given,
which `ConsistentHash` says all processes may rely on.

**Router.** A path is the sequence of its segments, the empty one included, so
that `parsePattern` has something to drop. A trie is a function from the labels
of a node, from the root down, to its pattern and its children in the order
they were inserted: two children of a node never have the same part, so labels
name nodes. `insert` and `search` follow the code's choice of children; both are
recursive functions over the height of the trie.

**Context.** A stack of activations, loops of `Next` and handlers in turn; the
variable `index` is the code's `c.index`, shared by all of them. A handler of
the user may return, call `Next` or panic at any time; `Recovery` is the one
handler of the package that does something of its own (`Logger` is one that
calls `Next` once).

**Gee.** One action per call of the API. `ServeHTTP` is one step up to the first
move of the index, for until then the request only reads the engine. `Key`
joins method and pattern as the code does; `HasPrefix` compares text, so
`"ab"` has the prefix `"a"`.

## 3. What the runs check

| Run | Question | Bounds |
| --- | --- | --- |
| `rpc_client` | does each call get one outcome, its own, in the end? | 3 calls, 2 of them by `Go` on one channel of capacity 1 |
| `rpc_server` | is each request answered once, whole, and in the end? | 3 requests |
| `rpc_server_wait` | does `wg.Wait` wait for the methods? (a violation) | 3 requests |
| `single_flight` | one `fn` at a time, one result for all? | 3 goroutines, 2 keys, 3 flights |
| `lru` | do bytes, order, map and list agree? | 3 keys, 3 values, 4 budgets |
| `gee_group` | can a reader go back in time? | 2 goroutines, 2 keys, 3 flights, 2 versions |
| `discovery` | who is listed, who is handed out? | 1 server, 3 users, timeout 10, period 5, list timeout 3, delay 2 |
| `xclient` | does the pool leak, and does a Broadcast end well? | 2 addresses, a Broadcast of 2 and a Call, 3 connections |
| `ring` | do rings with the same members agree, and which keys move? | 4 nodes, 2 virtual nodes each, 9 hashes |
| `web` | does a path find its handler, behind its middlewares, and does the chain run in order? | 4 calls of the API, 2 of them routes; parts `a`, `b`, `:x`, `*f` and the empty one; 2 methods, 2 prefixes, 6 paths; `Next` is called 1 time past the end |
| `trie_test` | does the router do what its test asks? (a violation) | the test's five routes |
| `peer_request` | does a peer accept what a node asks? (a violation) | 3 goroutines, 3 keys |

Why the bounds are enough to be interesting:

- *rpc_client.* Two calls can be in flight while a third registers; two calls on
  a channel of capacity 1 make the receiver block inside `done()`. Connections
  are lost, closed and written to in every order. The theorems hold for any
  number of calls and any capacity.
- *rpc_server.* Any two of three responses may meet at `sending` while the third
  request is refused or never returns.
- *single_flight.* A leader, a waiter and a goroutine that comes late, between
  `wg.Done` and `delete` or after it; three flights let a key be opened again
  after one that ended. The theorems hold for any number.
- *lru.* Budgets 0 (no limit), 1 (holds nothing but an empty value under a short
  key), 4 and 7 (one to three entries); the large value fits with no other, or
  with none of the small budgets at all. There is no bound on the number of calls.
- *gee_group.* The cache holds one value, so each load of one key may evict the
  other; three flights allow a load, a second one and a third after an eviction.
- *discovery.* The proportions of the code's 4 minutes, 5 minutes and 10 seconds
  do not matter, their order does, and the times leave one unit to spare; ages
  that no property tells apart are merged, so behaviours are of any length.
  Nothing in the registry relates two servers, so one is enough to check; what
  is proved holds for any number of them, as of users.
- *xclient.* Each task connects at most once, so three connections are never
  too few: one can be lost and replaced while its user still holds it.
- *ring.* Two nodes share a hash, a hash may be in the list twice, and the keys of
  the last hashes wrap around; nodes are added and deleted without end.
- *web.* All registrations of four calls in every order: two routes that differ in
  a static and a wild part, in both orders, in nested groups with a middleware or
  two; a path that has a group's prefix as text only (`/ab/b`), one with an empty
  segment, and one that is longer than every pattern but a star's. Chains have up to four
  handlers, each of which may call `Next` again at any time. What is proved of the
  chain holds without bounds.
- *peer_request.* A key of the node's own, one of a peer's, and one with a slash.

What the properties say:

- *RpcClient.* `OneDelivery` (no call is delivered twice, and none waits when
  nobody will deliver any more), `ReplyMatches`, `CancelledIsLeftAlone` (a call
  whose context ended is not written to, except by a receiver that had it in
  hand), `OneOutcome` (refinement of `CallOnce`), `EveryCallSettles`,
  `LossReleasesCalls`.
- *RpcServer.* `AtMostOneResponse`, `WellFramed` (responses do not mix, and a
  header announces the body that follows), `ClosedMeansAnswered`,
  `AnsweredOrClosed`, `HangUpClosesConn`.
- *SingleFlight.* `OneFnPerKey`, `SameResult`, `MapMatchesLeaders` (a flight in the
  map has a leader inside `Do`, and a leader deletes its own flight),
  `WaiterReturns` (unless the leader's `fn` panicked: then it waits for ever).
- *LruMachine.* `WithinBudget` (`nbytes` is exact, so the loop of `Add` ends),
  `RecentlyUsed`, `Coherent`, `LoopIsTrim`.
- *GeeGroup.* Of the keys of this node: `MonotonicReads` (no goroutine is given an
  older version than it had), `HitsAreCurrent` (the cache is never behind what
  any goroutine was given).
- *Discovery.* `BeatingStaysListed` (a server that beats on is listed, unless the
  last of its POSTs that was answered was answered by something else than
  `putServer`; one that arrives lists it again), `NoGhost` (of the list when
  `Refresh` returns; a user that waits before it chooses is bounded by nothing).
- *XClient.* `NoConnLeak`, `BroadcastOutcome`, `BroadcastReturns`: a Broadcast
  returns unless some server is silent for ever on a call it has taken, no call
  has failed and nobody cancels. Dials that hang do not stop it, and the first
  error releases the calls that wait.
- *ConsistentHash.* `OwnerIsNearest` compares the search in the list with a
  reference definition by distance, and implies that rings with the same members
  agree; `MinimalMoves`.
- *Gee.* Of every path in every state of the registration: `RoutesRight` compares
  `getRoute` with a reference matcher, of the registrations in which no route
  comes after one that hides it (`WellOrdered`); `FoundIsServable` holds in any
  order; `GroupsGuardRoutes` holds of well-ordered registrations, of paths
  without empty segments and of groups whose prefix has neither wild nor empty
  parts, for `ServeHTTP` compares text. It says that all middlewares of the
  groups around the route are in the chain, once each and in order; those of
  other groups may stand among them, since `/ab/b` has the text prefix `/a`. Of
  every request: `RunsInOrder`, `NextRunsTheRest`.

Each property has a mutant of the code that breaks it (`PROJECT.json`,
"mutants"); the mutants stand before the definitions they alter, marked
`(Mutant)`.

### What the runs found

`rpc_server_wait` is a violation. The comment at `server.go:124` says that
`wg.Wait()` waits until all requests are processed. When the timer of a request
fires, its handler answers and calls `wg.Done` while the method goes on, so the
loop closes the connection and `ServeConn` returns while methods of this
connection still run. Their goroutines stay blocked on `called` for ever.

`peer_request` is a violation too. `ServeHTTP` requires group and key to stand
between slashes (`http.go:52`), while `httpGetter.Get` writes them with none
between (`http.go:117`). Every request to a peer is refused, and `load` falls
back to the node's own getter: no value comes from a peer, and nobody notices.
`GeeGroup` models the interface `PeerGetter`, whose `Get` may succeed; with this
`HTTPPool` its step `FromPeer` is never taken.

`trie_test` is the third. `TestGetRoute` requires that `/hello/zzz/a` has a route
(`trie_test.go:43`); none of the five that `newTestRouter` registers matches it,
and the router rightly finds none. The same trie shows what registration order
does: `/hello/b/c`, which comes after `/hello/:name`, is filed below `:name`
(`trie.go:15`), so that `/hello/zzz/c` finds it.

Seen while modelling, without a run of their own: `Recovery` recovers nothing, for
`trace` slices its array by a program counter and panics inside the deferred
function (`recovery.go:17`); no comment or test says what it should do, so no run
holds it to anything. A path such as `//a/b` finds the route of `/a/b` without the
middlewares of the group `/a` (`GroupsGuardRoutes` exempts it). A heartbeat that
an error page answers counts as sent, and the server beats on unlisted
(`BeatingStaysListed` exempts it until a POST arrives again); a server that
takes a call and never answers it blocks a Broadcast whose other calls succeed
(the alternative in `BroadcastReturns`); a request that arrives with the options may be swallowed by their decoder (`stream = "mute"`, which
`AnsweredOrClosed` has to exempt); a panic of `fn` blocks its key for good; a
dial that times out leaks a goroutine; an error page of the registry is taken
for an empty list; `Del` of a node whose hash another one shares leaves the
other's keys without an owner (`OwnerIsNearest` exempts it as `spoilt`).

## 4. Fairness and assumptions

- *Client.* The goroutines of the client run, and the user of `Go` receives from
  the channel (`WF` of each call's `Send` and `Return` and of `Receive`). Nothing
  is assumed of the server except in `EveryCallSettles`, whose premise is a
  server that answers or a connection that breaks. `DoneCap >= 1`: `Go` itself
  warns of an unbuffered channel.
- *Server.* Goroutines run and writes end, for the client reads; nothing is
  assumed of the user's methods, nor of what the client sends. `Handle` is fair
  because the timer fires:
  the loop passes 3 s (`server.go:122`), so the branch of `handleRequest`
  without a timer is never taken.
- *SingleFlight.* A goroutine inside `Do` goes on and `fn` ends, by returning or
  by a panic. A panic does not end the process here, for an HTTP server recovers it.
- *Discovery.* No fairness; the timing assumption is that an HTTP exchange takes
  at most `Delay`, with `Period + 2 * Delay < Timeout` and `Delay < Period`.
  Neither HTTP client has a timeout, so the network has to give this bound.
  The clocks of the registry and of its users need not agree, for only
  differences on one machine are taken.
- *XClient.* Goroutines run, timers fire, a client hands over the answer that came
  or the end of its connection (as `RpcClient` does under `ClientFairness`), and
  Broadcast's calls see that their context is over. That is less than the
  fairness of `CallOnce`, under which every call settles: servers need not
  answer, connections need not break, and a context need not end. Handshakes
  need not end either: `ConnectTimeout` is not 0 (the default is 10 s).

- *Web.* No fairness. A request has a goroutine and a `Context` of its own, so one
  request at a time stands for them all; nothing is registered once `Run` was
  called; `net/http` recovers what `Recovery` does not. A star has a name after it.

## 5. What is proved

With TLAPS, for every value of the constants that the modules' assumptions allow.

**RpcClientProofs.** The properties of `rpc_client` are not inductive: that a
response matches its call depends on the map, on the wire and on who holds
`sending`. `IInv` adds

- `LockInv`: who holds `sending`, from where each goroutine is, and that none is
  in the middle of `send` once the receiver has set `shutdown`;
- `SeqInv`: numbers are given once, and the shared header is that of the call
  being written;
- `MapInv`: the key of a pending call is its `Seq`;
- `WireInv`: a request or response on the wire carries the number of its call;
- `HandInv`: what the receiver has in hand is no longer pending and has not been
  delivered;
- `DeliveryInv`: a call has been delivered, or somebody still has to deliver it
  (the map, the receiver, the flush or its own goroutine), never both;
- `ResultInv`: a delivered call has an error or its own reply.

There is one lemma per action. From `Spec => []IInv` follow `TypeCorrect`,
`DeliveredOnce`, `RepliesMatch`, `SilentAfterShutdown` (no request is written
after `shutdown`; proved only), `CancelledLeftAlone` and `Implements` (the safety part of `CallOnce`, each step
mapped to a step or a stutter).

**RpcServerProofs.** What goes out on the connection depends on who holds
`sending` and on how far handler and worker of each request are: `LockInv` (who
is in the middle of a response), `PairInv` (of handler and worker one answers),
`FreshInv` and `BadInv` (what the loop has not read or refuses has no handler),
`ErrInv` (the error in a header is that of the one who answers), `HeaderInv` (one
header per request, and none while somebody may still write it), `TailInv` (what
the stream ends in while a body is missing), `CloseInv` and `DoneInv` (who is
through has answered, unless the stream was cut off by a body that does not
encode). From them `TypeCorrect`, `AnsweredOnce`, `ResponsesWhole`, `NothingCutOff`.

**XClientProofs.** `PoolInv` (what the pool holds is open or lost, under one
address each), `DialInv` (the connection of a dial is in nobody else's hands),
`CallInv`, `CastInv` and `CtxInv` (Broadcast's error and reply speak for the
tasks that have collected; its cancellation comes after its error). From them
`TypeCorrect`, `NothingLeaks`, `BroadcastCorrect`.

**DiscoveryProofs.** The bounds add up along the way of a server's age: `BeatInv`
and `PutInv` bound the time since the last `putServer` by the state of the
heartbeat, unless its last answer came from something else, so that
`Period + 2 * Delay < Timeout` keeps a server listed whose beats arrive
(`HealthyIsListed`); `AgeInv`, `ReplyInv` and `ListInv` bound the silence of a
server in the table, in a reply on its way and in the cached list, so that a
`Refresh` hands out nobody who has been silent for `Timeout + DTimeout + Delay`
(`SilentIsDropped`).

**LruProofs.** `Inv` says that the cache is `WellFormed` (the list has each key
once, the map has the same keys, and `nbytes` is the last of the partial sums of
the sizes), that it is within its budget between calls, that the user's mirror
has the cached keys, and that the list is a front part of `recency` with the last
values (`Recent`). Two definitions are recursive functions, the sum of the sizes
and the removals of `Add`'s loop. To the prover such a function is a `CHOOSE`:
`Iterates` shows that there is one, and what holds of it along the list follows
by `Induction` over the numbers up to the list's length, which rests on the least
number outside a set (`Least`), not on an operator parameter. So the loop ends
and `Trim` is the first removal within the budget, or the empty cache
(`TrimEnds`), what any removal keeps `Trim` keeps (`TrimKeeps`), and an iteration
of the loop changes nothing about its end (`TrimAfterOne`). From these
`StaysWithinBudget`, `StaysRecentlyUsed`, `StaysCoherent` and `AddIsTrim`, for
any keys, values, lengths and budgets. The last section states the cache's
interface, `GetFacts` and `AddFacts`: what a lookup finds after a `Get`, and
after an `Add` with all its evictions.

**GeeGroupProofs.** Of singleflight on its own: `LeaderInv` (a leader's flight is
in the map under its key, and its own), `ReadyInv` and `GotInv` (a flight that is
over has a result of `fn`, which then stays and is what was returned) make the
invariants inductive; from them `TypeCorrect`, `MutualExclusion`, `Agreement` and
`MapDiscipline`. The group's steps are the loader's with more to say of each
(the lemma `LoadsAreFlights`), so these hold of the group's loads:
`OneLoadPerKey`, `OneResultPerLoad`. `GroupTypeCorrect` adds the group's own variables, with
`LruProofs` for the cache: it holds values of the getter only and stays within
`cacheBytes`.

`ReadsAreMonotonic` proves `MonotonicReads`, which is about all the parts at once.
A version of a key may still reach a reader from the cache, from the hands of
`fn`, or from a flight that is over and whose waiters have yet to return.
`DataInv` orders these places: nothing is newer than the data (`PastInv`); what
a leader has loaded, and then the result of its flight until it is deleted, is
no older than anything of its key served, cached or waiting (`LoadInv`,
`DoneInv`), because no other flight of the key runs; who waits was not served
anything newer (`WaitInv`); and what is cached is no older than all the rest
(`CacheInv`), because the leader caches before its flight is over. The last is
also `NothingNewerWasServed`, which proves `HitsAreCurrent`. Each step
either adds nothing newer (`Carries` and the lemmas named `Quiet`) or is one of
`Hit`, `Load`, `LoadReturns`, `Populate` and `Loaded`, which have a lemma each.
TLC found this invariant to hold on every state of `gee_group` before it was
proved. The theorem needs singleflight's invariant (one leader per key),
`AddFacts` (an eviction may drop the new value, but not bring back an old one)
and the fact that a goroutine is out of `Do` when it misses.

**ConsistentHashProofs.** `sort.Search` with `% len` finds the first hash at or
after the key's, or the first of all (`FirstFinds`), which is the nearest going
round (`FirstIsNearest`), survives the removal of others and gives way to new
ones only (`FirstOfFewer`, `FirstOfMore`). With `RingInv` (list and map hold
exactly the members' virtual nodes, as long as no hash was there twice) follow
`OwnerNearest` and `FewKeysMove`, for any nodes, hashes and virtual nodes.

**GeeProofs.** `Alternating` and `IndexInStep` say where the shared index stands
when a loop, or a handler, has the control. `HandlersRunInOrder` and
`ChainRunsToItsEnd` hold for any chain and however often `Next` is called; the
lemma `EngineRunsContexts` carries them from `Context` to the engine.

Of the router, `EngineInv` says that the groups are nested in earlier ones
(`GroupsOK`), that handlers belong to groups (`RoutesOK`), and that every trie is
`Grown` and every pattern in it registered, with a handler (`TreesOK`). `Grown` is
what `insert` keeps (`InsertFacts`): the labels are closed under the parent, a
node's children are in the trie, and a pattern stands at a node whose label is as
long as the pattern has parts, although the label may differ from them where
`insert` followed a wild part. The last point is why the parameters' indexes stay
in range, and it needs the induction over the nodes that `insert` visits
(`VisitedFacts`). `search` is recursive from a node to its children, so that there
is such a function at all has to be shown: by induction on the height left to the
end of the path (`SearchDefined`), which `Grown` makes possible; and by the same
induction whatever it finds is the pattern of a node within reach
(`SearchFacts`). From these `TypeCorrect` and `FoundHasHandler`, for any segments,
registrations in any order, and paths.

`OrderInv` adds what holds of routes registered in a good order (`WellOrdered`).
Then `insert` goes straight down along the parts of the new pattern
(`InsertGoesStraight`), so that the trie `Holds` its routes (`InsertHolds`): its
labels are the beginnings of their parts, a wild child is the last of its parent's,
and a node has the pattern of the newest route with its parts. In another order
none of this need hold of a trie, while `Grown` does. Of such a trie `search` finds,
from any node along the path, the best of the matching routes below it
(`RightAbove`, and by induction on the height again `SearchIsRight`): it tries the
static child that matches, if there is one, before the wild one, and what it finds
there beats whatever is below the wild one. If their names differ, the parameters
give the path again (`ParametersFill`). That is `BestRouteFound`.

For `GroupsGuard`, `GroupsNest` says that the prefixes of nested groups begin with
one another and a route's pattern with its group's prefix. A path that matches the
pattern then has these prefixes too (`MatchHasPrefix`), so `ServeHTTP` has chosen
their middlewares; what is left of the chain without those of other groups is
exactly theirs, in order (`OfGroupsFlatten`).

The proofs rest on the named assumptions of the modules: the sets of model values
are disjoint where the code's are, `DoneCap`, `MaxFlights`, the lengths of keys
and values and the budgets are numbers, and the data has a first version.

Of the paths that `Gee` is given it is assumed that they are sequences of segments.
`Discovery` assumes that its times fit together (`TimesFit`), `ConsistentHash` that
every node has a virtual node and that there are finitely many of them.

*Only model-checked:* liveness (`EveryCallSettles`, `LossReleasesCalls`,
`AnsweredOrClosed`, `HangUpClosesConn`, `WaiterReturns`, `BroadcastReturns`), out of
the prover's reach.

## 6. Not modelled inside the modelled components

- Registration of services and reflection: a map filled at start-up.
- A method that panics: it ends the process.
- `Go` with an unbuffered channel (see section 4).
- The text of options, addresses and the HTTP upgrade; gob's details beyond
  those named above.
- Discovery: `Update` by the user, and which server is chosen from the list;
  timeouts of 0.
- Peers: `Set` while requests are under way, and the encoding of the answers.
- Web: what handlers write to the response (`String`, `JSON`, `HTML`, templates,
  files), and a star without a name.
- Group: the table of groups, empty keys, the copying of byte slices.

## 7. What is left

1. `HTTPPool.Set` while requests are under way, and several nodes whose rings
   differ for a while; a user's `Update` of a discovery.
2. `geeorm` (`Engine.Transaction`, the clauses) once it compiles.
