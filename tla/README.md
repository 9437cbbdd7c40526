# AoiFramework in TLA+

AoiFramework is a collection of Go libraries: an RPC framework with service
discovery (`src/aoirpc`), a distributed cache (`src/aoicache`), a web framework
(`src/aoiweb`) and an ORM (`src/aoiorm`). This directory holds TLA+ models of
its parts, the TLC runs that check them and TLAPS proofs about them.

    tlc -config MCRpcClient.cfg MCRpcClient      one run (see "Runs")
    tlapm RpcClientProofs.tla                    one proof module (see "Proofs")

`PROJECT.json` lists the components, the runs with what each shows, the source
lines of every definition, a mutation of the code for every property, the
hazards and the theorems.

## Inventory

What each component keeps, does and shares, what is hard about it, and what
makes it correct.

**RPC client** (`aoirpc/client.go`). State: `seq`, `pending` (number to call),
`closing`, `shutdown`, the locks `sending` and `mu`, the connection; each call has
a `Seq`, an `Error`, a `Reply` and a `Done` channel that may be shared.
Operations: `Go`, `Call`, `Close`, and the goroutine `receive` that ends in
`terminateCalls`. It talks to the server through a gob codec. Hard: three parties
(`send`, `receive`, `terminateCalls`) may complete the same call, a context may
end at any point, a full `Done` channel blocks whoever signals, a `Write` may
fail behind a request that left, and the connection may go while a call registers.
Correct when each call is signalled once, with the answer to its own request, and none
is forgotten.

**RPC dialling** (`aoirpc/client.go`, `dialTimeout`). State: a connection, a goroutine
(the maker) that makes a client of it, a timer, an unbuffered channel and `finish`.
Hard: the timer races the client, and the answer to an HTTP CONNECT may never
come, after which only a closed connection frees the maker. Correct when a client
that comes too late keeps neither its connection nor its goroutines.

**RPC server** (`aoirpc/server.go`, `service.go`). State: the registered services,
the package variable `handleTimeout`; for each connection a reader goroutine, a
lock for responses; for each request a handler and a worker that meet on the
unbuffered channels `called` and `sent` and on `finish`. Hard: the time limit
races the result, three kinds of goroutines write to one connection, the
connection ends under running handlers. Correct when every request has at most
one whole response, a limited one has one, no goroutine stays behind, and what
was registered first under a name stays, whoever registers that name later.

**Registry, heartbeats, discovery** (`aoirpc/registry`, `aoirpc/xclient/discovery*.go`).
State: the items of the registry with the time of the last beat; a goroutine
with a ticker in each server; a cached list with an index in each client. HTTP
requests connect them. Hard: two timeouts of different processes, requests that
take time and arrive late, a registry that restarts with nothing, the list
changing between refresh and choice. Correct when beating servers stay listed,
stopped ones disappear in bounded time, and turns are even.

**XClient** (`aoirpc/xclient/xclient.go`). State: the pool of one client for each
address under a lock; in `Broadcast`, a reply, an error and a wait group. It uses
the discovery and RPC clients. Hard: dialling under the lock, dead clients in
the pool, workers that finish in any order, `Close` in between. Correct when no
connection leaves the pool open, `Broadcast` returns with the answer of a worker
that succeeded, and every server has run the call.

**Cache** (`aoicache`). State: an LRU list with its map and byte counter
(`lru`), the calls in flight (`singleflight`), the ring of nodes
(`consistenthash`, `server.go`). `Group.Get` looks in the cache, joins or leads a
call, asks the owner of the key over HTTP or the user's getter. Hard: many
goroutines miss at once, loads fail, entries are evicted while others load,
nodes call each other, with lists of nodes that need not be the same, on a ring
whose places may collide or of which there are none. Correct when the budget holds with the least recently
used entries gone, a key is loaded once at a time, on a node and, when the nodes
agree, in the cluster, and every `Get` returns the result of the call it shared.

**Web** (`aoiweb`). State: a trie of routes for each method, the handlers by
pattern, the list of groups with their prefixes and middlewares; for each request
the chain of handlers and the index that `Context.Next` walks it with. Set up first,
then one goroutine for each request, which share nothing they write. Hard: wild
parts that overlap static ones, an order of registration, a router that reads parts
where groups compare text, an index that nested `Next` calls share, a panic inside
of them. Correct when a registered route is
found and the closest one wins, the middlewares of its groups run, and the
chain is run once, in order and to its end.

**ORM** (`aoiorm`). State: a session keeps the text and arguments of a statement,
the clauses, a table and a transaction. Hooks of the user get the session in the
middle of `Insert` and `Find`. `Engine.Transaction` and `Migrate` run steps that may
fail or panic. Hard: operations inside operations, statements cut short, a
transaction that has to end on every path. Correct when a statement is made of
its own pieces, a transaction saves all or nothing and is not left open, and a
migration is complete or void.

The rest is generated code (`cache.pb.go`, `cache_grpc.pb.go`), the debug page,
logging and the demonstration `main.go`.

## Modules

| module | models | state and actions |
|---|---|---|
| `RpcClient` | `aoirpc/client.go`, gob codec as it uses it | fields of `Client` and `Call` under their names; `pc` is the place of each caller in `Go`/`send`/`Call`, `rpc` that of `receive`/`terminateCalls` |
| `Service` | `service.go`, `Register` and `findService` of `server.go` | `serviceMap`; which methods of a receiver `registerMethods` takes |
| `RpcServer` | `aoirpc/server.go` | extends `Service`; `rd` is the place of each reader, `hd` and `wk` those of handler and worker of each request; `inp`, `out` are the two directions of a connection in message parts |
| `Registry` | registry, heartbeats, discovery | time stamps as ages; `Tick` passes time; `Start`, `Post*`, `Stop` and their like are servers, whose POSTs `Arrive`, perhaps late; `Refresh*`, `Pick*`, `Update` one client, whose GET the registry answers in `RegistryLists` |
| `Dial` | `dialTimeout` of `client.go` | `conns` has the connection, the maker and the receive goroutine of each dial |
| `XClient` | `xclient.go` | extends `Dial`; the pool, the goroutines in `Call`/`dial`, the collection of results in `Broadcast`, `Close` |
| `Lru` | `lru.go` | list, map and counter, one operator for each method |
| `LruSpec` | what `lru` promises | a set of entries, an order of use, a budget |
| `CacheGroup` | `aoicache.go`, `cache.go`, `singleflight.go` | extends `Lru`; `pc` is the place of each goroutine in `Get`/`Do`/the loader |
| `HashRing` | `consistenthash.go` | no state: `Ring(list)` is what `Add` makes, `Owner` is `Get` |
| `Cluster` | `server.go`, `getter.go`, and the groups of several nodes | extends `HashRing`; `peers` is the list each pool was `Set` to, `flight` the calls of each node; `<<u, d>>` is the goroutine for user `u` that `d` nodes have handed on |
| `Router` | `trie.go`, `router.go` | `PartsOf` is `parsePattern` on what is written between slashes; `kids` and `leaf` are the nodes of the trie, named by the parts that lead to them; `Place` is `insert`, `Found` is `search` |
| `Web` | `aoi.go`, `group.go`, `context.go`, `recover.go` | extends `Router`; `stack` has one record for each `Next` that is active, `index` is the one they share |
| `Session` | `session/*.go`, `clause.go` | `sql`, `cla` and `tx` are those of the session, as sets of pieces; `calls` holds the `Insert`s and `Find`s whose hooks are running |
| `Orm` | `orm.go` | extends `Session`; `mode` is who has the session, `step` the place in `Migrate`, `table` what the transaction sees of it |

`CacheGroup` composes the group, the single flight and the LRU cache.
Its steps implement `LruSpec` under the mapping given at the end of `Lru`, with
goroutines that come and go around them. `Cluster` composes groups of several
nodes over the ring: what is left of a group there is its single flight and which
keys it caches, the rest being in `CacheGroup`. `XClient` composes the
pool and dialling; of a client it uses the abstraction that `IsAvailable` gives.
`Web` composes groups, router and contexts; `Orm` composes the Engine and its
session. `MC*` modules extend a module and define values for its constants;
`*Proofs` modules hold theorems.

A critical section of a mutex is one action, unless the code blocks inside it:
the sections of `Client.sending`, of `terminateCalls`, of `sendResponse` and of
`XClient.dial` are therefore held across actions (`sending`, `MuFree`, `lock`, `mu`).
A rendezvous on an unbuffered channel is one joint action (`Called`, `Sent`,
`DialReturns`). A select with several ready cases is a choice. External parties
(network, the other end, contexts, getters, clocks) act at any time.
The variables marked "history" record the past for the properties only.
Operators whose comment starts with "Fault" are plausible mistakes in the
definition that follows them; no specification uses them. They are there to
show that each property notices one.

## Runs

| run | instance | shows |
|---|---|---|
| `rpc_client` | a call with a context, two asynchronous calls, shared channel of capacity 1 | one signal for each call, own answer, no stranded call, settled replies, everything returns when the connection is gone |
| `rpc_client_lost` | two calls with contexts | violated: the notification of every call, see findings |
| `rpc_server` | two connections, two requests on one of them, two types of one name registered at any time | one whole answer, workers and readers end, limits are answered, what was registered stays |
| `rpc_server_limit` | two connections, one request | violated: a connection has its own limit |
| `registry` | two servers, timeout 4, period 1, refresh after 2, requests of up to 1 | beating servers listed, bounded staleness, even turns |
| `xclient` | broadcast to two servers, one caller, up to two connections, dials with a time limit | no lost connection, no goroutine left on a closed one, the broadcast returns, with the answer of a worker that succeeded |
| `xclient_broadcast` | broadcast to two servers | violated: all servers ran the call |
| `cache_group` | three goroutines, two keys, one owned by a peer, budget 5 | exact counter, `LruSpec` implemented, one load with one result, no reload, every `Get` returns |
| `cache_peer` | two goroutines, a key of a peer | violated: a peer's answer is delivered |
| `cluster` | two nodes with colliding virtual nodes, two users, one key, lists in both orders or empty, `Set` at any time | one load on a node and in a cluster that agrees, every `Get` ends |
| `web` | five calls of `Group`, `Use`, `Get`, then requests | no route lost, the closest match, guarded groups where text and parts agree, complete chains, requests end |
| `orm` | four operations, two values or rows, tables of three columns | exact statements, atomic transactions that are not left open, exact migrations |

Bounds, and why they are enough:

- Calls, requests and goroutines make one operation each. Two calls are enough
  for all races between calls; the third fills the shared channel (`DoneCap = 1`)
  so that `receive` and `send` block in `Done`. The theorems lift these bounds.
- `rpc_server`: two requests share a connection, so that a handler, its worker
  and the reader, which answers the request it refuses, contend for it; the other
  connection has no limit and changes `handleTimeout` in between. One method is
  found with the first type and not with the second, so both orders of
  registration matter. The theorems lift the number of requests.
- `registry`: an age stops counting where no comparison can tell any more: of an item
  at `Timeout`, of a list at `TTL`, of a stop at `GoneMax`, the longest time a list can
  remember it. With a period of 1 and requests of up to 1, two beats arrive up to 3
  apart, one step before an item expires. `MaxStarts = 2` processes are started, two
  servers or one that starts again. The counts of turns are kept relative to what all
  servers of the list have. `index` starts anywhere, as the random number in the code.
- `xclient`: `MaxDials = 2` connections are made, other dials fail: two that exist at
  once, or an address that is dialled again after a loss, a time-out or a `Close`.
  `Limited = TRUE` in the run with liveness; see Fairness. The theorems
  lift the bound and hold without a limit as well.
- `cache_group`: entries take 2, 3, 5 and 6 bytes of a budget of 5, so that two fit,
  one fills it, and one exceeds it alone and evicts itself. A goroutine whose `Get`
  is over is replaced (`Leave`), so every key is loaded, evicted and loaded again.
- `cluster`: two nodes with two virtual nodes each, of which one place is shared, so
  that the order of the list decides who owns it; the key is behind the last
  place and belongs to the first. `Hops = 2` bounds how often a request is handed
  on; with lists that agree the first hand-over reaches the owner, the second
  takes lists that change or disagree, and closes the circle.
- `web`: `MaxSetup = 5` calls set up two groups with a middleware each and a route
  in one of them, or five overlapping routes. One static part begins with another, as
  `strings.HasPrefix` compares strings and not parts. A prefix may have a wild part, a
  pattern may end with a slash, and paths have empty parts before and behind others.
- `orm`: `MaxOps = 4` operations of a session, hooks nested once: an `Insert` whose
  hook runs a `Find`, and two more statements around them. Three columns are one
  that is kept, one that is added and one that goes. The theorems lift these bounds,
  all but the depth of the hooks.

Deadlock is checked in `registry`, `xclient`, `web` and `orm`.
In `rpc_client`, `rpc_server`, `cache_group` and `cluster` the system stops by itself
when all calls and requests are over or wait for something that need not
happen (in the caches, for a call that a panic has wedged, and in `cluster`, in the
circle described below), and their liveness properties take its place.

Fairness: weak fairness of each goroutine's steps, as the Go scheduler runs
every goroutine that is ready, and no lock of this code is contended for ever in
an instance. The timer of a limit fires (`Timeout`), a getter returns, and in `Web`
a handler ends, by a return or a panic. A service method need
not return, a context need not end, a server need not answer, nobody need close
a connection. In particular:

- `rpc_server`: `PeerReset` is fair: the system of a client
  that is gone resets the connection when a response arrives.
- `rpc_client`: `DisconnectReturnsCalls` needs a user who drains his channel
  (`TakeDone`), as the comment of `Fairness` says.
- `xclient`: a maker may wait for an answer to CONNECT for ever; it is fair
  only once its connection is not open any more (`Unblocked`). With
  `ConnectionTimeout` 0 there is no timer either, so such a dial keeps `XClient.mu`
  for ever: this is why the run has a limit. The calls of `XClient` return.
- `cluster`: a request between nodes need not fail, and `http.Get` has no time limit:
  only steps that hang on an answer that will come are fair (`Asking`).

## Findings

Each is a run with `expect: violation`, quoted in `PROJECT.json`.

1. A refused call cancels another one (`client.go:261`): its `Seq` is still 0.
   `rpc_client_lost`. `NoStrandedCall` and `DisconnectReturnsCalls` hold in
   `rpc_client` with exactly this case (`LostToRefusedCall`) excepted.
2. `handleTimeout` is shared by all connections (`server.go:68`, `80`).
   `rpc_server_limit`.
3. The answer of a peer panics inside the single flight (`aoicache.go:89-90`).
   `cache_peer`. `GetReturns` and `GetsEnd` except the keys wedged this way (`Wedged`).
4. `Broadcast` chooses servers at random and drops errors (`xclient.go:93`, `96`).
   `xclient_broadcast`.

Behaviours that the models have, and no text of the repository forbids:

- The decoder of the Option may keep the beginning of the first request
  (`server.go:76`, `ReadOptions`), which is then never served. The properties of
  `rpc_server` hold in spite of it.
- Two nodes whose lists name different owners for a key can each ask the other
  for it and wait in a circle, each leading the call of its own flight
  (`server.go:88-99`). `GetsEnd` excepts nodes whose lists have disagreed (`split`).
- A pool that was `Set` to nobody divides by zero in `Get` (`consistenthash.go:50`,
  `PickPanics`), inside of the single flight, and wedges the key.
- A server whose heartbeat fails once never beats again (`registry.go:117`), and a
  registry that restarts has forgotten all servers until they beat (`registry.go:29-35`).
  `BeatingListed` is about servers that beat on and were heard by the registry that runs.
- A POST under way when its server stops may register it afterwards. It is listed then
  until its item expires, for which `StaleBounded` has the time of a POST.
- The router finds a route by the parts of a path, leaving out empty ones
  (`router.go:24-33`), and the Engine compares prefixes of groups with the path as it is
  written (`aoi.go:26`). So the request `//admin/x` reaches the handler of `/admin/x`
  without the middlewares of the group `/admin`, and those of a group `/admin/` do not
  run for `/admin`, nor those of a group with a wild prefix like `/:id` for anybody.
  `GroupGuarded` says that the middlewares run in all other cases, of static prefixes
  and paths without an empty part within them (`Comparable`).
- The options of a connection that is refused for its magic number or its codec have
  set `handleTimeout` by then (`server.go:80-88`, `OptionsFail`).

## Proofs

`RpcClientProofs`, for any sets of calls and any capacity of the channel, from
`ClientAssumption` only: `TypeOK`, `SignalledAtMostOnce`, `ReplyToOwnRequest`,
`SettledReplyStable`, `NoStrandedCall`. None of these is inductive. The right to signal a call is a
token: the sender has it until the call is registered, then `pending` has it, then
whoever takes the call out of `pending`. That may be `receive` while the sender's own
`Write` is failing behind a request that left: what `removeCall` returns decides
(`TakenElsewhere`). The invariant `IInv` says

- who holds which lock at which place (`LockInv`),
- that `pending` files each call under its own number after it was registered,
  and that a sender finds nobody else's call under its number (`PendingInv`),
- what the locals of the receive goroutine mean at each place (`ReceiverInv`),
- that a holder of the token has not used it (`Once`),
- that answers under way carry the number of their call, and that only
  signalled calls are in a channel (`AnswerInv`).

Each part has its lemma, by cases on the actions; `Invariance` combines them.
`NobodyStranded` adds that a number is given once and a refused call keeps 0 and
is in nobody's hands (`RefusalInv`), and that every call with a number that is not
signalled is being registered, written or taken back by its sender, or is in
`pending` or with the receive goroutine, or was lost as finding 1 says (`TrackInv`).
`LocksComeFree` is about what blocks: nobody who holds `sending` waits for `mu`, and
a send on a Done channel waits for nothing but the users of `Client.Go`, one of whom
has then an outcome to take. This needs `SentInv`: an outcome lies in the shared
channel only while its user is still to come for it, and an answer is under way only
for a call whose sender has come to an end of its `Write`, one way or the other. With
room for all of its calls
the channel is never full (`RoomForAll`).

`RpcServerProofs`, for any connections, requests and receivers, from
`ServerAssumption`: `TypeOK`, `AnsweredOnce`, `ResponsesWhole`, `StaysKnown`. The
invariant `Inductive` follows a request through the server. `StreamInv`: a request is
at one place before it is handled, in the stream, where its parts come once and
in order, or with the reader. `PhaseInv`: handler and worker are at places that fit
each other, so that not both go on to answer, and whoever holds the lock of a
connection is writing to it. `AnswerInv`: a request without an answer is still
due one by exactly one of stream, reader, handler and worker (`Waiting`), and one
whose header was written is due its body by the holder of the lock. `WholeInv`: what
was written is pairs of parts, but for the header of the writer who holds
the lock; it is proved together with `AnsweredOnce` and `ResponsesWhole` (`Whole`). `KnownStays` needs only that a request that was found when it was sent
is found ever since (`KnownInv`), as `LoadOrStore` keeps the first of a name.
`NobodyBlocks` says that the lock of a connection is only ever held by somebody who
has a body left to write (`HeldInv`), and that a worker which comes back from its
method finds its handler where it can hand over.

`RegistryProofs`, for any addresses and any durations, the period and the time of two
POSTs being shorter than the timeout unless that is 0 (`RegistryAssumption`): `TypeOK`,
`BeatingListed`, `StaleBounded`, `EvenTurns`. The
invariant relates clocks: the age of a beating server's item and the time to its next
tick sum up to at most the period and the time of a POST, and the next POST adds its own
time, which makes `Gap` (`BeatInv`). No item is younger than the silence of its server by
more than the time of a POST (`SilenceInv`), since a server sent its last one before it
stopped (`LateInv`), and what an answer on its way names was not yet expired after its GET
was sent (`AnswerInv`).
`ListType` says that a list is never longer than the set of addresses, so the index is
bounded. `TurnsAreEven` rests on `TurnInv`: the turns counted are those of a round that
began somewhere in the list and has come to `index`. A refresh keeps it, because two
sorted lists of the same servers are equal (`SortedUnique`).

`XClientProofs`, for any servers, callers and number of dials, with or without a
limit: `TypeOK`, `NoLeak`, `ReplySettled`. A connection in the pool
is to the address it is filed under (`PoolInv`). A goroutine that dials
holds `mu` and has emptied the pool's place for its address, which therefore
stays empty until it stores the new client there: this is what keeps the
old connection from being forgotten. `DialIsAnswered`: who holds `mu` is connecting or
waits for a maker that has not ended, since a maker ends only when its dialler took
the result or is gone; and every client that is called was made (`MakerInv`).

`CacheGroupProofs`: `SharedFlight` states `SingleFlight` for any callers and keys. A
goroutine that loads leads the call in the map (`LeaderInv`), one that waits has a
call that is in flight or that has ended with a value or an error (`FlightInv`,
`ResultInv`). `NoLostWakeUp`: who waits has been woken, or the call it waits for has a
leader that is still to wake it or has panicked (`WakeInv`). `MapAndList`: the map and the list of the LRU cache keys, each once, after every Get, Add and eviction. `TypeCorrect`: the counter of
bytes is what the list sums up to (`Counted`), which takes lemmas about the sums of
parts of a list. `NothingReloaded`: with an exact counter the loop of `Add` stops
before an entry that fits, so the one just loaded stays until the call ends
(`KeptInv`). `Implements` is the refinement of `LruSpec`: a set that keeps with each
entry all that were used later is the beginning of the list (`RecentIsPrefix`), and
it fits exactly when the loop has room for it (`RoomIsFit`), so what the loop leaves
is a largest one that fits, as `Put` demands.

`ClusterProofs`, for any nodes, hashes, lists, users and hops: `TypeOK`, `OneLoader`. A
goroutine that loads leads the flight of its node (`CallsLed`), which gives the one
loader of a node (`LeadInv`); while no two lists have disagreed, whoever loads with
an answer of the ring to go by loads at the owner of the key, which is one node
(`OwnerInv`). `NobodyWaitsInACircle`: while the lists agree, a rank falls from each Get to the
ones that can end its wait, so there is no circle of them. A Get waits for the leader
of a call of its own node and key (`WaitInv`, `JoinedRight`), or for the goroutine that
serves its request at the owner, and the owner asks nobody else (`AskInv`, `AskedOnce`).
Without agreement two nodes may wait for each other, which `GetsEnd` excepts.
Two more theorems are about the ring alone: a node that joins takes keys over
and moves none between others (`NewNodeOnlyTakes`, collisions included), and two lists
with the same nodes have the same owners when no places collide
(`OrderIrrelevant`), which is what makes a cluster of such lists agree. They rest on
`MinExists`: a set of places that is not empty has a least one.

`OrmProofs`, for any number of operations, values, rows and columns, from
`SessionAssumption` and `OrmAssumption`: all four properties of the run `orm`.
`IInv` says that between two steps nothing is left but an INSERT clause while the
hooks of an `Insert` run (`PieceInv`), which makes statements exact; that all that
succeeded since Begin is the work of the open transaction and none of it saved
(`ScopeInv`), the calls under way included, since their statements are still to
come; and that the Engine has ended the transaction when it returns, not before
(`OutcomeInv`). `MInv` follows Migrate: before it changes the table, the table is the
old one (`PlaceInv`), and then what is still to be added is exactly what it lacks, and
what it has is as it should be (`AddInv`).

`WebProofs`, for any routes, groups, middlewares and nesting of `Next`, from
`RouterAssumption` and `WebAssumption`: all the safety properties of the run `web`.

- `ChainsComplete`: `ChainInv` says that the places of the chain that were run are
  those up to the one shared index, or all of them when it has passed the end, and
  that a chain nobody broke off is over only there; so whichever loop goes on, it goes
  on behind all of them.
- `NothingLost` (`NeverLost`) rests on the shape of the trie (`TrieInv`: the nodes are
  closed under parents, each is listed once as a child of its parent, and their depth
  is bounded) and on `LeafInv`: every registered pattern has a node that stands for
  it and ends a pattern, and so does every node behind a `*`. An `insert` keeps both
  (`AddKeeps`). `search` is defined from the deepest nodes upwards (`SearchExists`) and
  finds something below every node on the way to such a leaf (`Finds`, by induction
  along the path), as it comes back from the children that fail.
- `ClosestRoute` (`RoutedRight`) needs more: as long as routes are in order (`Orderly`),
  each pattern ends at its own node, every node is on the way to a pattern, and a wild
  child is the last of its siblings (`RouteInv`). The invariant starts from `Orderly`
  because it is false without: a static part behind a wild one ends up below it. With
  it, what `search` returns is closer than every other match, from the deepest nodes
  upwards.
- `GroupsGuard` (`GroupGuarded`) goes through the groups around a route, each of which was
  made before those in it and has a prefix of theirs (`GroupInv`). A route is registered
  by the parts of what is written (`Written`), and those of a static prefix are the
  prefix itself; so a path without an empty part that long, whose parts match the
  pattern, begins with the prefix as it is written (`StaticStart`).
- `TypeCorrect` is the deepest of the types: the index and the stack of nested loops are
  bounded by twice the length of the chain, although each handler behind the end may
  count once more (`LoopInv`).

Where the code has to come to an end, the prover does not reach the liveness property,
but does reach its reason: a number of steps left that is never negative, that each
step of the goroutine lowers and that nobody else raises. `StepsRunOut` states it for the
handlers of a request (`RequestEnds`), `ReaderRunsOut` for the reader of a broken connection
of the server (`ReaderEnds`), and `ReceiverRunsOut` for the receive goroutine of a client,
`terminateCalls` included, whose connection is closed (`DisconnectReturnsCalls`). What is left to
TLC is that the next step can always be taken, and fairness takes it.

Sums, least elements and flattened sequences need an induction over numbers. It is
done for a set of numbers: either a set that has 0 and the successors of its members
is `Nat` (`SetInduction`), or a set that is not empty has a least member; both follow
from the well-founded ordering of finite sets in the library.

Only model-checked: the liveness properties (`DisconnectReturnsCalls`, `WorkerFreed`,
`LimitedAnswered`, `ReaderEnds`, `GetReturns`, `GetsEnd`, `DialersEnd`, `BroadcastReturns`,
`RequestEnds`), as fairness and ENABLED are beyond the prover. Every invariant and every
safety property of a passing run is proved.

## Not modelled

- `XDial`, `Dial`, `NewHTTPClient` and the HTTP CONNECT prelude choose between ways to
  make the same client; what may go wrong there is in `Made`.
- Reflection (`registerMethods`, `schema`): signatures are given to `Service`,
  columns and fields to `Orm`. The counters of calls are for the debug page.
- SQL text, HTML, logs, generated code, the demonstration programs and data.
- The bytes of gob and JSON: a message is a header and a body part.
- A service method that panics ends the process; a service method here returns
  or does not.
- Options that ask for `application/json`, which has no constructor: the call of a nil
  function ends the process (`codec.go:34-36`).
- The random mode of the discovery and `GetAll`, which read the same list.
- Registry: that a POST and a GET take `Latency` at most is an assumption about the
  network, as the code sets no limit (`registry.go:98`, `discovery_aoi.go:52`); a
  heartbeat whose tick has come is sent, and one whose POST is back waits for the next,
  before time passes. Two late POSTs of a server that were sent at one instant are one.
  A GET that arrives after its client gave it up only removes expired items, which any
  other does, too. A response with an error status counts as a success in the code;
  here the registry answers or the request fails. One `Get` runs at a time.
- The URL and the encoding of a request between nodes; `getter.go:18-22` makes a space a
  `+`, which the path read by `server.go:46` keeps, so a key with one is asked for as
  another key. A cluster's caches have no
  budget: an entry may go at any time (`Evict`).
- Web: one request method; the values of path parameters; responses, templates
  and `Static`. A handler calls `Next` at most once. Prefixes and patterns begin with a
  slash, no part has a `*` but at its beginning, and no part of a request looks like a
  wild one. The pattern `""` is left out: the code takes it for no pattern at all
  (`trie.go:37`, `58`), so that it is lost and takes the route of `/` with it. Patterns
  with the same parts share a node of the trie, and the last one registered answers.
  `RoutedRight` and `GroupGuarded` are about routes in an order in which none is
  registered behind a wild one it differs from (`Orderly`); in another order `insert`
  puts the later route below the wild one and `search` finds it by a path it was not
  written for, a behaviour the model has and no text of the repository forbids.
- ORM: one session at a time, as the database keeps sessions apart. The methods
  of a chain (`Where`, `OrderBy`, `Limit`) are given to the operations that use them. A
  session is given up after a panic. The function of a `Transaction` leaves
  Begin, Commit and Rollback to the Engine. A Commit that fails saves nothing; its
  error is dropped by the Engine, so what it returns then is excepted (`dropped`).
  `refTable` is only set or not. Hooks do not call hooks that call hooks. `Columns` has
  no error for rows just obtained in an open transaction, so that the one `orm.go:99`
  drops is not among the outcomes. A panic is one that `recover` tells: with
  `panic(nil)` or `runtime.Goexit` in its function, `Engine.Transaction` commits
  (`orm.go:62`).

## Plan

The order is by what can go wrong concurrently and is used most.

1. Models done: `RpcClient`, `Service` with `RpcServer`, `Registry`, `Dial` with
   `XClient`, `Lru` with `LruSpec`, `CacheGroup`, `HashRing` with `Cluster`, `Router` with
   `Web`, `Session` with `Orm`.
2. Proofs done: the safety of each of them, that the cache implements `LruSpec`, what the
   locks and channels of clients, servers, caches and clusters wait for, and the
   variants of three of the liveness properties.
3. Left: variants for the other liveness properties (`DialersEnd`, `BroadcastReturns`,
   `GetReturns`), and that what takes the next step is not blocked, one component at a
   time.
