------------------------------- MODULE Cluster -------------------------------
(***************************************************************************)
(* Several nodes with a Group and an HTTPPool each (aoicache/server.go,    *)
(* getter.go over HashRing and what CacheGroup has of aoicache.go and      *)
(* singleflight.go).  A process is a goroutine that makes one Group.Get:   *)
(* <<u, 0>> is a handler of the API at some node, <<u, d + 1>> the handler *)
(* of HTTPPool.ServeHTTP that answers the request of <<u, d>>.  net/http   *)
(* recovers the panic of a handler and cuts its connection.  Set may be    *)
(* called at any time with any of Orders; a node that has not registered   *)
(* its pool yet loads everything itself.                                   *)
(***************************************************************************)
EXTENDS HashRing

CONSTANTS
  Users,      \* gets of users
  Hops,       \* bound: nodes that a request is handed on to
  Orders,     \* the lists of peers that Set is called with
  None        \* no node, process, key or ring

Procs == Users \X (0 .. Hops)

ASSUME ClusterAssumption ==
  /\ Hops \in Nat \ {0}
  /\ Orders \subseteq Seq(Nodes)
  /\ None \notin Nodes \cup Procs \cup Keys \cup Orders

VARIABLES
  peers,      \* the list each pool was Set to when its group has registered it
  cache,      \* the keys in the cache of each node
  flight,     \* singleflight.Group.m of each node: who leads the call
  pc,         \* where each process is
  node,       \* the node it runs at
  want,       \* the key that each user, and every process for it, gets
  leader,     \* whose call it waits for
  split,      \* two lists with different owners were in use (history)
  astray      \* who loads without having an owner's answer to go by (history)

nodeVars == <<peers, cache, flight, split>>
vars == <<nodeVars, pc, node, want, leader, astray>>

Key(p) == want[p[1]]
Child(p) == <<p[1], p[2] + 1>>

\* The call of k at n is led by p, which is in it or has left it by a panic.
Leads(p, n, k) ==
  /\ node[p] = n /\ Key(p) = k
  /\ pc[p] \in {"load", "remote", "local", "panicked"}

Types ==
  /\ peers \in [Nodes -> Orders \cup {None}]
  /\ cache \in [Nodes -> SUBSET Keys]
  /\ flight \in [Nodes -> [Keys -> Procs \cup {None}]]
  /\ pc \in [Procs -> {"idle", "do", "wait", "load", "remote", "local",
               "returned", "panicked"}]
  /\ node \in [Procs -> Nodes \cup {None}]
  /\ want \in [Users -> Keys \cup {None}]
  /\ leader \in [Procs -> Procs \cup {None}]
  /\ split \in BOOLEAN /\ astray \subseteq Procs

\* A process that has begun is at a node and gets a key.
Begun == \A p \in Procs : pc[p] # "idle" => node[p] # None /\ Key(p) # None

CallsLed ==
  \A n \in Nodes : \A k \in Keys :
    flight[n][k] # None => Leads(flight[n][k], n, k)

TypeOK == Types /\ Begun /\ CallsLed

Init ==
  /\ peers = [n \in Nodes |-> None] /\ cache = [n \in Nodes |-> {}]
  /\ flight = [n \in Nodes |-> [k \in Keys |-> None]]
  /\ pc = [p \in Procs |-> "idle"] /\ node = [p \in Procs |-> None]
  /\ want = [u \in Users |-> None] /\ leader = [p \in Procs |-> None]
  /\ split = FALSE /\ astray = {}

------------------------------------------------------------------------------
\* The Map that Set makes of each list.
Maps == [o \in Orders |-> Ring(o)]

\* Two lists of peers have the same owner for every key.
Agree(o, q) ==
  o = q \/ (/\ ~IsEmpty(Maps[o]) /\ ~IsEmpty(Maps[q])
            /\ \A k \in Keys : Owner(Maps[o], k) = Owner(Maps[q], k))

\* HTTPPool.Set, and RegisterPeers the first time.
SetPeers(n, o) ==
  /\ peers[n] # o /\ peers' = [peers EXCEPT ![n] = o]
  /\ split' = (split \/ \E m \in Nodes : peers[m] # None /\ ~Agree(peers[m], o))
  /\ UNCHANGED <<cache, flight, pc, node, want, leader, astray>>

Goto(p, from, to) == pc[p] = from /\ pc' = [pc EXCEPT ![p] = to]

\* Group.Get at node n, up to Do.
Entered(n, k) == IF k \in cache[n] THEN "returned" ELSE "do"

\* A user asks the API of a node.
Begin(u, n, k) ==
  /\ Goto(<<u, 0>>, "idle", Entered(n, k))
  /\ node' = [node EXCEPT ![<<u, 0>>] = n] /\ want' = [want EXCEPT ![u] = k]
  /\ UNCHANGED <<nodeVars, leader, astray>>

InFlight(p) == flight[node[p]][Key(p)]

Join(p) ==
  /\ Goto(p, "do", "wait") /\ InFlight(p) # None
  /\ leader' = [leader EXCEPT ![p] = InFlight(p)]
  /\ UNCHANGED <<nodeVars, node, want, astray>>

Lead(p) ==
  /\ Goto(p, "do", "load") /\ InFlight(p) = None
  /\ flight' = [flight EXCEPT ![node[p]][Key(p)] = p]
  /\ UNCHANGED <<peers, cache, split, node, want, leader, astray>>

\* Fault: no place at or after the hash of the key means no peer.
NoWrap(p) ==
  IF After(Maps[peers[node[p]]], Key(p)) = {} THEN node[p]
  ELSE Owner(Maps[peers[node[p]]], Key(p))

\* p.peers.Get(key) in PickPeer.
Picked(p) == Owner(Maps[peers[node[p]]], Key(p))

\* No pool is registered yet.
LoadAlone(p) ==
  /\ Goto(p, "load", "local") /\ peers[node[p]] = None
  /\ astray' = astray \cup {p}
  /\ UNCHANGED <<nodeVars, node, want, leader>>

HasRing(p) == peers[node[p]] # None /\ ~IsEmpty(Maps[peers[node[p]]])

\* PickPeer divides by zero; the panic leaves Do before wg.Done and delete.
PickPanics(p) ==
  /\ Goto(p, "load", "panicked")
  /\ peers[node[p]] # None /\ ~HasRing(p)
  /\ UNCHANGED <<nodeVars, node, want, leader, astray>>

\* Fault: PickPeer does not look for its own name.
NeverSelf(p) == FALSE

\* peer != p.self is false.
IsSelf(p) == Picked(p) = node[p]

\* PickPeer: the owner is this node ...
LoadOwn(p) ==
  /\ Goto(p, "load", "local") /\ HasRing(p) /\ IsSelf(p)
  /\ UNCHANGED <<nodeVars, node, want, leader, astray>>

\* ... or a peer that is asked.
AskPeer(p) ==
  /\ Goto(p, "load", "remote") /\ HasRing(p) /\ ~IsSelf(p)
  /\ p[2] < Hops
  /\ node' = [node EXCEPT ![Child(p)] = Picked(p)]
  /\ UNCHANGED <<nodeVars, want, leader, astray>>

\* ServeHTTP of the peer, up to Do.
Serve(p) ==
  /\ pc[p] = "remote"
  /\ Goto(Child(p), "idle", Entered(node[Child(p)], Key(p)))
  /\ UNCHANGED <<nodeVars, node, want, leader, astray>>

\* ServeHTTP answers 200 whatever Get returned: proto.Marshal overwrites its
\* error.  The answer resets a nil *Response, which panics like PickPeer.
PeerAnswers(p) ==
  /\ Goto(p, "remote", "panicked") /\ pc[Child(p)] = "returned"
  /\ UNCHANGED <<nodeVars, node, want, leader, astray>>

\* The request has failed: load falls back on the getter of the node.
FallBack(p) ==
  /\ Goto(p, "remote", "local")
  /\ astray' = astray \cup {p}
  /\ UNCHANGED <<nodeVars, node, want, leader>>

\* The handler of the peer has panicked.
ConnectionCut(p) == pc[Child(p)] = "panicked" /\ FallBack(p)

\* The peer is not reached or its connection is lost; its handler goes on.
RequestFails(p) == FallBack(p)

\* Fault: Do forgets to delete the call.
Kept(p) == flight

Deleted(p) == [flight EXCEPT ![node[p]][Key(p)] = None]

\* getByGetter fails or fills the cache; Do wakes the waiters and ends.
GetterReturns(p) ==
  /\ Goto(p, "local", "returned")
  /\ flight' = Deleted(p)
  /\ \/ cache' = [cache EXCEPT ![node[p]] = @ \cup {Key(p)}]
     \/ UNCHANGED cache
  /\ UNCHANGED <<peers, split, node, want, leader, astray>>

Wake(p) ==
  /\ Goto(p, "wait", "returned") /\ pc[leader[p]] = "returned"
  /\ UNCHANGED <<nodeVars, node, want, leader, astray>>

Evict(n, k) ==
  /\ k \in cache[n]
  /\ cache' = [cache EXCEPT ![n] = @ \ {k}]
  /\ UNCHANGED <<peers, flight, split, pc, node, want, leader, astray>>

------------------------------------------------------------------------------
Step(p) ==
  \/ Join(p) \/ Lead(p) \/ Wake(p) \/ GetterReturns(p)
  \/ LoadAlone(p) \/ PickPanics(p) \/ LoadOwn(p) \/ AskPeer(p)

\* The steps that hang on the answer to a request.
Asking(p) ==
  p[2] < Hops /\ (Serve(p) \/ PeerAnswers(p) \/ ConnectionCut(p))

Next ==
  \/ \E n \in Nodes :
       \/ \E o \in Orders : SetPeers(n, o)
       \/ \E k \in Keys : Evict(n, k) \/ \E u \in Users : Begin(u, n, k)
  \/ \E p \in Procs : Step(p) \/ Asking(p) \/ RequestFails(p)

Spec == Init /\ [][Next]_vars

\* Goroutines that can run do run, getters return, and a request that is not
\* lost is answered when its handler ends: http.Get has no time limit.
FairSpec ==
  Spec /\ \A p \in Procs : WF_vars(Step(p)) /\ WF_vars(Asking(p))

------------------------------------------------------------------------------
(* Properties.                                                             *)

\* aoicache.go:64-76, server.go:88-99: a key is loaded by one goroutine of a
\* node at a time and, as long as the lists in use agree on the owners, by one
\* of the whole cluster, those apart whose pool was not registered or whose
\* request failed.
OneLoader ==
  \A p, q \in Procs :
    /\ pc[p] = "local" /\ pc[q] = "local" /\ Key(p) = Key(q)
    /\ node[p] = node[q] \/ (~split /\ p \notin astray /\ q \notin astray)
    => p = q

\* The call of its key at its node was left by a panic.
Wedged(p) == \E k \in Keys : \E q \in Procs :
  Key(p) = k /\ node[p] \in Nodes /\ flight[node[p]][k] = q /\ pc[q] = "panicked"

\* aoicache.go:64-76, server.go:88-99: every Get ends, unless a panic has left
\* the call of its key: with lists that agree, nodes that ask one another
\* never wait in a circle.
GetsEnd ==
  \A u \in Users :
    pc[<<u, 0>>] # "idle" ~>
      (pc[<<u, 0>>] \in {"returned", "panicked"} \/ Wedged(<<u, 0>>) \/ split)

==============================================================================
