----------------------------- MODULE CacheGroup ------------------------------
(***************************************************************************)
(* aoicache/aoicache.go with singleflight/singleflight.go, cache.go and    *)
(* lru: the Group of one node, used by several goroutines at once.  A      *)
(* goroutine makes one Get and, when it is over and nobody waits for the   *)
(* call it led, a new one takes its place.  Every critical section of      *)
(* cache.mu, singleflight.Group.mu and HTTPPool.mu is one action.  The     *)
(* getter of the user and the other nodes are external: either may fail.   *)
(***************************************************************************)
EXTENDS Lru

CONSTANTS
  Callers,    \* goroutines that call Group.Get
  Remote,     \* the keys another node of the ring owns
  None,       \* no goroutine, no key, no value
  Failed      \* an error returned instead of a value

ASSUME GroupAssumption ==
  /\ Remote \subseteq Keys
  /\ None \notin Callers \cup Keys \cup Nat /\ Failed \notin Nat \cup {None}

VARIABLES
  pc,         \* where each goroutine is
  key,        \* the key it asks for
  flight,     \* singleflight.Group.m: the goroutine that leads the call
  leader,     \* the call a goroutine waits for, by its leader
  val,        \* call.val or call.err, by the leader of the call
  done,       \* the leaders that have called wg.Done
  result,     \* what Get returned
  settled,    \* keys loaded, returned and not evicted since (history)
  kept,       \* leaders whose key was not evicted since they began (history)
  answered    \* goroutines whose peer has answered with a value (history)

callVars == <<pc, key, flight, leader, val, done, result>>
histVars == <<settled, kept, answered>>
vars == <<lruVars, callVars, histVars>>

Value == Lens \cup {Failed, None}

TypeOK ==
  /\ LruTypeOK
  /\ pc \in [Callers -> {"idle", "do", "wait", "remote", "local",
               "publish", "delete", "returned", "panicked"}]
  /\ key \in [Callers -> Keys \cup {None}]
  /\ flight \in [Keys -> Callers \cup {None}]
  /\ leader \in [Callers -> Callers \cup {None}]
  /\ val \in [Callers -> Value] /\ result \in [Callers -> Value]
  /\ \A c \in done : pc[c] \in {"delete", "returned"} /\ val[c] # None
  /\ settled \subseteq Keys
  /\ kept \cup answered \subseteq Callers

Init ==
  /\ LruInit
  /\ pc = [c \in Callers |-> "idle"]
  /\ key = [c \in Callers |-> None]
  /\ flight = [k \in Keys |-> None]
  /\ leader = [c \in Callers |-> None]
  /\ val = [c \in Callers |-> None] /\ result = [c \in Callers |-> None]
  /\ done = {} /\ settled = {} /\ kept = {} /\ answered = {}

Goto(c, from, to) == pc[c] = from /\ pc' = [pc EXCEPT ![c] = to]
Return(c, from, v) ==
  /\ Goto(c, from, "returned")
  /\ result' = [result EXCEPT ![c] = v]
  /\ kept' = kept \ {c}

------------------------------------------------------------------------------
(* Group.Get and load.                                                     *)

CacheHit(c, k) == pc[c] = "idle" /\ Hit(k) /\ UNCHANGED <<callVars, histVars>>

CacheMiss(c, k) ==
  /\ Goto(c, "idle", "do")
  /\ k \notin cache
  /\ key' = [key EXCEPT ![c] = k]
  /\ UNCHANGED <<lruVars, flight, leader, val, done, result, histVars>>

\* c is over, and its call can be forgotten.
Leave(c) ==
  /\ Goto(c, "returned", "idle")
  /\ \A d \in Callers : leader[d] # c
  /\ key' = [key EXCEPT ![c] = None]
  /\ leader' = [leader EXCEPT ![c] = None]
  /\ val' = [val EXCEPT ![c] = None] /\ result' = [result EXCEPT ![c] = None]
  /\ done' = done \ {c}
  /\ UNCHANGED <<lruVars, flight, histVars>>

\* Fault: the map is not looked at under the lock that fills it.
Unseen(k) == FALSE

\* g.m has a call for the key.
InFlight(k) == flight[k] # None

\* singleflight.Group.Do waits for the call under way ...
Join(c) ==
  /\ Goto(c, "do", "wait")
  /\ InFlight(key[c])
  /\ leader' = [leader EXCEPT ![c] = flight[key[c]]]
  /\ UNCHANGED <<lruVars, key, flight, val, done, result, histVars>>

\* PickPeer: the owner of the key is another node, or this one.
PickPeer(k) == IF k \in Remote THEN "remote" ELSE "local"

\* ... or starts one, and picks the peer of the key.
Lead(c) ==
  /\ Goto(c, "do", PickPeer(key[c]))
  /\ ~InFlight(key[c])
  /\ flight' = [flight EXCEPT ![key[c]] = c]
  /\ kept' = kept \cup {c}
  /\ UNCHANGED <<lruVars, key, leader, val, done, result, settled, answered>>

PeerFails(c) ==
  /\ Goto(c, "remote", "local")
  /\ UNCHANGED <<lruVars, key, flight, leader, val, done, result, histVars>>

\* The peer has answered.  getFromPeer passes it a nil *Response: resetting
\* it in proto.Unmarshal panics, and the panic leaves Do before wg.Done and
\* delete.  net/http recovers it when Get was called by a handler.
PeerAnswers(c) ==
  /\ Goto(c, "remote", "panicked")
  /\ answered' = answered \cup {c}
  /\ UNCHANGED <<lruVars, key, flight, leader, val, done, result, settled, kept>>

\* Fault: getByGetter does not fill the cache.
NotAdded(k, len) == UNCHANGED lruVars

\* g.mainCache.add(key, data)
AddToCache(k, len) == Add(k, len)

\* The keys that leave the cache with the addition of k, which is k itself
\* when its entry exceeds the budget (an operator of a step).
Dropped(k, len) ==
  (cache \ cache') \cup
    (IF MaxBytes # 0 /\ KeyLen[k] + len > MaxBytes THEN {k} ELSE {})

\* The value goes to the cache and then to Do.
GetterReturns(c, len) ==
  /\ Goto(c, "local", "publish")
  /\ AddToCache(key[c], len)
  /\ val' = [val EXCEPT ![c] = len]
  /\ settled' = settled \ Dropped(key[c], len)
  /\ kept' = {d \in kept : key[d] \notin Dropped(key[c], len)}
  /\ UNCHANGED <<key, flight, leader, done, result, answered>>

GetterFails(c) ==
  /\ Goto(c, "local", "publish")
  /\ val' = [val EXCEPT ![c] = Failed]
  /\ UNCHANGED <<lruVars, key, flight, leader, done, result, histVars>>

\* Fault: the waiters are woken only when the load has succeeded.
DoneOnSuccess(c) == val[c] # Failed

\* wg.Done() is reached whatever fn returned.
DoneReached(c) == TRUE

Publish(c) ==
  /\ Goto(c, "publish", "delete")
  /\ done' = IF DoneReached(c) THEN done \cup {c} ELSE done
  /\ UNCHANGED <<lruVars, key, flight, leader, val, result, histVars>>

Delete(c) ==
  /\ Return(c, "delete", val[c])
  /\ flight' = [flight EXCEPT ![key[c]] = None]
  /\ settled' = IF val[c] # Failed /\ c \in kept THEN settled \cup {key[c]}
                ELSE settled
  /\ UNCHANGED <<lruVars, key, leader, val, done, answered>>

\* v.wg.Wait() returns.
Woken(c) == pc[c] = "wait" /\ leader[c] \in done

Wake(c) ==
  /\ Woken(c)
  /\ Return(c, "wait", val[leader[c]])
  /\ UNCHANGED <<lruVars, key, flight, leader, val, done, settled, answered>>

------------------------------------------------------------------------------
Step(c) ==
  \/ Join(c) \/ Lead(c) \/ Wake(c)
  \/ PeerFails(c) \/ PeerAnswers(c)
  \/ (\E len \in Lens : GetterReturns(c, len)) \/ GetterFails(c)
  \/ Publish(c) \/ Delete(c)

Next == \E c \in Callers : 
  \/ Step(c) \/ Leave(c)
  \/ \E k \in Keys : CacheHit(c, k) \/ CacheMiss(c, k)

Spec == Init /\ [][Next]_vars

\* Goroutines that can run do run; the getter and the peers come back.
FairSpec == Spec /\ \A c \in Callers : WF_vars(Step(c))

------------------------------------------------------------------------------
(* Properties.                                                             *)

Loading(c, k) == key[c] = k /\ pc[c] \in {"remote", "local"}

OneLoad ==
  \A c, d \in Callers : \A k \in Keys : Loading(c, k) /\ Loading(d, k) => c = d

SharedResult ==
  \A c \in Callers :
    /\ pc[c] = "returned" => result[c] # None
    /\ pc[c] = "returned" /\ leader[c] # None =>
         /\ result[c] = val[leader[c]]
         /\ key[leader[c]] = key[c]

\* singleflight.go:18-43: at no time do two goroutines load the same key,
\* whoever shared a call got what it returned, and no Get returns before there
\* is a value or an error to return.
SingleFlight == OneLoad /\ SharedResult

\* aoicache_test.go:49-51 for any interleaving: a key that was loaded, returned
\* and not evicted since is in the cache, so that no later Get loads it again.
\* The cache is filled before the call is taken out of the map, and a reload
\* by a Get that missed earlier does not lose the entry.
NoReload == settled \subseteq cache

\* A panic inside Do leaves its key in flight for good.
Wedged(c) == \E k \in Keys :
  key[c] = k /\ flight[k] # None /\ pc[flight[k]] = "panicked"

\* singleflight.go:18-43: a Get returns, whoever leads its call and however
\* the load ends, unless a leader of its key has panicked.
GetReturns ==
  \A c \in Callers :
    pc[c] # "idle" ~> (pc[c] \in {"returned", "panicked"} \/ Wedged(c))

\* aoicache.go:66-70, 83: when the peer has answered, Get returns its value.
PeerAnswerDelivered ==
  \A c \in answered : pc[c] # "panicked"

==============================================================================
