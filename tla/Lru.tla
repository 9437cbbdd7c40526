--------------------------------- MODULE Lru ---------------------------------
(***************************************************************************)
(* aoicache/lru/lru.go: the cache of a Group.  ll is the list, its front   *)
(* first; cache is the set of keys of the map, kept next to the list as in *)
(* the code.  Of a value only its length matters.                          *)
(***************************************************************************)
EXTENDS Integers, SequencesExt, FiniteSets

CONSTANTS
  Keys,
  KeyLen,     \* len(key) of each key
  Lens,       \* the lengths of the values
  MaxBytes    \* Cache.maxBytes, 0 for no limit

ASSUME LruAssumption ==
  /\ KeyLen \in [Keys -> Nat]
  /\ Lens \subseteq Nat
  /\ MaxBytes \in Nat     \* Add never returns when it is negative

VARIABLES
  ll,         \* entries, the most recently used first
  cache,      \* the keys of the map
  nBytes,     \* the counter of the bytes in use
  asked       \* the keys of the last successful Get or Add (history)

lruVars == <<ll, cache, nBytes, asked>>

Entry == [key : Keys, len : Lens]
Size(e) == KeyLen[e.key] + e.len
KeysOf(l) == {l[i].key : i \in DOMAIN l}
Total(l) ==
  LET sum[i \in 0 .. Len(l)] == IF i = 0 THEN 0 ELSE sum[i - 1] + Size(l[i])
  IN  sum[Len(l)]

LruInit == ll = <<>> /\ cache = {} /\ nBytes = 0 /\ asked = {}

\* The position of the list element the map has for k.
At(k) == CHOOSE i \in DOMAIN ll : ll[i].key = k

\* Fault: the element stays where it is.
StayPut(i) == ll

MoveToFront(i) == <<ll[i]>> \o RemoveAt(ll, i)

\* Get of a key that is there; a miss changes nothing.
Hit(k) ==
  /\ k \in cache
  /\ ll' = MoveToFront(At(k))
  /\ asked' = {k}
  /\ UNCHANGED <<cache, nBytes>>

\* Fault: an update counts the new value and forgets the old one.
GrowthForgetsOld(k, len) == IF k \in cache THEN len ELSE KeyLen[k] + len

\* What Add adds to nBytes before it makes room.
Growth(k, len) ==
  IF k \in cache THEN len - ll[At(k)].len ELSE KeyLen[k] + len

\* The list of Add before it makes room.
Added(k, len) ==
  <<[key |-> k, len |-> len]>> \o (IF k \in cache THEN RemoveAt(ll, At(k)) ELSE ll)

\* The keys deleted from the map with the elements l.
Deleted(l) == KeysOf(l)

\* RemoveOldest, called until the list l has n elements.
Evict(l, bytes, n) ==
  LET gone == SubSeq(l, n + 1, Len(l)) IN
  /\ ll' = SubSeq(l, 1, n)
  /\ cache' = (cache \cup KeysOf(l)) \ Deleted(gone)
  /\ nBytes' = bytes - Total(gone)

\* The condition of the loop of Add is over with n elements left.
RoomAt(l, bytes, n) ==
  MaxBytes = 0 \/ bytes - Total(SubSeq(l, n + 1, Len(l))) <= MaxBytes

Add(k, len) ==
  LET l == Added(k, len)
      bytes == nBytes + Growth(k, len)
  IN /\ \E n \in 0 .. Len(l) :
          /\ n = 0 \/ RoomAt(l, bytes, n)
          /\ \A m \in n + 1 .. Len(l) : ~RoomAt(l, bytes, m)
          /\ Evict(l, bytes, n)
     /\ asked' = {k}

------------------------------------------------------------------------------
\* List, map and entries have their types, list and map the same keys, each
\* once (lru.go:84-85, 54-56), and nBytes, which is updated by differences
\* only, is the size of what is held (lru.go:57, 74, 86).
LruTypeOK ==
  /\ ll \in Seq(Entry) /\ nBytes \in Int /\ nBytes = Total(ll)
  /\ cache = KeysOf(ll) /\ Cardinality(cache) = Len(ll)
  /\ asked \subseteq Keys

Promise == INSTANCE LruSpec WITH
  held <- [k \in cache |-> ll[At(k)].len],
  older <- UNION {{<<ll[j].key, ll[i].key>> : j \in i + 1 .. Len(ll)} :
                    i \in DOMAIN ll}

\* The cache evicts the least recently used entries, and no more of them than
\* the budget demands (lru.go:50-92).
ImplementsLruSpec == Promise!Spec

==============================================================================
