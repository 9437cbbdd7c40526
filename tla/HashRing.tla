------------------------------- MODULE HashRing ------------------------------
(***************************************************************************)
(* aoicache/consistenthash/consistenthash.go.  A Map is the function from  *)
(* the places of its virtual nodes to the nodes; the slice keys is its     *)
(* domain in order, where the places several nodes hash to may be repeated.*)
(***************************************************************************)
EXTENDS Naturals, Sequences, FiniteSetsExt

CONSTANTS
  Nodes,      \* the addresses
  Keys,
  Replicas,   \* Map.dup
  NodeHash,   \* hash(strconv.Itoa(i) + node)
  KeyHash     \* hash(key)

ASSUME RingAssumption ==
  /\ Replicas \in Nat \ {0}
  /\ NodeHash \in [Nodes -> [0 .. Replicas - 1 -> Nat]]
  /\ KeyHash \in [Keys -> Nat]

Places(n) == {NodeHash[n][i] : i \in 0 .. Replicas - 1}

\* The turns of the loop of Add that store a node at the place h.
Storing(order, h) == {j \in DOMAIN order : h \in Places(order[j])}

\* A new Map after Add(order...): the last node stored at a place keeps it.
Ring(order) ==
  [h \in UNION {Places(order[j]) : j \in DOMAIN order} |->
     order[Max(Storing(order, h))]]

\* Get divides by zero on an empty Map.
IsEmpty(ring) == DOMAIN ring = {}

\* The places at or after the hash of the key.
After(ring, k) == {h \in DOMAIN ring : h >= KeyHash[k]}

\* Get: the node at the first of them or, behind the last place, at the first
\* place of the ring.
Owner(ring, k) ==
  ring[Min(IF After(ring, k) = {} THEN DOMAIN ring ELSE After(ring, k))]
==============================================================================
