---------------------------- MODULE ClusterProofs ----------------------------
(***************************************************************************)
(* Theorems about HashRing and Cluster, for any nodes, keys, hashes, lists *)
(* of peers and users.  Owner is the node of some place of the ring, and a *)
(* new node takes keys over but moves none between the others.  OneLoader  *)
(* rests on the call in flight of every load and, while the lists agree,   *)
(* on every load at the owner of its key; then no process waits for        *)
(* itself, not even by way of others.                                      *)
(***************************************************************************)
EXTENDS Cluster, TLAPS, FiniteSetTheorems, WellFoundedInduction

------------------------------------------------------------------------------
(* Least and greatest elements.                                            *)

\* A set of natural numbers that is not empty has a least element: the
\* intervals 0 .. n of its elements have a smallest one.
LEMMA MinExists ==
  ASSUME NEW S \in SUBSET Nat, S # {}
  PROVE  \E x \in S : \A y \in S : x <= y
<1> DEFINE T == {0 .. n : n \in S}
<1>1. T \subseteq FiniteSubsetsOf(Nat)
  <2>1. \A n \in Nat : IsFiniteSet(0 .. n) /\ 0 .. n \subseteq Nat
    BY FS_Interval
  <2>2. QED BY <2>1 DEF FiniteSubsetsOf
<1>2. T # {} OBVIOUS
<1>3. PICK I \in T : \A J \in T : <<J, I>> \notin StrictSubsetOrdering(Nat)
  <2> HIDE DEF T
  <2>1. QED BY <1>1, <1>2, FS_StrictSubsetOrderingWellFounded, WFMin, Zenon
<1>4. PICK x \in S : I = 0 .. x OBVIOUS
<1>5. \A y \in S : x <= y
  <2>1. TAKE y \in S
  <2>2. x \in Nat /\ y \in Nat OBVIOUS
  <2>3. <<0 .. y, 0 .. x>> \notin StrictSubsetOrdering(Nat) BY <1>3, <1>4
  <2>4. ASSUME y < x PROVE FALSE
    <3>1. 0 .. y \subseteq 0 .. x /\ 0 .. y \subseteq Nat /\ 0 .. x \subseteq Nat
      BY <2>2, <2>4
    <3>2. x \in 0 .. x /\ x \notin 0 .. y BY <2>2, <2>4
    <3>3. 0 .. y # 0 .. x BY <3>2
    <3>4. QED BY <2>3, <3>1, <3>3 DEF StrictSubsetOrdering
  <2>5. QED BY <2>2, <2>4
<1>6. QED BY <1>5

LEMMA MinIsLeast ==
  ASSUME NEW S \in SUBSET Nat, S # {}
  PROVE  Min(S) \in S /\ \A y \in S : Min(S) <= y
BY MinExists DEF Min

LEMMA MaxIsGreatest ==
  ASSUME NEW n \in Nat, NEW S \in SUBSET (1 .. n), S # {}
  PROVE  Max(S) \in S /\ \A y \in S : Max(S) >= y
<1> DEFINE T == {n - j : j \in S}
<1>0. \A j \in S : j \in Nat /\ n - j \in Nat OBVIOUS
<1>1. T \in SUBSET Nat /\ T # {} BY <1>0
<1>2. PICK x \in T : \A y \in T : x <= y BY <1>1, MinExists
<1>3. PICK j \in S : x = n - j OBVIOUS
<1>4. \A y \in S : j >= y
  <2>1. TAKE y \in S
  <2>2. n - j <= n - y BY <1>2, <1>3
  <2>3. j \in Nat /\ y \in Nat OBVIOUS
  <2>4. QED BY <2>2, <2>3
<1>5. QED BY <1>4 DEF Max

------------------------------------------------------------------------------
(* The ring.                                                               *)

LEMMA PlacesAreNat ==
  ASSUME NEW n \in Nodes
  PROVE  Places(n) \subseteq Nat /\ Places(n) # {}
BY RingAssumption DEF Places

LEMMA RingType ==
  ASSUME NEW o \in Seq(Nodes)
  PROVE  /\ DOMAIN Ring(o) = UNION {Places(o[j]) : j \in DOMAIN o}
         /\ DOMAIN Ring(o) \subseteq Nat
         /\ \A h \in DOMAIN Ring(o) :
              /\ Max(Storing(o, h)) \in Storing(o, h)
              /\ \A j \in Storing(o, h) : Max(Storing(o, h)) >= j
              /\ Ring(o)[h] = o[Max(Storing(o, h))]
              /\ Ring(o)[h] \in Nodes /\ h \in Places(Ring(o)[h])
<1>1. DOMAIN o = 1 .. Len(o) /\ Len(o) \in Nat /\ \A j \in DOMAIN o : o[j] \in Nodes
  OBVIOUS
<1>2. DOMAIN Ring(o) = UNION {Places(o[j]) : j \in DOMAIN o}
  BY DEF Ring
<1>3. DOMAIN Ring(o) \subseteq Nat
  BY <1>1, <1>2, PlacesAreNat
<1>4. ASSUME NEW h \in DOMAIN Ring(o)
      PROVE  /\ Max(Storing(o, h)) \in Storing(o, h)
             /\ \A j \in Storing(o, h) : Max(Storing(o, h)) >= j
             /\ Ring(o)[h] = o[Max(Storing(o, h))]
             /\ Ring(o)[h] \in Nodes /\ h \in Places(Ring(o)[h])
  <2>1. Storing(o, h) \in SUBSET (1 .. Len(o)) /\ Storing(o, h) # {}
    BY <1>1, <1>2 DEF Storing
  <2>2. /\ Max(Storing(o, h)) \in Storing(o, h)
        /\ \A j \in Storing(o, h) : Max(Storing(o, h)) >= j
    BY <1>1, <2>1, MaxIsGreatest
  <2>3. Ring(o)[h] = o[Max(Storing(o, h))]
    BY <1>2 DEF Ring
  <2>4. QED BY <1>1, <2>2, <2>3 DEF Storing
<1>5. QED BY <1>2, <1>3, <1>4

\* The place that decides a key: the first one at or after its hash or else
\* the first one.
Deciding(ring, k) ==
  Min(IF After(ring, k) = {} THEN DOMAIN ring ELSE After(ring, k))

\* consistenthash.go:44-51: the owner of a key is a node of the list.
LEMMA OwnerType ==
  ASSUME NEW o \in Seq(Nodes), ~IsEmpty(Ring(o)), NEW k \in Keys
  PROVE  /\ Deciding(Ring(o), k) \in DOMAIN Ring(o)
         /\ Owner(Ring(o), k) = Ring(o)[Deciding(Ring(o), k)]
         /\ Owner(Ring(o), k) \in Nodes
<1> DEFINE S == IF After(Ring(o), k) = {} THEN DOMAIN Ring(o) ELSE After(Ring(o), k)
<1>1. S \in SUBSET Nat /\ S # {} /\ S \subseteq DOMAIN Ring(o)
  BY RingType DEF IsEmpty, After
<1>2. Min(S) \in S BY <1>1, MinIsLeast
<1>3. Deciding(Ring(o), k) = Min(S) BY DEF Deciding
<1>4. Owner(Ring(o), k) = Ring(o)[Deciding(Ring(o), k)] BY DEF Owner, Deciding
<1>5. QED BY <1>1, <1>2, <1>3, <1>4, RingType

\* The deciding place is the first of its kind.
LEMMA DecidingLeast ==
  ASSUME NEW o \in Seq(Nodes), ~IsEmpty(Ring(o)), NEW k \in Keys,
         NEW d \in DOMAIN Ring(o),
         IF After(Ring(o), k) = {} THEN \A h \in DOMAIN Ring(o) : d <= h
         ELSE d \in After(Ring(o), k) /\ \A h \in After(Ring(o), k) : d <= h
  PROVE  Deciding(Ring(o), k) = d
<1> DEFINE S == IF After(Ring(o), k) = {} THEN DOMAIN Ring(o) ELSE After(Ring(o), k)
<1>1. S \in SUBSET Nat /\ d \in S /\ \A h \in S : d <= h
  BY RingType DEF After
<1>2. Min(S) \in S /\ Min(S) <= d /\ d <= Min(S)
  <2>1. S # {} BY <1>1
  <2>2. Min(S) \in S /\ \A h \in S : Min(S) <= h BY <1>1, <2>1, MinIsLeast
  <2>3. QED BY <1>1, <2>2
<1>3. Min(S) = d
  <2>1. Min(S) \in Nat /\ d \in Nat BY <1>1, <1>2
  <2>2. QED BY <1>2, <2>1
<1>4. QED BY <1>3 DEF Deciding

LEMMA DecidingIsLeast ==
  ASSUME NEW o \in Seq(Nodes), ~IsEmpty(Ring(o)), NEW k \in Keys
  PROVE  IF After(Ring(o), k) = {}
           THEN \A h \in DOMAIN Ring(o) : Deciding(Ring(o), k) <= h
           ELSE /\ Deciding(Ring(o), k) \in After(Ring(o), k)
                /\ \A h \in After(Ring(o), k) : Deciding(Ring(o), k) <= h
<1> DEFINE S == IF After(Ring(o), k) = {} THEN DOMAIN Ring(o) ELSE After(Ring(o), k)
<1>1. S \in SUBSET Nat /\ S # {} BY RingType DEF IsEmpty, After
<1>2. Min(S) \in S /\ \A h \in S : Min(S) <= h BY <1>1, MinIsLeast
<1>3. Deciding(Ring(o), k) = Min(S) BY DEF Deciding
<1>4. QED BY <1>2, <1>3

\* The ring of a list with one node more.
LEMMA RingOfAppend ==
  ASSUME NEW o \in Seq(Nodes), NEW n \in Nodes
  PROVE  /\ DOMAIN Ring(Append(o, n)) = DOMAIN Ring(o) \cup Places(n)
         /\ \A h \in Places(n) : Ring(Append(o, n))[h] = n
         /\ \A h \in DOMAIN Ring(o) \ Places(n) :
              Ring(Append(o, n))[h] = Ring(o)[h]
<1> DEFINE q == Append(o, n)
<1>1. /\ q \in Seq(Nodes) /\ Len(o) \in Nat
      /\ DOMAIN o = 1 .. Len(o) /\ DOMAIN q = 1 .. Len(o) + 1
      /\ q[Len(o) + 1] = n /\ \A j \in DOMAIN o : q[j] = o[j]
  OBVIOUS
<1>2. DOMAIN Ring(q) = UNION {Places(q[j]) : j \in DOMAIN q}
  BY <1>1, RingType
<1>3. DOMAIN Ring(o) = UNION {Places(o[j]) : j \in DOMAIN o}
  BY RingType
<1> HIDE DEF q
<1>4. DOMAIN Ring(q) = DOMAIN Ring(o) \cup Places(n)
  <2>1. \A j \in 1 .. Len(o) + 1 : j \in 1 .. Len(o) \/ j = Len(o) + 1
    BY <1>1
  <2>2. Len(o) + 1 \in 1 .. Len(o) + 1 /\ \A j \in 1 .. Len(o) : j \in 1 .. Len(o) + 1
    BY <1>1
  <2>3. ASSUME NEW h PROVE h \in DOMAIN Ring(q) <=> h \in DOMAIN Ring(o) \cup Places(n)
    <3>1. h \in DOMAIN Ring(q) <=> \E j \in 1 .. Len(o) + 1 : h \in Places(q[j])
      BY <1>1, <1>2
    <3>2. h \in DOMAIN Ring(o) <=> \E j \in 1 .. Len(o) : h \in Places(o[j])
      BY <1>1, <1>3
    <3>3. QED BY <1>1, <2>1, <2>2, <3>1, <3>2
  <2>4. QED BY <2>3
<1>5. ASSUME NEW h \in Places(n) PROVE Ring(q)[h] = n
  <2>1. h \in DOMAIN Ring(q) BY <1>4
  <2>2. Len(o) + 1 \in Storing(q, h) BY <1>1 DEF Storing
  <2>3. Storing(q, h) \subseteq 1 .. Len(o) + 1 BY <1>1 DEF Storing
  <2>4. /\ Max(Storing(q, h)) \in Storing(q, h)
        /\ \A j \in Storing(q, h) : Max(Storing(q, h)) >= j
        /\ Ring(q)[h] = q[Max(Storing(q, h))]
    BY <1>1, <2>1, RingType
  <2>5. Max(Storing(q, h)) = Len(o) + 1 BY <1>1, <2>2, <2>3, <2>4
  <2>6. QED BY <1>1, <2>4, <2>5
<1>6. ASSUME NEW h \in DOMAIN Ring(o) \ Places(n) PROVE Ring(q)[h] = Ring(o)[h]
  <2>1. h \in DOMAIN Ring(q) BY <1>4
  <2>2. Storing(q, h) = Storing(o, h)
    <3>1. ASSUME NEW j PROVE j \in Storing(q, h) <=> j \in Storing(o, h)
      <4>1. CASE j \in 1 .. Len(o)
        BY <1>1, <4>1 DEF Storing
      <4>2. CASE j \notin 1 .. Len(o)
        <5>1. j \notin Storing(o, h) BY <1>1, <4>2 DEF Storing
        <5>2. j \in DOMAIN q => j = Len(o) + 1 BY <1>1, <4>2
        <5>3. j \notin Storing(q, h) BY <1>1, <5>2 DEF Storing
        <5>4. QED BY <5>1, <5>3
      <4>3. QED BY <4>1, <4>2
    <3>2. QED BY <3>1
  <2>3. Ring(q)[h] = q[Max(Storing(q, h))] BY <1>1, <2>1, RingType
  <2>4. /\ Max(Storing(o, h)) \in Storing(o, h)
        /\ Ring(o)[h] = o[Max(Storing(o, h))]
    BY RingType
  <2>5. Max(Storing(o, h)) \in DOMAIN o BY <2>4 DEF Storing
  <2>6. QED BY <1>1, <2>2, <2>3, <2>4, <2>5
<1>7. QED BY <1>4, <1>5, <1>6 DEF q

\* consistenthash.go:32-51: a node that is added behind the others takes keys
\* over, and moves none from one of them to another.
THEOREM NewNodeOnlyTakes ==
  ASSUME NEW o \in Seq(Nodes), ~IsEmpty(Ring(o)), NEW n \in Nodes, NEW k \in Keys
  PROVE  Owner(Ring(Append(o, n)), k) \in {Owner(Ring(o), k), n}
<1> DEFINE q == Append(o, n)
           d == Deciding(Ring(q), k)
<1>1. q \in Seq(Nodes) OBVIOUS
<1>2. /\ DOMAIN Ring(q) = DOMAIN Ring(o) \cup Places(n)
      /\ \A h \in Places(n) : Ring(q)[h] = n
      /\ \A h \in DOMAIN Ring(o) \ Places(n) : Ring(q)[h] = Ring(o)[h]
  BY RingOfAppend
<1>3. ~IsEmpty(Ring(q)) BY <1>2 DEF IsEmpty
<1> HIDE DEF q
<1>4. d \in DOMAIN Ring(q) /\ Owner(Ring(q), k) = Ring(q)[d]
  BY <1>1, <1>3, OwnerType
<1>5. CASE d \in Places(n)
  BY <1>2, <1>4, <1>5 DEF q
<1>6. CASE d \notin Places(n)
  <2>1. d \in DOMAIN Ring(o) BY <1>2, <1>4, <1>6
  <2>2. IF After(Ring(q), k) = {} THEN \A h \in DOMAIN Ring(q) : d <= h
        ELSE d \in After(Ring(q), k) /\ \A h \in After(Ring(q), k) : d <= h
    BY <1>1, <1>3, DecidingIsLeast
  <2>3. /\ After(Ring(o), k) \subseteq After(Ring(q), k)
        /\ d \in After(Ring(q), k) => d \in After(Ring(o), k)
    BY <1>2, <2>1 DEF After
  <2>4. Deciding(Ring(o), k) = d
    <3> HIDE DEF d
    <3>1. CASE After(Ring(q), k) = {}
      <4>1. \A h \in DOMAIN Ring(o) : d <= h BY <1>2, <2>2, <3>1
      <4>2. After(Ring(o), k) = {} BY <2>3, <3>1
      <4>3. QED BY <2>1, <4>1, <4>2, DecidingLeast
    <3>2. CASE After(Ring(q), k) # {}
      <4>1. d \in After(Ring(o), k) /\ \A h \in After(Ring(o), k) : d <= h
        BY <2>2, <2>3, <3>2
      <4>2. After(Ring(o), k) # {} BY <4>1
      <4>3. QED BY <2>1, <4>1, <4>2, DecidingLeast
    <3>3. QED BY <3>1, <3>2
  <2>5. Owner(Ring(o), k) = Ring(o)[d] BY <2>4, OwnerType
  <2>6. QED BY <1>2, <1>4, <1>6, <2>1, <2>5 DEF q
<1>7. QED BY <1>5, <1>6

\* consistenthash.go:32-41: unless virtual nodes of two nodes collide, lists
\* of the same peers make the same ring, in whatever order each pool has them.
THEOREM OrderIrrelevant ==
  ASSUME NEW o \in Seq(Nodes), NEW q \in Seq(Nodes),
         \A m, n \in Nodes : m # n => Places(m) \cap Places(n) = {},
         {o[j] : j \in DOMAIN o} = {q[j] : j \in DOMAIN q}
  PROVE  Ring(o) = Ring(q)
<1> DEFINE N == {o[j] : j \in DOMAIN o}
<1>0. ASSUME NEW l \in Seq(Nodes)
      PROVE  DOMAIN Ring(l) = UNION {Places(n) : n \in {l[j] : j \in DOMAIN l}}
  <2>1. DOMAIN Ring(l) = UNION {Places(l[j]) : j \in DOMAIN l} BY RingType
  <2>2. QED BY <2>1
<1>1. DOMAIN Ring(o) = UNION {Places(n) : n \in N} BY <1>0
<1>2. DOMAIN Ring(q) = UNION {Places(n) : n \in N} BY <1>0
<1>3. ASSUME NEW h \in DOMAIN Ring(o) PROVE Ring(o)[h] = Ring(q)[h]
  <2>1. Ring(o)[h] \in Nodes /\ h \in Places(Ring(o)[h]) BY RingType
  <2>2. h \in DOMAIN Ring(q) BY <1>1, <1>2
  <2>3. Ring(q)[h] \in Nodes /\ h \in Places(Ring(q)[h]) BY <2>2, RingType
  <2>4. QED BY <2>1, <2>3
<1>4. DOMAIN Ring(o) = DOMAIN Ring(q) BY <1>1, <1>2
<1>5. /\ Ring(o) = [h \in DOMAIN Ring(o) |-> Ring(o)[h]]
      /\ Ring(q) = [h \in DOMAIN Ring(q) |-> Ring(q)[h]]
  BY DEF Ring
<1>6. QED BY <1>3, <1>4, <1>5

------------------------------------------------------------------------------
(* The inductive invariant of Cluster.                                     *)

\* A process starts after the one it serves, which then waits for it or has
\* gone on without it.
ProcInv ==
  /\ \A u \in Users : pc[<<u, 0>>] = "idle" => want[u] = None
  /\ \A p \in Procs : pc[p] = "remote" => p[2] < Hops /\ node[Child(p)] # None
  /\ \A p \in Procs :
       p[2] < Hops /\ pc[p] \in {"idle", "do", "wait", "load"} =>
         pc[Child(p)] = "idle"

\* Whoever is inside a call leads it.
LeadInv ==
  \A p \in Procs :
    pc[p] \in {"load", "remote", "local"} => flight[node[p]][Key(p)] = p

\* The owner of a key by the list that a node has.
Owns(n, k) ==
  /\ peers[n] # None /\ ~IsEmpty(Maps[peers[n]])
  /\ Owner(Maps[peers[n]], k) = n

\* While the lists agree, whoever loads a key and did not go astray is at a
\* node that owns it.
OwnerInv ==
  ~split =>
    /\ \A m, n \in Nodes :
         peers[m] # None /\ peers[n] # None => Agree(peers[m], peers[n])
    /\ \A p \in Procs \ astray : pc[p] = "local" => Owns(node[p], Key(p))

IInv == TypeOK /\ ProcInv /\ LeadInv /\ OwnerInv

LEMMA ProcFacts ==
  /\ \A u \in Users : <<u, 0>> \in Procs /\ <<u, 0>>[1] = u
  /\ \A p \in Procs : p[1] \in Users /\ p[2] \in 0 .. Hops
  /\ \A p \in Procs : p[2] < Hops =>
       /\ Child(p) \in Procs /\ Child(p) # p /\ Child(p)[1] = p[1]
       /\ \A u \in Users : Child(p) # <<u, 0>>
  /\ \A p, q \in Procs : Child(p) = Child(q) => p = q
<1>1. \A u \in Users : <<u, 0>> \in Procs /\ <<u, 0>>[1] = u
  BY ClusterAssumption DEF Procs
<1>2. \A p \in Procs : p[1] \in Users /\ p[2] \in 0 .. Hops /\ p = <<p[1], p[2]>>
  BY DEF Procs
<1>3. ASSUME NEW p \in Procs, p[2] < Hops
      PROVE  /\ Child(p) \in Procs /\ Child(p) # p /\ Child(p)[1] = p[1]
             /\ \A u \in Users : Child(p) # <<u, 0>>
  <2>1. p[2] \in Nat /\ p[2] + 1 \in 0 .. Hops /\ p[2] + 1 # 0
    BY <1>2, <1>3, ClusterAssumption
  <2>2. Child(p) = <<p[1], p[2] + 1>> BY DEF Child
  <2>3. Child(p) \in Procs BY <1>2, <2>1, <2>2 DEF Procs
  <2>4. Child(p)[1] = p[1] /\ Child(p)[2] = p[2] + 1 BY <2>2
  <2>5. Child(p) # p BY <2>1, <2>4
  <2>6. \A u \in Users : Child(p) # <<u, 0>> BY <2>1, <2>4
  <2>7. QED BY <2>3, <2>4, <2>5, <2>6
<1>4. ASSUME NEW p \in Procs, NEW q \in Procs, Child(p) = Child(q) PROVE p = q
  <2>1. p[1] = q[1] /\ p[2] + 1 = q[2] + 1 BY <1>4 DEF Child
  <2>2. p[2] \in Nat /\ q[2] \in Nat BY <1>2, ClusterAssumption
  <2>3. p[2] = q[2] BY <2>1, <2>2
  <2>4. QED BY <1>2, <2>1, <2>3
<1>5. QED BY <1>1, <1>2, <1>3, <1>4

LEMMA NoneFacts ==
  /\ None \notin Nodes /\ None \notin Procs /\ None \notin Keys
  /\ None \notin Orders /\ Orders \subseteq Seq(Nodes)
BY ClusterAssumption

\* Where a process that has begun is, and for which key.
LEMMA Located ==
  ASSUME Types, Begun, NEW p \in Procs, pc[p] # "idle"
  PROVE  p[1] \in Users /\ node[p] \in Nodes /\ Key(p) \in Keys
<1>1. p[1] \in Users BY ProcFacts
<1>2. node[p] \in Nodes \cup {None} /\ Key(p) \in Keys \cup {None}
  BY <1>1 DEF Types, Key
<1>3. node[p] # None /\ Key(p) # None BY DEF Begun
<1>4. QED BY <1>1, <1>2, <1>3

\* The owner of a key by a list in use is a node.
LEMMA PickedType ==
  ASSUME Types, Begun, NEW p \in Procs, pc[p] # "idle", HasRing(p)
  PROVE  Picked(p) \in Nodes /\ Picked(p) # None
<1>1. node[p] \in Nodes /\ Key(p) \in Keys BY Located
<1>2. peers[node[p]] \in Orders /\ ~IsEmpty(Maps[peers[node[p]]])
  BY <1>1 DEF Types, HasRing
<1>3. Maps[peers[node[p]]] = Ring(peers[node[p]]) BY <1>2 DEF Maps
<1>4. peers[node[p]] \in Seq(Nodes) BY <1>2, NoneFacts
<1>5. Owner(Ring(peers[node[p]]), Key(p)) \in Nodes
  BY <1>1, <1>2, <1>3, <1>4, OwnerType
<1>6. QED BY <1>3, <1>5, NoneFacts DEF Picked

\* Every step keeps the types.
LEMMA StepTypes ==
  ASSUME TypeOK, ProcInv, [Next]_vars
  PROVE  Types'
<1>1. CASE UNCHANGED vars
  BY <1>1 DEF vars, nodeVars, TypeOK, Types
<1>2. ASSUME NEW n \in Nodes, NEW o \in Orders, SetPeers(n, o) PROVE Types'
  BY <1>2 DEF SetPeers, TypeOK, Types
<1>3. ASSUME NEW n \in Nodes, NEW k \in Keys, Evict(n, k) PROVE Types'
  BY <1>3 DEF Evict, TypeOK, Types
<1>4. ASSUME NEW n \in Nodes, NEW k \in Keys, NEW u \in Users, Begin(u, n, k)
      PROVE  Types'
  BY <1>4 DEF Begin, Goto, Entered, nodeVars, TypeOK, Types
<1>5. ASSUME NEW p \in Procs, Join(p) PROVE Types'
  <2>1. node[p] \in Nodes /\ Key(p) \in Keys
    BY <1>5, Located DEF TypeOK, Join, Goto
  <2>2. InFlight(p) \in Procs \cup {None} BY <2>1 DEF TypeOK, Types, InFlight
  <2>3. QED BY <1>5, <2>2 DEF TypeOK, Types, Join, Goto, nodeVars
<1>6. ASSUME NEW p \in Procs, Lead(p) PROVE Types'
  BY <1>6 DEF Lead, Goto, nodeVars, TypeOK, Types
<1>7. ASSUME NEW p \in Procs, Wake(p) PROVE Types'
  BY <1>7 DEF Wake, Goto, nodeVars, TypeOK, Types
<1>8. ASSUME NEW p \in Procs, GetterReturns(p) PROVE Types'
  <2>1. node[p] \in Nodes /\ Key(p) \in Keys
    BY <1>8, Located DEF TypeOK, GetterReturns, Goto
  <2>2. flight' \in [Nodes -> [Keys -> Procs \cup {None}]]
    BY <1>8, <2>1 DEF TypeOK, Types, GetterReturns, Deleted
  <2>3. cache' \in [Nodes -> SUBSET Keys]
    BY <1>8, <2>1 DEF TypeOK, Types, GetterReturns
  <2>4. QED BY <1>8, <2>2, <2>3 DEF TypeOK, Types, GetterReturns, Goto
<1>9. ASSUME NEW p \in Procs, LoadAlone(p) PROVE Types'
  BY <1>9 DEF LoadAlone, Goto, nodeVars, TypeOK, Types
<1>10. ASSUME NEW p \in Procs, PickPanics(p) PROVE Types'
  BY <1>10 DEF PickPanics, Goto, nodeVars, TypeOK, Types
<1>11. ASSUME NEW p \in Procs, LoadOwn(p) PROVE Types'
  BY <1>11 DEF LoadOwn, Goto, nodeVars, TypeOK, Types
<1>12. ASSUME NEW p \in Procs, AskPeer(p) PROVE Types'
  <2>1. Picked(p) \in Nodes BY <1>12, PickedType DEF TypeOK, AskPeer, Goto
  <2>2. QED BY <1>12, <2>1 DEF TypeOK, Types, AskPeer, Goto, nodeVars
<1>13. ASSUME NEW p \in Procs, p[2] < Hops, Serve(p) PROVE Types'
  BY <1>13 DEF Serve, Goto, nodeVars, Entered, TypeOK, Types
<1>14. ASSUME NEW p \in Procs, PeerAnswers(p) PROVE Types'
  BY <1>14 DEF PeerAnswers, Goto, nodeVars, TypeOK, Types
<1>15. ASSUME NEW p \in Procs, FallBack(p) PROVE Types'
  BY <1>15 DEF FallBack, Goto, nodeVars, TypeOK, Types
<1>16. QED
  BY <1>1, <1>2, <1>3, <1>4, <1>5, <1>6, <1>7, <1>8, <1>9, <1>10, <1>11,
      <1>12, <1>13, <1>14, <1>15
  DEF Next, Step, Asking, ConnectionCut, RequestFails

\* The processes of a user that has not asked are idle.
LEMMA NotAsked ==
  ASSUME TypeOK, ProcInv, NEW u \in Users, pc[<<u, 0>>] = "idle"
  PROVE  \A p \in Procs : p[1] = u => pc[p] = "idle"
<1>1. want[u] = None BY DEF ProcInv
<1>2. QED BY <1>1 DEF TypeOK, Begun, Key

\* A process that has begun is at a node and gets a key, after every step.
LEMMA StepBegun ==
  ASSUME TypeOK, ProcInv, [Next]_vars
  PROVE  Begun'
<1>1. CASE UNCHANGED vars
  BY <1>1, ProcFacts DEF vars, nodeVars, TypeOK, Types, Begun, Key
<1>2. ASSUME NEW n \in Nodes, NEW o \in Orders, SetPeers(n, o) PROVE Begun'
  BY <1>2, ProcFacts DEF SetPeers, TypeOK, Types, Begun, Key
<1>3. ASSUME NEW n \in Nodes, NEW k \in Keys, Evict(n, k) PROVE Begun'
  BY <1>3, ProcFacts DEF Evict, TypeOK, Types, Begun, Key
<1>4. ASSUME NEW n \in Nodes, NEW k \in Keys, NEW u \in Users, Begin(u, n, k)
      PROVE  Begun'
  <2>1. <<u, 0>> \in Procs /\ \A p \in Procs : p[1] = u => pc[p] = "idle"
    BY <1>4, ProcFacts, NotAsked DEF Begin, Goto
  <2>2. \A p \in Procs : p # <<u, 0>> => pc'[p] = pc[p] /\ node'[p] = node[p]
    BY <1>4 DEF Begin, Goto, TypeOK, Types
  <2>3. \A p \in Procs : pc[p] # "idle" => Key(p)' = Key(p) /\ p # <<u, 0>>
    BY <1>4, <2>1, ProcFacts DEF Begin, TypeOK, Types, Key
  <2>4. node'[<<u, 0>>] # None /\ Key(<<u, 0>>)' # None
    BY <1>4, <2>1, NoneFacts, ProcFacts DEF Begin, TypeOK, Types, Key
  <2>5. QED BY <2>2, <2>3, <2>4 DEF TypeOK, Begun
<1>5. ASSUME NEW p \in Procs, Join(p) PROVE Begun'
  BY <1>5, ProcFacts DEF Join, Goto, nodeVars, TypeOK, Types, Begun, Key
<1>6. ASSUME NEW p \in Procs, Lead(p) PROVE Begun'
  BY <1>6, ProcFacts DEF Lead, Goto, nodeVars, TypeOK, Types, Begun, Key
<1>7. ASSUME NEW p \in Procs, Wake(p) PROVE Begun'
  BY <1>7, ProcFacts DEF Wake, Goto, nodeVars, TypeOK, Types, Begun, Key
<1>8. ASSUME NEW p \in Procs, GetterReturns(p) PROVE Begun'
  BY <1>8, ProcFacts DEF GetterReturns, Goto, nodeVars, TypeOK, Types, Begun, Key
<1>9. ASSUME NEW p \in Procs, LoadAlone(p) PROVE Begun'
  BY <1>9, ProcFacts DEF LoadAlone, Goto, nodeVars, TypeOK, Types, Begun, Key
<1>10. ASSUME NEW p \in Procs, PickPanics(p) PROVE Begun'
  BY <1>10, ProcFacts DEF PickPanics, Goto, nodeVars, TypeOK, Types, Begun, Key
<1>11. ASSUME NEW p \in Procs, LoadOwn(p) PROVE Begun'
  BY <1>11, ProcFacts DEF LoadOwn, Goto, nodeVars, TypeOK, Types, Begun, Key
<1>12. ASSUME NEW p \in Procs, AskPeer(p) PROVE Begun'
  <2>1. Picked(p) \in Nodes /\ Picked(p) # None
    BY <1>12, PickedType DEF TypeOK, AskPeer, Goto
  <2>2. QED BY <1>12, <2>1 DEF TypeOK, Types, Begun, Key, AskPeer, Goto, nodeVars
<1>13. ASSUME NEW p \in Procs, p[2] < Hops, Serve(p) PROVE Begun'
  <2>1. node[Child(p)] # None /\ Child(p) \in Procs /\ Child(p)[1] = p[1]
    BY <1>13, ProcFacts DEF ProcInv, Serve
  <2>2. Key(Child(p)) # None
    BY <1>13, <2>1 DEF TypeOK, Begun, Key, Serve
  <2>3. QED
    BY <1>13, <2>1, <2>2
     DEF TypeOK, Types, Begun, Key, Serve, Goto, nodeVars
<1>14. ASSUME NEW p \in Procs, PeerAnswers(p) PROVE Begun'
  BY <1>14, ProcFacts DEF PeerAnswers, Goto, nodeVars, TypeOK, Types, Begun, Key
<1>15. ASSUME NEW p \in Procs, FallBack(p) PROVE Begun'
  BY <1>15, ProcFacts DEF FallBack, Goto, nodeVars, TypeOK, Types, Begun, Key
<1>16. QED
  BY <1>1, <1>2, <1>3, <1>4, <1>5, <1>6, <1>7, <1>8, <1>9, <1>10, <1>11,
      <1>12, <1>13, <1>14, <1>15
  DEF Next, Step, Asking, ConnectionCut, RequestFails

\* A call in flight is led by a process that is inside it or has panicked.
LEMMA StepLed ==
  ASSUME TypeOK, ProcInv, [Next]_vars
  PROVE  CallsLed'
<1>1. CASE UNCHANGED vars
  BY <1>1, ProcFacts, NoneFacts
   DEF vars, nodeVars, TypeOK, Types, CallsLed, Leads, Key
<1>2. ASSUME NEW n \in Nodes, NEW o \in Orders, SetPeers(n, o) PROVE CallsLed'
  BY <1>2, ProcFacts, NoneFacts DEF SetPeers, TypeOK, Types, CallsLed, Leads, Key
<1>3. ASSUME NEW n \in Nodes, NEW k \in Keys, Evict(n, k) PROVE CallsLed'
  BY <1>3, ProcFacts, NoneFacts DEF Evict, TypeOK, Types, CallsLed, Leads, Key
<1>4. ASSUME NEW n \in Nodes, NEW k \in Keys, NEW u \in Users, Begin(u, n, k)
      PROVE  CallsLed'
  <2>1. <<u, 0>> \in Procs /\ \A p \in Procs : p[1] = u => pc[p] = "idle"
    BY <1>4, ProcFacts, NotAsked DEF Begin, Goto
  <2>2. \A p \in Procs : p # <<u, 0>> => pc'[p] = pc[p] /\ node'[p] = node[p]
    BY <1>4 DEF Begin, Goto, TypeOK, Types
  <2>3. \A p \in Procs : pc[p] # "idle" => Key(p)' = Key(p) /\ p # <<u, 0>>
    BY <1>4, <2>1, ProcFacts DEF Begin, TypeOK, Types, Key
  <2>4. ASSUME NEW i \in Nodes, NEW j \in Keys, flight'[i][j] # None
        PROVE  Leads(flight[i][j], i, j)'
    <3>1. flight' = flight BY <1>4 DEF Begin, nodeVars
    <3>2. flight[i][j] \in Procs /\ Leads(flight[i][j], i, j)
      BY <2>4, <3>1 DEF TypeOK, Types, CallsLed
    <3>3. QED BY <2>2, <2>3, <3>1, <3>2 DEF Leads
  <2>5. QED BY <2>4 DEF CallsLed
<1>5. ASSUME NEW p \in Procs, Join(p) PROVE CallsLed'
  BY <1>5, ProcFacts, NoneFacts
   DEF Join, Goto, nodeVars, TypeOK, Types, CallsLed, Leads, Key
<1>6. ASSUME NEW p \in Procs, Lead(p) PROVE CallsLed'
  <2>1. node[p] \in Nodes /\ Key(p) \in Keys
    BY <1>6, Located DEF TypeOK, Lead, Goto
  <2>2. QED BY <1>6, <2>1, NoneFacts
    DEF TypeOK, Types, CallsLed, Leads, Key, Lead, Goto
<1>7. ASSUME NEW p \in Procs, Wake(p) PROVE CallsLed'
  BY <1>7, ProcFacts, NoneFacts
   DEF Wake, Goto, nodeVars, TypeOK, Types, CallsLed, Leads, Key
<1>8. ASSUME NEW p \in Procs, GetterReturns(p) PROVE CallsLed'
  <2>1. node[p] \in Nodes /\ Key(p) \in Keys
    BY <1>8, Located DEF TypeOK, GetterReturns, Goto
  <2>2. QED BY <1>8, <2>1, NoneFacts
    DEF TypeOK, Types, CallsLed, Leads, Key, GetterReturns, Deleted, Goto
<1>9. ASSUME NEW p \in Procs, LoadAlone(p) PROVE CallsLed'
  BY <1>9, ProcFacts, NoneFacts
   DEF LoadAlone, Goto, nodeVars, TypeOK, Types, CallsLed, Leads, Key
<1>10. ASSUME NEW p \in Procs, PickPanics(p) PROVE CallsLed'
  BY <1>10, ProcFacts, NoneFacts
   DEF PickPanics, Goto, nodeVars, TypeOK, Types, CallsLed, Leads, Key
<1>11. ASSUME NEW p \in Procs, LoadOwn(p) PROVE CallsLed'
  BY <1>11, ProcFacts, NoneFacts
   DEF LoadOwn, Goto, nodeVars, TypeOK, Types, CallsLed, Leads, Key
<1>12. ASSUME NEW p \in Procs, AskPeer(p) PROVE CallsLed'
  <2>1. Child(p) \in Procs /\ Child(p) # p /\ pc[Child(p)] = "idle"
    BY <1>12, ProcFacts DEF ProcInv, AskPeer, Goto
  <2>2. QED BY <1>12, <2>1, NoneFacts
    DEF TypeOK, Types, CallsLed, Leads, Key, AskPeer, Goto, nodeVars
<1>13. ASSUME NEW p \in Procs, p[2] < Hops, Serve(p) PROVE CallsLed'
  <2>1. Child(p) \in Procs /\ pc[Child(p)] = "idle"
    BY <1>13, ProcFacts DEF Serve, Goto
  <2>2. QED BY <1>13, <2>1, NoneFacts
    DEF TypeOK, Types, CallsLed, Leads, Key, Serve, Goto, nodeVars
<1>14. ASSUME NEW p \in Procs, PeerAnswers(p) PROVE CallsLed'
  BY <1>14, ProcFacts, NoneFacts
   DEF PeerAnswers, Goto, nodeVars, TypeOK, Types, CallsLed, Leads, Key
<1>15. ASSUME NEW p \in Procs, FallBack(p) PROVE CallsLed'
  BY <1>15, ProcFacts, NoneFacts
   DEF FallBack, Goto, nodeVars, TypeOK, Types, CallsLed, Leads, Key
<1>16. QED
  BY <1>1, <1>2, <1>3, <1>4, <1>5, <1>6, <1>7, <1>8, <1>9, <1>10, <1>11,
      <1>12, <1>13, <1>14, <1>15
  DEF Next, Step, Asking, ConnectionCut, RequestFails

\* Every step keeps the order in which a get and those it asks for start.
LEMMA StepProc ==
  ASSUME TypeOK, ProcInv, [Next]_vars
  PROVE  ProcInv'
<1>1. CASE UNCHANGED vars
  BY <1>1, ProcFacts DEF vars, nodeVars, TypeOK, Types, ProcInv
<1>2. ASSUME NEW n \in Nodes, NEW o \in Orders, SetPeers(n, o) PROVE ProcInv'
  BY <1>2, ProcFacts DEF SetPeers, TypeOK, Types, ProcInv
<1>3. ASSUME NEW n \in Nodes, NEW k \in Keys, Evict(n, k) PROVE ProcInv'
  BY <1>3, ProcFacts DEF Evict, TypeOK, Types, ProcInv
<1>4. ASSUME NEW n \in Nodes, NEW k \in Keys, NEW u \in Users, Begin(u, n, k)
      PROVE  ProcInv'
  <2>1. <<u, 0>> \in Procs /\ \A p \in Procs : p[1] = u => pc[p] = "idle"
    BY <1>4, ProcFacts, NotAsked DEF Begin, Goto
  <2>2. /\ pc'[<<u, 0>>] \in {"do", "returned"}
        /\ \A p \in Procs : p # <<u, 0>> => pc'[p] = pc[p] /\ node'[p] = node[p]
        /\ \A v \in Users : v # u => want'[v] = want[v]
    BY <1>4, <2>1 DEF Begin, Goto, Entered, TypeOK, Types
  <2>3. QED BY <2>1, <2>2, ProcFacts DEF ProcInv
<1>5. ASSUME NEW p \in Procs, Join(p) PROVE ProcInv'
  BY <1>5, ProcFacts DEF Join, Goto, nodeVars, TypeOK, Types, ProcInv
<1>6. ASSUME NEW p \in Procs, Lead(p) PROVE ProcInv'
  BY <1>6, ProcFacts DEF Lead, Goto, nodeVars, TypeOK, Types, ProcInv
<1>7. ASSUME NEW p \in Procs, Wake(p) PROVE ProcInv'
  BY <1>7, ProcFacts DEF Wake, Goto, nodeVars, TypeOK, Types, ProcInv
<1>8. ASSUME NEW p \in Procs, GetterReturns(p) PROVE ProcInv'
  BY <1>8, ProcFacts DEF GetterReturns, Goto, nodeVars, TypeOK, Types, ProcInv
<1>9. ASSUME NEW p \in Procs, LoadAlone(p) PROVE ProcInv'
  BY <1>9, ProcFacts DEF LoadAlone, Goto, nodeVars, TypeOK, Types, ProcInv
<1>10. ASSUME NEW p \in Procs, PickPanics(p) PROVE ProcInv'
  BY <1>10, ProcFacts DEF PickPanics, Goto, nodeVars, TypeOK, Types, ProcInv
<1>11. ASSUME NEW p \in Procs, LoadOwn(p) PROVE ProcInv'
  BY <1>11, ProcFacts DEF LoadOwn, Goto, nodeVars, TypeOK, Types, ProcInv
<1>12. ASSUME NEW p \in Procs, AskPeer(p) PROVE ProcInv'
  <2>1. Picked(p) \in Nodes /\ Picked(p) # None
    BY <1>12, PickedType DEF TypeOK, AskPeer, Goto
  <2>2. QED
    BY <1>12, <2>1, ProcFacts
     DEF TypeOK, Types, ProcInv, AskPeer, Goto, nodeVars
<1>13. ASSUME NEW p \in Procs, p[2] < Hops, Serve(p) PROVE ProcInv'
  <2>1. /\ Child(p) \in Procs /\ pc[Child(p)] = "idle" /\ pc[p] = "remote"
        /\ Child(p) # p /\ node[Child(p)] # None
        /\ \A u \in Users : Child(p) # <<u, 0>>
        /\ \A q \in Procs : Child(q) = Child(p) => q = p
    BY <1>13, ProcFacts DEF ProcInv, Serve, Goto
  <2>2. /\ pc'[Child(p)] \in {"do", "returned"}
        /\ \A q \in Procs : q # Child(p) => pc'[q] = pc[q]
        /\ node' = node /\ want' = want
    BY <1>13, <2>1 DEF Serve, Goto, Entered, TypeOK, Types
  <2>3. Child(p)[2] < Hops => pc[Child(Child(p))] = "idle" /\ Child(Child(p)) # Child(p)
    BY <2>1, ProcFacts DEF ProcInv
  <2>4. ASSUME NEW q \in Procs, q[2] < Hops
        PROVE  /\ pc'[q] = "remote" => node'[Child(q)] # None
               /\ pc'[q] \in {"idle", "do", "wait", "load"} => pc'[Child(q)] = "idle"
    <3>1. CASE q = Child(p)
      BY <2>1, <2>2, <2>3, <2>4, <3>1, ProcFacts
    <3>2. CASE q = p
      BY <2>1, <2>2, <2>4, <3>2, ProcFacts DEF ProcInv
    <3>3. CASE q # p /\ q # Child(p)
      BY <2>1, <2>2, <2>4, <3>3, ProcFacts DEF ProcInv
    <3>4. QED BY <3>1, <3>2, <3>3
  <2>5. \A q \in Procs : pc'[q] = "remote" => q[2] < Hops
    BY <2>2 DEF ProcInv
  <2>6. QED BY <2>1, <2>2, <2>4, <2>5, ProcFacts DEF ProcInv
<1>14. ASSUME NEW p \in Procs, PeerAnswers(p) PROVE ProcInv'
  BY <1>14, ProcFacts DEF PeerAnswers, Goto, nodeVars, TypeOK, Types, ProcInv
<1>15. ASSUME NEW p \in Procs, FallBack(p) PROVE ProcInv'
  BY <1>15, ProcFacts DEF FallBack, Goto, nodeVars, TypeOK, Types, ProcInv
<1>16. QED
  BY <1>1, <1>2, <1>3, <1>4, <1>5, <1>6, <1>7, <1>8, <1>9, <1>10, <1>11,
      <1>12, <1>13, <1>14, <1>15
  DEF Next, Step, Asking, ConnectionCut, RequestFails

\* Whoever is inside a call leads it, after every step.
LEMMA StepLead ==
  ASSUME TypeOK, ProcInv, LeadInv, [Next]_vars
  PROVE  LeadInv'
<1>1. CASE UNCHANGED vars
  BY <1>1, ProcFacts, NoneFacts DEF vars, nodeVars, TypeOK, Types, LeadInv, Key
<1>2. ASSUME NEW n \in Nodes, NEW o \in Orders, SetPeers(n, o) PROVE LeadInv'
  BY <1>2, ProcFacts, NoneFacts DEF SetPeers, TypeOK, Types, LeadInv, Key
<1>3. ASSUME NEW n \in Nodes, NEW k \in Keys, Evict(n, k) PROVE LeadInv'
  BY <1>3, ProcFacts, NoneFacts DEF Evict, TypeOK, Types, LeadInv, Key
<1>4. ASSUME NEW n \in Nodes, NEW k \in Keys, NEW u \in Users, Begin(u, n, k)
      PROVE  LeadInv'
  <2>1. <<u, 0>> \in Procs /\ \A p \in Procs : p[1] = u => pc[p] = "idle"
    BY <1>4, ProcFacts, NotAsked DEF Begin, Goto
  <2>2. \A p \in Procs : p # <<u, 0>> => pc'[p] = pc[p] /\ node'[p] = node[p]
    BY <1>4 DEF Begin, Goto, TypeOK, Types
  <2>3. \A p \in Procs : pc[p] # "idle" => Key(p)' = Key(p) /\ p # <<u, 0>>
    BY <1>4, <2>1, ProcFacts DEF Begin, TypeOK, Types, Key
  <2>4. pc'[<<u, 0>>] \notin {"load", "remote", "local"}
    BY <1>4, <2>1 DEF Begin, Goto, Entered, TypeOK, Types
  <2>5. QED BY <1>4, <2>2, <2>3, <2>4 DEF LeadInv, Begin, nodeVars
<1>5. ASSUME NEW p \in Procs, Join(p) PROVE LeadInv'
  BY <1>5, ProcFacts, NoneFacts
   DEF Join, Goto, nodeVars, TypeOK, Types, LeadInv, Key
<1>6. ASSUME NEW p \in Procs, Lead(p) PROVE LeadInv'
  <2>1. node[p] \in Nodes /\ Key(p) \in Keys
    BY <1>6, Located DEF TypeOK, Lead, Goto
  <2>2. QED BY <1>6, <2>1, NoneFacts, Located
    DEF TypeOK, Types, LeadInv, InFlight, Key, Lead, Goto
<1>7. ASSUME NEW p \in Procs, Wake(p) PROVE LeadInv'
  BY <1>7, ProcFacts, NoneFacts
   DEF Wake, Goto, nodeVars, TypeOK, Types, LeadInv, Key
<1>8. ASSUME NEW p \in Procs, GetterReturns(p) PROVE LeadInv'
  <2>1. node[p] \in Nodes /\ Key(p) \in Keys
    BY <1>8, Located DEF TypeOK, GetterReturns, Goto
  <2>2. QED BY <1>8, <2>1, NoneFacts, Located
    DEF TypeOK, Types, LeadInv, Key, GetterReturns, Deleted, Goto
<1>9. ASSUME NEW p \in Procs, LoadAlone(p) PROVE LeadInv'
  BY <1>9, ProcFacts, NoneFacts
   DEF LoadAlone, Goto, nodeVars, TypeOK, Types, LeadInv, Key
<1>10. ASSUME NEW p \in Procs, PickPanics(p) PROVE LeadInv'
  BY <1>10, ProcFacts, NoneFacts
   DEF PickPanics, Goto, nodeVars, TypeOK, Types, LeadInv, Key
<1>11. ASSUME NEW p \in Procs, LoadOwn(p) PROVE LeadInv'
  BY <1>11, ProcFacts, NoneFacts
   DEF LoadOwn, Goto, nodeVars, TypeOK, Types, LeadInv, Key
<1>12. ASSUME NEW p \in Procs, AskPeer(p) PROVE LeadInv'
  <2>1. Child(p) \in Procs /\ Child(p) # p /\ pc[Child(p)] = "idle"
    BY <1>12, ProcFacts DEF ProcInv, AskPeer, Goto
  <2>2. QED BY <1>12, <2>1
    DEF TypeOK, Types, LeadInv, Key, AskPeer, Goto, nodeVars
<1>13. ASSUME NEW p \in Procs, p[2] < Hops, Serve(p) PROVE LeadInv'
  <2>1. Child(p) \in Procs /\ pc'[Child(p)] \in {"do", "returned"}
    BY <1>13, ProcFacts DEF TypeOK, Types, Serve, Goto, Entered
  <2>2. QED BY <1>13, <2>1
    DEF TypeOK, Types, LeadInv, Key, Serve, Goto, nodeVars
<1>14. ASSUME NEW p \in Procs, PeerAnswers(p) PROVE LeadInv'
  BY <1>14, ProcFacts, NoneFacts
   DEF PeerAnswers, Goto, nodeVars, TypeOK, Types, LeadInv, Key
<1>15. ASSUME NEW p \in Procs, FallBack(p) PROVE LeadInv'
  BY <1>15, ProcFacts, NoneFacts
   DEF FallBack, Goto, nodeVars, TypeOK, Types, LeadInv, Key
<1>16. QED
  BY <1>1, <1>2, <1>3, <1>4, <1>5, <1>6, <1>7, <1>8, <1>9, <1>10, <1>11,
      <1>12, <1>13, <1>14, <1>15
  DEF Next, Step, Asking, ConnectionCut, RequestFails

\* Whoever loads is at the owner of its key, after every step.
LEMMA StepOwner ==
  ASSUME TypeOK, ProcInv, OwnerInv, [Next]_vars
  PROVE  OwnerInv'
<1>1. CASE UNCHANGED vars
  BY <1>1, ProcFacts, NoneFacts
   DEF vars, nodeVars, TypeOK, Types, OwnerInv, Owns, Key
<1>2. ASSUME NEW n \in Nodes, NEW o \in Orders, SetPeers(n, o) PROVE OwnerInv'
  <2> SUFFICES ASSUME ~split'
        PROVE  /\ \A i, j \in Nodes : peers'[i] # None /\ peers'[j] # None =>
                    Agree(peers'[i], peers'[j])
               /\ \A p \in Procs \ astray : pc[p] = "local" => Owns(node[p], Key(p))'
    BY <1>2 DEF OwnerInv, SetPeers, Agree
  <2>1. /\ \A m \in Nodes : peers'[m] = IF m = n THEN o ELSE peers[m]
        /\ \A m \in Nodes : peers[m] # None => Agree(peers[m], o)
        /\ ~split /\ Agree(o, o)
        /\ node' = node /\ want' = want
    BY <1>2 DEF SetPeers, TypeOK, Types, Agree
  <2>2. \A i, j \in Nodes : peers'[i] # None /\ peers'[j] # None =>
          Agree(peers'[i], peers'[j])
    BY <2>1 DEF OwnerInv, Agree
  <2>3. ASSUME NEW p \in Procs \ astray, pc[p] = "local" PROVE Owns(node[p], Key(p))'
    <3>1. node[p] \in Nodes /\ Key(p) \in Keys /\ Owns(node[p], Key(p))
      BY <2>1, <2>3, Located DEF OwnerInv, TypeOK
    <3>2. Agree(peers[node[p]], peers'[node[p]]) /\ peers'[node[p]] # None
      BY <2>1, <3>1, NoneFacts DEF Owns, Agree
    <3>3. Key(p)' = Key(p) BY <2>1 DEF Key
    <3>4. QED BY <2>1, <3>1, <3>2, <3>3 DEF Owns, Agree
  <2>4. QED BY <2>2, <2>3
<1>3. ASSUME NEW n \in Nodes, NEW k \in Keys, Evict(n, k) PROVE OwnerInv'
  BY <1>3, ProcFacts, NoneFacts DEF Evict, TypeOK, Types, OwnerInv, Owns, Key
<1>4. ASSUME NEW n \in Nodes, NEW k \in Keys, NEW u \in Users, Begin(u, n, k)
      PROVE  OwnerInv'
  <2>1. <<u, 0>> \in Procs /\ \A p \in Procs : p[1] = u => pc[p] = "idle"
    BY <1>4, ProcFacts, NotAsked DEF Begin, Goto
  <2>2. \A p \in Procs : p # <<u, 0>> => pc'[p] = pc[p] /\ node'[p] = node[p]
    BY <1>4 DEF Begin, Goto, TypeOK, Types
  <2>3. \A p \in Procs : pc[p] # "idle" => Key(p)' = Key(p) /\ p # <<u, 0>>
    BY <1>4, <2>1, ProcFacts DEF Begin, TypeOK, Types, Key
  <2>4. pc'[<<u, 0>>] # "local"
    BY <1>4, <2>1 DEF Begin, Goto, Entered, TypeOK, Types
  <2>5. QED BY <1>4, <2>2, <2>3, <2>4 DEF OwnerInv, Owns, Begin, nodeVars
<1>5. ASSUME NEW p \in Procs, Join(p) PROVE OwnerInv'
  BY <1>5, ProcFacts, NoneFacts
   DEF Join, Goto, nodeVars, TypeOK, Types, OwnerInv, Owns, Key
<1>6. ASSUME NEW p \in Procs, Lead(p) PROVE OwnerInv'
  BY <1>6, ProcFacts, NoneFacts
   DEF Lead, Goto, nodeVars, TypeOK, Types, OwnerInv, Owns, Key
<1>7. ASSUME NEW p \in Procs, Wake(p) PROVE OwnerInv'
  BY <1>7, ProcFacts, NoneFacts
   DEF Wake, Goto, nodeVars, TypeOK, Types, OwnerInv, Owns, Key
<1>8. ASSUME NEW p \in Procs, GetterReturns(p) PROVE OwnerInv'
  BY <1>8, ProcFacts, NoneFacts
   DEF GetterReturns, Goto, nodeVars, TypeOK, Types, OwnerInv, Owns, Key
<1>9. ASSUME NEW p \in Procs, LoadAlone(p) PROVE OwnerInv'
  BY <1>9, ProcFacts, NoneFacts
   DEF LoadAlone, Goto, nodeVars, TypeOK, Types, OwnerInv, Owns, Key
<1>10. ASSUME NEW p \in Procs, PickPanics(p) PROVE OwnerInv'
  BY <1>10, ProcFacts, NoneFacts
   DEF PickPanics, Goto, nodeVars, TypeOK, Types, OwnerInv, Owns, Key
<1>11. ASSUME NEW p \in Procs, LoadOwn(p) PROVE OwnerInv'
  <2>1. node[p] \in Nodes /\ Key(p) \in Keys
    BY <1>11, Located DEF TypeOK, LoadOwn, Goto
  <2>2. Owns(node[p], Key(p))
    BY <1>11, <2>1
     DEF LoadOwn, HasRing, IsSelf, Picked, Owns
  <2>3. QED
    BY <1>11, <2>2
     DEF TypeOK, Types, OwnerInv, Owns, Key, LoadOwn, Goto, nodeVars
<1>12. ASSUME NEW p \in Procs, AskPeer(p) PROVE OwnerInv'
  <2>1. Child(p) \in Procs /\ Child(p) # p /\ pc[Child(p)] = "idle"
    BY <1>12, ProcFacts DEF ProcInv, AskPeer, Goto
  <2>2. QED BY <1>12, <2>1
    DEF TypeOK, Types, OwnerInv, Owns, Key, AskPeer, Goto, nodeVars
<1>13. ASSUME NEW p \in Procs, p[2] < Hops, Serve(p) PROVE OwnerInv'
  BY <1>13, ProcFacts, NoneFacts
   DEF Serve, Goto, nodeVars, Entered, TypeOK, Types, OwnerInv, Owns, Key
<1>14. ASSUME NEW p \in Procs, PeerAnswers(p) PROVE OwnerInv'
  BY <1>14, ProcFacts, NoneFacts
   DEF PeerAnswers, Goto, nodeVars, TypeOK, Types, OwnerInv, Owns, Key
<1>15. ASSUME NEW p \in Procs, FallBack(p) PROVE OwnerInv'
  BY <1>15, ProcFacts, NoneFacts
   DEF FallBack, Goto, nodeVars, TypeOK, Types, OwnerInv, Owns, Key
<1>16. QED
  BY <1>1, <1>2, <1>3, <1>4, <1>5, <1>6, <1>7, <1>8, <1>9, <1>10, <1>11,
      <1>12, <1>13, <1>14, <1>15
  DEF Next, Step, Asking, ConnectionCut, RequestFails

LEMMA InitInv == Init => IInv
<1>1. Init => Types
  <2>1. Init => flight \in [Nodes -> [Keys -> Procs \cup {None}]] BY DEF Init
  <2>2. QED BY <2>1 DEF Init, Types
<1>2. Init => Begun BY DEF Init, Begun
<1>3. Init => CallsLed BY DEF Init, CallsLed
<1>4. Init => ProcInv
  <2>1. ASSUME Init, NEW p \in Procs, p[2] < Hops PROVE Child(p) \in Procs
    BY <2>1, ProcFacts
  <2>2. QED BY <2>1 DEF Init, ProcInv
<1>5. Init => LeadInv BY DEF Init, LeadInv
<1>6. Init => OwnerInv BY DEF Init, OwnerInv
<1>7. QED BY <1>1, <1>2, <1>3, <1>4, <1>5, <1>6 DEF IInv, TypeOK

LEMMA StepInv == IInv /\ [Next]_vars => IInv'
BY StepTypes, StepBegun, StepLed, StepProc, StepLead, StepOwner DEF IInv, TypeOK

LEMMA LoadersMeet == IInv => OneLoader
<1> SUFFICES ASSUME IInv, NEW p \in Procs, NEW q \in Procs,
                    pc[p] = "local", pc[q] = "local", Key(p) = Key(q),
                    \/ node[p] = node[q]
                    \/ ~split /\ p \notin astray /\ q \notin astray
             PROVE  p = q
  BY DEF OneLoader
<1>1. node[p] = node[q] => p = q BY DEF IInv, LeadInv
<1>2. CASE ~split /\ p \notin astray /\ q \notin astray
  <2>1. node[p] \in Nodes /\ node[q] \in Nodes /\ Key(p) \in Keys
    BY Located DEF IInv, TypeOK
  <2>2. Owns(node[p], Key(p)) /\ Owns(node[q], Key(p))
    BY <1>2 DEF IInv, OwnerInv
  <2>3. Agree(peers[node[p]], peers[node[q]])
    BY <1>2, <2>1, <2>2 DEF IInv, OwnerInv, Owns
  <2>4. node[p] = node[q] BY <2>1, <2>2, <2>3 DEF Owns, Agree
  <2>5. QED BY <1>1, <2>4
<1>3. QED BY <1>1, <1>2

\* aoicache.go:64-76, singleflight.go:22-40: a call in flight is led by a
\* process that is inside it at its node, or that has left it by a panic.
THEOREM TypeCorrect == Spec => []TypeOK
<1>1. IInv => TypeOK BY DEF IInv
<1>2. QED BY InitInv, StepInv, <1>1, PTL DEF Spec

\* aoicache.go:64-76, server.go:88-99: while the lists of peers agree, a key is
\* loaded by one goroutine of the cluster, those apart that went astray.
THEOREM LoadedOnce == Spec => []OneLoader
BY InitInv, StepInv, LoadersMeet, PTL DEF Spec

------------------------------------------------------------------------------
(* Who waits for whom.                                                     *)

\* A process that waits joined a call of its key at its node, and whoever
\* leads that is still inside it, has returned or has panicked.
WaitInv ==
  \A p \in Procs : pc[p] = "wait" =>
    /\ leader[p] \in Procs /\ node[leader[p]] = node[p]
    /\ Key(leader[p]) = Key(p)
    /\ pc[leader[p]] \in {"load", "remote", "local", "returned", "panicked"}

\* Only a process that gets a key has been sent to a node.
PlacedInv == \A p \in Procs : node[p] # None => Key(p) # None

\* While the lists agree, a request was handed on to the node that owns its
\* key by each of them.
HandedInv ==
  ~split => \A p \in Procs : p[2] # 0 /\ node[p] # None =>
    /\ \E m \in Nodes : peers[m] # None
    /\ \A m \in Nodes : peers[m] # None =>
         ~IsEmpty(Maps[peers[m]]) /\ Owner(Maps[peers[m]], Key(p)) = node[p]

\* A node asks another one, and is asked by nobody while the lists agree.
AwayInv ==
  \A p \in Procs : pc[p] = "remote" =>
    /\ node[Child(p)] # node[p]
    /\ ~split => p[2] = 0

AskInv == WaitInv /\ PlacedInv /\ HandedInv /\ AwayInv

\* Nobody works yet for a process that has not asked.
LEMMA ChildIdle ==
  ASSUME TypeOK, ProcInv, NEW p \in Procs, p[2] < Hops,
         pc[p] \in {"idle", "do", "wait", "load"}
  PROVE  Child(p) \in Procs /\ Child(p) # p /\ pc[Child(p)] = "idle"
BY ProcFacts DEF ProcInv

LEMMA StepWait ==
  ASSUME TypeOK, ProcInv, WaitInv, [Next]_vars
  PROVE  WaitInv'
<1>1. CASE UNCHANGED vars
  BY <1>1 DEF vars, nodeVars, WaitInv, Key
<1>2. ASSUME NEW n \in Nodes, NEW o \in Orders, SetPeers(n, o) PROVE WaitInv'
  BY <1>2 DEF SetPeers, WaitInv, Key
<1>3. ASSUME NEW n \in Nodes, NEW k \in Keys, Evict(n, k) PROVE WaitInv'
  BY <1>3 DEF Evict, WaitInv, Key
<1>4. ASSUME NEW n \in Nodes, NEW k \in Keys, NEW u \in Users, Begin(u, n, k)
      PROVE  WaitInv'
  <2>1. <<u, 0>> \in Procs /\ \A p \in Procs : p[1] = u => pc[p] = "idle"
    BY <1>4, ProcFacts, NotAsked DEF Begin, Goto
  <2>2. \A p \in Procs : p # <<u, 0>> => pc'[p] = pc[p] /\ node'[p] = node[p]
    BY <1>4 DEF Begin, Goto, TypeOK, Types
  <2>3. \A p \in Procs : pc[p] # "idle" => Key(p)' = Key(p) /\ p # <<u, 0>>
    BY <1>4, <2>1, ProcFacts DEF Begin, TypeOK, Types, Key
  <2>4. pc'[<<u, 0>>] # "wait"
    BY <1>4, <2>1 DEF Begin, Goto, Entered, TypeOK, Types
  <2>5. leader' = leader BY <1>4 DEF Begin
  <2>6. QED BY <2>2, <2>3, <2>4, <2>5 DEF WaitInv
<1>5. ASSUME NEW p \in Procs, Join(p) PROVE WaitInv'
  <2>1. node[p] \in Nodes /\ Key(p) \in Keys
    BY <1>5, Located DEF TypeOK, Join, Goto
  <2>2. InFlight(p) \in Procs /\ Leads(InFlight(p), node[p], Key(p))
    BY <1>5, <2>1 DEF TypeOK, Types, CallsLed, InFlight, Join
  <2>3. QED
    BY <1>5, <2>2
     DEF TypeOK, Types, WaitInv, Leads, Key, Join, Goto, nodeVars
<1>6. ASSUME NEW p \in Procs, Lead(p) PROVE WaitInv'
  BY <1>6 DEF Lead, Goto, nodeVars, TypeOK, Types, WaitInv, Key
<1>7. ASSUME NEW p \in Procs, Wake(p) PROVE WaitInv'
  BY <1>7 DEF Wake, Goto, nodeVars, TypeOK, Types, WaitInv, Key
<1>8. ASSUME NEW p \in Procs, GetterReturns(p) PROVE WaitInv'
  BY <1>8 DEF GetterReturns, Goto, nodeVars, TypeOK, Types, WaitInv, Key
<1>9. ASSUME NEW p \in Procs, LoadAlone(p) PROVE WaitInv'
  BY <1>9 DEF LoadAlone, Goto, nodeVars, TypeOK, Types, WaitInv, Key
<1>10. ASSUME NEW p \in Procs, PickPanics(p) PROVE WaitInv'
  BY <1>10 DEF PickPanics, Goto, nodeVars, TypeOK, Types, WaitInv, Key
<1>11. ASSUME NEW p \in Procs, LoadOwn(p) PROVE WaitInv'
  BY <1>11 DEF LoadOwn, Goto, nodeVars, TypeOK, Types, WaitInv, Key
<1>12. ASSUME NEW p \in Procs, AskPeer(p) PROVE WaitInv'
  <2>1. Child(p) \in Procs /\ Child(p) # p /\ pc[Child(p)] = "idle"
    BY <1>12, ProcFacts DEF ProcInv, AskPeer, Goto
  <2>2. QED BY <1>12, <2>1
    DEF TypeOK, Types, WaitInv, Key, AskPeer, Goto, nodeVars
<1>13. ASSUME NEW p \in Procs, p[2] < Hops, Serve(p) PROVE WaitInv'
  <2>1. Child(p) \in Procs /\ pc'[Child(p)] \in {"do", "returned"}
    BY <1>13, ProcFacts DEF TypeOK, Types, Serve, Goto, Entered
  <2>2. QED BY <1>13, <2>1
    DEF TypeOK, Types, WaitInv, Key, Serve, Goto, nodeVars
<1>14. ASSUME NEW p \in Procs, PeerAnswers(p) PROVE WaitInv'
  BY <1>14 DEF PeerAnswers, Goto, nodeVars, TypeOK, Types, WaitInv, Key
<1>15. ASSUME NEW p \in Procs, FallBack(p) PROVE WaitInv'
  BY <1>15 DEF FallBack, Goto, nodeVars, TypeOK, Types, WaitInv, Key
<1>16. QED
  BY <1>1, <1>2, <1>3, <1>4, <1>5, <1>6, <1>7, <1>8, <1>9, <1>10, <1>11,
      <1>12, <1>13, <1>14, <1>15
  DEF Next, Step, Asking, ConnectionCut, RequestFails

\* Steps that leave places, keys and lists alone hand nothing on.
LEMMA Quiet ==
  ASSUME [Next]_vars,
         \A n \in Nodes : \A o \in Orders : ~SetPeers(n, o),
         \A n \in Nodes : \A k \in Keys : \A u \in Users : ~Begin(u, n, k),
         \A p \in Procs : ~AskPeer(p)
  PROVE  UNCHANGED <<peers, split, node, want>>
<1>1. CASE UNCHANGED vars BY <1>1 DEF vars, nodeVars
<1>2. ASSUME NEW n \in Nodes, NEW k \in Keys, Evict(n, k)
      PROVE  UNCHANGED <<peers, split, node, want>>
  BY <1>2 DEF Evict
<1>3. ASSUME NEW p \in Procs, Step(p) PROVE UNCHANGED <<peers, split, node, want>>
  <2>1. CASE Join(p) BY <2>1 DEF Join, nodeVars
  <2>2. CASE Lead(p) BY <2>2 DEF Lead
  <2>3. CASE Wake(p) BY <2>3 DEF Wake, nodeVars
  <2>4. CASE GetterReturns(p) BY <2>4 DEF GetterReturns
  <2>5. CASE LoadAlone(p) BY <2>5 DEF LoadAlone, nodeVars
  <2>6. CASE PickPanics(p) BY <2>6 DEF PickPanics, nodeVars
  <2>7. CASE LoadOwn(p) BY <2>7 DEF LoadOwn, nodeVars
  <2>8. QED BY <1>3, <2>1, <2>2, <2>3, <2>4, <2>5, <2>6, <2>7 DEF Step
<1>4. ASSUME NEW p \in Procs, Asking(p) \/ RequestFails(p)
      PROVE  UNCHANGED <<peers, split, node, want>>
  BY <1>4 DEF Asking, RequestFails, Serve, PeerAnswers, ConnectionCut, FallBack, nodeVars
<1>5. QED BY <1>1, <1>2, <1>3, <1>4 DEF Next

\* A node asks the owner of the key by its list, which is another node.
LEMMA Asked ==
  ASSUME TypeOK, ProcInv, NEW p \in Procs, AskPeer(p)
  PROVE  /\ p[2] < Hops /\ Child(p) \in Procs /\ Child(p) # p
         /\ pc[Child(p)] = "idle" /\ pc[p] = "load"
         /\ node[p] \in Nodes /\ Key(p) \in Keys /\ HasRing(p)
         /\ Picked(p) \in Nodes /\ Picked(p) # node[p]
         /\ \A q \in Procs :
              node'[q] = IF q = Child(p) THEN Picked(p) ELSE node[q]
         /\ \A q \in Procs : Key(q)' = Key(q)
         /\ Key(Child(p)) = Key(p)
         /\ UNCHANGED <<peers, split, want>>
<1>1. p[2] < Hops /\ pc[p] = "load" /\ HasRing(p) /\ Picked(p) # node[p]
  BY DEF AskPeer, Goto, IsSelf
<1>2. Child(p) \in Procs /\ Child(p) # p /\ pc[Child(p)] = "idle"
  BY <1>1, ChildIdle
<1>3. node[p] \in Nodes /\ Key(p) \in Keys /\ Picked(p) \in Nodes
  BY <1>1, Located, PickedType DEF TypeOK
<1>4. \A q \in Procs : node'[q] = IF q = Child(p) THEN Picked(p) ELSE node[q]
  BY <1>2 DEF AskPeer, TypeOK, Types
<1>5. UNCHANGED <<peers, split, want>> BY DEF AskPeer, nodeVars
<1>6. Key(Child(p)) = Key(p) /\ \A q \in Procs : Key(q)' = Key(q)
  BY <1>5 DEF Key, Child
<1>7. QED BY <1>1, <1>2, <1>3, <1>4, <1>5, <1>6

LEMMA StepPlaced ==
  ASSUME TypeOK, ProcInv, PlacedInv, [Next]_vars
  PROVE  PlacedInv'
<1>1. CASE UNCHANGED <<peers, split, node, want>>
  BY <1>1 DEF PlacedInv, Key
<1>2. ASSUME NEW n \in Nodes, NEW o \in Orders, SetPeers(n, o) PROVE PlacedInv'
  BY <1>2 DEF SetPeers, PlacedInv, Key
<1>3. ASSUME NEW n \in Nodes, NEW k \in Keys, NEW u \in Users, Begin(u, n, k)
      PROVE  PlacedInv'
  <2>1. \A p \in Procs : p[1] \in Users /\ Key(p)' = IF p[1] = u THEN k ELSE Key(p)
    BY <1>3, ProcFacts DEF Begin, Key, TypeOK, Types
  <2>2. \A p \in Procs : p # <<u, 0>> => node'[p] = node[p]
    BY <1>3 DEF Begin, TypeOK, Types
  <2>3. QED BY <2>1, <2>2, NoneFacts, ProcFacts DEF PlacedInv
<1>4. ASSUME NEW p \in Procs, AskPeer(p) PROVE PlacedInv'
  <2>1. Key(Child(p)) # None BY <1>4, Asked, NoneFacts
  <2>2. QED BY <1>4, <2>1, Asked DEF PlacedInv
<1>5. QED BY <1>1, <1>2, <1>3, <1>4, Quiet

LEMMA StepHanded ==
  ASSUME TypeOK, ProcInv, OwnerInv, PlacedInv, HandedInv, [Next]_vars
  PROVE  HandedInv'
<1>1. CASE UNCHANGED <<peers, split, node, want>>
  BY <1>1 DEF HandedInv, Key
<1>2. ASSUME NEW n \in Nodes, NEW o \in Orders, SetPeers(n, o) PROVE HandedInv'
  <2> SUFFICES ASSUME ~split', NEW p \in Procs, p[2] # 0, node[p] # None
               PROVE  /\ \E m \in Nodes : peers'[m] # None
                      /\ \A m \in Nodes : peers'[m] # None =>
                           /\ ~IsEmpty(Maps[peers'[m]])
                           /\ Owner(Maps[peers'[m]], Key(p)) = node[p]
    BY <1>2 DEF HandedInv, SetPeers, Key
  <2>1. /\ \A m \in Nodes : peers'[m] = IF m = n THEN o ELSE peers[m]
        /\ \A m \in Nodes : peers[m] # None => Agree(peers[m], o)
        /\ ~split
    BY <1>2 DEF SetPeers, TypeOK, Types
  <2>2. PICK j \in Nodes : peers[j] # None BY <2>1 DEF HandedInv
  <2>3. /\ ~IsEmpty(Maps[peers[j]]) /\ Owner(Maps[peers[j]], Key(p)) = node[p]
        /\ Agree(peers[j], o)
    BY <2>1, <2>2 DEF HandedInv
  <2>4. Key(p) \in Keys \cup {None} /\ o # None /\ Key(p) # None
    BY ProcFacts, NoneFacts DEF Key, TypeOK, Types, PlacedInv
  <2>5. ~IsEmpty(Maps[o]) /\ Owner(Maps[o], Key(p)) = node[p]
    BY <2>3, <2>4 DEF Agree
  <2>6. QED BY <2>1, <2>4, <2>5 DEF HandedInv
<1>3. ASSUME NEW n \in Nodes, NEW k \in Keys, NEW u \in Users, Begin(u, n, k)
      PROVE  HandedInv'
  <2>1. \A p \in Procs : p[1] = u => Key(p) = None
    BY <1>3 DEF ProcInv, Begin, Goto, Key
  <2>2. \A p \in Procs : p[2] # 0 =>
          /\ node'[p] = node[p]
          /\ node[p] # None => Key(p)' = Key(p)
    <3>1. \A p \in Procs : p[2] # 0 => node'[p] = node[p]
      BY <1>3, ProcFacts DEF Begin, TypeOK, Types
    <3>2. \A p \in Procs : p[1] # u => Key(p)' = Key(p)
      BY <1>3, ProcFacts DEF Begin, Key, TypeOK, Types
    <3>3. QED BY <2>1, <3>1, <3>2 DEF PlacedInv
  <2>3. UNCHANGED <<peers, split>> BY <1>3 DEF Begin, nodeVars
  <2>4. QED BY <2>2, <2>3 DEF HandedInv
<1>4. ASSUME NEW p \in Procs, AskPeer(p) PROVE HandedInv'
  <2> SUFFICES ASSUME ~split, NEW q \in Procs, q[2] # 0, node'[q] # None
               PROVE  /\ \E m \in Nodes : peers[m] # None
                      /\ \A m \in Nodes : peers[m] # None =>
                           /\ ~IsEmpty(Maps[peers[m]])
                           /\ Owner(Maps[peers[m]], Key(q)) = node'[q]
    BY <1>4, Asked DEF HandedInv
  <2>1. CASE q # Child(p) BY <1>4, <2>1, Asked DEF HandedInv
  <2>2. CASE q = Child(p)
    <3>1. /\ node'[q] = Owner(Maps[peers[node[p]]], Key(q))
          /\ Key(q) \in Keys /\ node[p] \in Nodes
          /\ peers[node[p]] # None /\ ~IsEmpty(Maps[peers[node[p]]])
      BY <1>4, <2>2, Asked DEF Picked, HasRing
    <3>2. \A m \in Nodes : peers[m] # None => Agree(peers[m], peers[node[p]])
      BY <3>1 DEF OwnerInv
    <3>3. QED BY <3>1, <3>2 DEF Agree
  <2>3. QED BY <2>1, <2>2
<1>5. QED BY <1>1, <1>2, <1>3, <1>4, Quiet

LEMMA StepAway ==
  ASSUME TypeOK, ProcInv, HandedInv, AwayInv, [Next]_vars
  PROVE  AwayInv'
<1>1. ASSUME NEW p \in Procs, pc[p] # "remote", pc'[p] = "remote" PROVE AskPeer(p)
  <2>1. ~UNCHANGED vars BY <1>1 DEF vars
  <2>2. ASSUME NEW n \in Nodes, NEW o \in Orders PROVE ~SetPeers(n, o)
    BY <1>1 DEF SetPeers
  <2>3. ASSUME NEW n \in Nodes, NEW k \in Keys PROVE ~Evict(n, k)
    BY <1>1 DEF Evict
  <2>4. ASSUME NEW n \in Nodes, NEW k \in Keys, NEW u \in Users PROVE ~Begin(u, n, k)
    BY <1>1, ProcFacts DEF Begin, Goto, Entered, TypeOK, Types
  <2>5. ASSUME NEW q \in Procs, Step(q) PROVE AskPeer(p)
    <3>1. ASSUME NEW to, to # "remote", pc' = [pc EXCEPT ![q] = to] PROVE FALSE
      BY <1>1, <3>1 DEF TypeOK, Types
    <3>2. AskPeer(q)
      BY <2>5, <3>1 DEF Step, Join, Lead, Wake, GetterReturns, LoadAlone, PickPanics,
         LoadOwn, Goto
    <3>3. p = q BY <1>1, <3>2 DEF AskPeer, Goto, TypeOK, Types
    <3>4. QED BY <3>2, <3>3
  <2>6. ASSUME NEW q \in Procs PROVE ~Asking(q) /\ ~RequestFails(q)
    BY <1>1, ProcFacts
     DEF Asking, RequestFails, Serve, PeerAnswers, ConnectionCut, FallBack, Goto,
         Entered, TypeOK, Types
  <2>7. QED BY <2>1, <2>2, <2>3, <2>4, <2>5, <2>6 DEF Next
<1>2. ASSUME NEW p \in Procs, NEW q \in Procs, pc[p] = "remote", AskPeer(q)
      PROVE  Child(p) \in Procs /\ Child(p) # Child(q)
  <2>1. p[2] < Hops BY <1>2 DEF ProcInv
  <2>2. p # q BY <1>2 DEF AskPeer, Goto
  <2>3. QED BY <2>1, <2>2, ProcFacts
<1>3. ASSUME NEW p \in Procs, pc'[p] = "remote"
      PROVE  node'[Child(p)] # node'[p] /\ (~split' => p[2] = 0)
  <2>1. CASE pc[p] # "remote"
    <3>1. AskPeer(p) BY <1>1, <1>3, <2>1
    <3>2. node'[Child(p)] # node'[p] BY <3>1, Asked
    <3>3. ASSUME ~split, p[2] # 0 PROVE FALSE
      <4>1. node[p] \in Nodes /\ peers[node[p]] # None BY <3>1, Asked DEF HasRing
      <4>2. Owner(Maps[peers[node[p]]], Key(p)) = node[p]
        BY <3>3, <4>1, NoneFacts DEF HandedInv
      <4>3. QED BY <3>1, <4>2, Asked DEF Picked
    <3>4. QED BY <3>1, <3>2, <3>3, Asked
  <2>2. CASE pc[p] = "remote"
    <3>1. Child(p) \in Procs /\ node[Child(p)] # node[p] /\ (~split => p[2] = 0)
      BY <2>2, ProcFacts DEF ProcInv, AwayInv
    <3>2. /\ split => split'
          /\ node'[p] = node[p] /\ node'[Child(p)] = node[Child(p)]
      <4>1. CASE UNCHANGED <<peers, split, node, want>> BY <4>1
      <4>2. ASSUME NEW n \in Nodes, NEW o \in Orders, SetPeers(n, o)
            PROVE  (split => split') /\ node' = node
        BY <4>2 DEF SetPeers
      <4>3. ASSUME NEW n \in Nodes, NEW k \in Keys, NEW u \in Users, Begin(u, n, k)
            PROVE  /\ split => split'
                   /\ node'[p] = node[p] /\ node'[Child(p)] = node[Child(p)]
        <5>1. p # <<u, 0>> /\ Child(p) # <<u, 0>>
          BY <2>2, <4>3, ProcFacts DEF ProcInv, Begin, Goto
        <5>2. QED BY <3>1, <4>3, <5>1 DEF Begin, nodeVars, TypeOK, Types
      <4>4. ASSUME NEW q \in Procs, AskPeer(q)
            PROVE  /\ split => split'
                   /\ node'[p] = node[p] /\ node'[Child(p)] = node[Child(p)]
        <5>1. p # Child(q) /\ Child(p) # Child(q)
          BY <1>2, <2>2, <4>4, Asked
        <5>2. QED BY <3>1, <4>4, <5>1, Asked
      <4>5. QED BY <4>1, <4>2, <4>3, <4>4, Quiet
    <3>3. QED BY <3>1, <3>2
  <2>3. QED BY <2>1, <2>2
<1>4. QED BY <1>3 DEF AwayInv

LEMMA AskInit == Init => AskInv
<1>1. ASSUME Init, NEW p \in Procs PROVE pc[p] = "idle" /\ node[p] = None
  BY <1>1 DEF Init
<1>2. QED BY <1>1 DEF AskInv, WaitInv, PlacedInv, HandedInv, AwayInv

LEMMA AskStep == IInv /\ AskInv /\ [Next]_vars => AskInv'
BY StepWait, StepPlaced, StepHanded, StepAway DEF IInv, AskInv

\* p goes on when q has come to an end.
Awaits(p, q) ==
  \/ pc[p] = "wait" /\ q = leader[p]
  \/ pc[p] = "remote" /\ q = Child(p)

\* Others wait behind a node that asks, not the other way round.
Rank(p) ==
  IF pc[p] = "remote" THEN 2
  ELSE IF pc[p] = "wait" THEN IF pc[leader[p]] = "remote" THEN 3 ELSE 1
  ELSE 0

LEMMA RankFalls ==
  ASSUME IInv, AskInv, ~split, NEW p \in Procs, NEW q \in Procs, Awaits(p, q)
  PROVE  Rank(q) < Rank(p)
<1>1. CASE pc[p] = "wait" /\ q = leader[p]
  <2>1. pc[q] # "wait" BY <1>1 DEF AskInv, WaitInv
  <2>2. QED BY <1>1, <2>1 DEF Rank
<1>2. CASE pc[p] = "remote" /\ q = Child(p)
  <2>1. /\ q[2] # 0 /\ node[q] # None /\ p[2] = 0 /\ Key(p) = Key(q)
    <3>1. p[2] = 0 BY <1>2 DEF AskInv, AwayInv
    <3>2. QED BY <1>2, <3>1 DEF IInv, ProcInv, Child, Key
  <2>2. pc[q] # "remote" BY <2>1 DEF AskInv, AwayInv
  <2>3. ASSUME pc[q] = "wait", pc[leader[q]] = "remote" PROVE FALSE
    <3> DEFINE l == leader[q]
    <3>1. l \in Procs /\ node[l] = node[q] /\ Key(l) = Key(q) /\ l[2] = 0
      BY <2>3 DEF AskInv, WaitInv, AwayInv
    <3>2. /\ Child(l) \in Procs /\ node[Child(l)] # None /\ Child(l)[2] # 0
          /\ Key(Child(l)) = Key(l)
      <4>1. l[2] < Hops /\ node[Child(l)] # None
        BY <2>3, <3>1 DEF IInv, ProcInv
      <4>2. Child(l)[2] = 1 /\ Key(Child(l)) = Key(l) BY <3>1 DEF Child, Key
      <4>3. QED BY <3>1, <4>1, <4>2, ProcFacts
    <3>3. node[Child(l)] = node[q]
      <4>1. PICK m \in Nodes : peers[m] # None
        BY <2>1 DEF AskInv, HandedInv
      <4>2. /\ Owner(Maps[peers[m]], Key(q)) = node[q]
            /\ Owner(Maps[peers[m]], Key(Child(l))) = node[Child(l)]
        BY <2>1, <3>2, <4>1 DEF AskInv, HandedInv
      <4>3. QED BY <3>1, <3>2, <4>2
    <3>4. QED BY <2>3, <3>1, <3>3 DEF AskInv, AwayInv
  <2>4. QED BY <1>2, <2>2, <2>3 DEF Rank
<1>3. QED BY <1>1, <1>2 DEF Awaits

\* Every process ranks above those it waits for: none waits for itself, not
\* even by way of others.
NoCircle ==
  \E rank \in [Procs -> 0 .. 3] :
    \A p, q \in Procs : Awaits(p, q) => rank[q] < rank[p]

\* singleflight.go:22-40: whoever waits for a call waits for one of its own key
\* at its own node, which is under way, has ended or was left by a panic.
THEOREM JoinedRight == Spec => []WaitInv
<1>1. AskInv => WaitInv BY DEF AskInv
<1>2. QED BY InitInv, StepInv, AskInit, AskStep, <1>1, PTL DEF Spec

\* server.go:42-74, 88-99, singleflight.go:22-40: while the lists of peers
\* agree, goroutines that wait for one another, in the flights of their nodes
\* and for the answers of other nodes, never do so in a circle.
THEOREM NobodyWaitsInACircle == Spec => [](~split => NoCircle)
<1>1. IInv /\ AskInv => (~split => NoCircle)
  <2> SUFFICES ASSUME IInv, AskInv, ~split PROVE NoCircle OBVIOUS
  <2> DEFINE rank == [p \in Procs |-> Rank(p)]
  <2>1. rank \in [Procs -> 0 .. 3]
    <3>1. \A p \in Procs : Rank(p) \in {0, 1, 2, 3} BY DEF Rank
    <3>2. QED BY <3>1
  <2>2. \A p, q \in Procs : Awaits(p, q) => rank[q] < rank[p] BY RankFalls
  <2>3. QED BY <2>1, <2>2 DEF NoCircle
<1>2. QED BY InitInv, StepInv, AskInit, AskStep, <1>1, PTL DEF Spec

\* server.go:88-99: while the lists of peers agree, a request of a node is
\* never handed on by the node that it asks.
THEOREM AskedOnce ==
  Spec => [](~split => \A p \in Procs : pc[p] = "remote" => p[2] = 0)
<1>1. AskInv => (~split => \A p \in Procs : pc[p] = "remote" => p[2] = 0)
  BY DEF AskInv, AwayInv
<1>2. QED BY InitInv, StepInv, AskInit, AskStep, <1>1, PTL DEF Spec

==============================================================================
