--------------------------- MODULE CacheGroupProofs --------------------------
(***************************************************************************)
(* Theorems about CacheGroup for any keys, sizes, callers and budget.      *)
(* SingleFlight does not depend on what the cache does: the map of calls   *)
(* names the goroutine that is inside a call, a goroutine that waits keeps *)
(* its leader in place, and the result of a call is fixed before Done.     *)
(* NoReload depends on all of it, down to the counter of the bytes: were   *)
(* it wrong, an entry that fits could be evicted when it is added.         *)
(***************************************************************************)
EXTENDS CacheGroup, FiniteSetTheorems, WellFoundedInduction, TLAPS

CallTypes ==
  /\ pc \in [Callers -> {"idle", "do", "wait", "remote", "local",
               "publish", "delete", "returned", "panicked"}]
  /\ key \in [Callers -> Keys \cup {None}]
  /\ flight \in [Keys -> Callers \cup {None}]
  /\ leader \in [Callers -> Callers \cup {None}]
  /\ val \in [Callers -> Value] /\ result \in [Callers -> Value]
  /\ done \subseteq Callers

\* Inside Do, or left by a panic.
Inside(c) == pc[c] \in {"remote", "local", "publish", "delete", "panicked"}

\* A goroutine that has missed the cache knows its key, and the call in flight
\* for a key is that of the goroutine inside it.
FlightInv ==
  /\ \A c \in Callers : pc[c] # "idle" => key[c] \in Keys
  /\ \A c \in Callers : Inside(c) => flight[key[c]] = c
  /\ \A k \in Keys : flight[k] # None =>
       Inside(flight[k]) /\ key[flight[k]] = k

\* Whoever waits, or has waited, did so for a call of its key, which is not
\* forgotten before it is done with it.
LeaderInv ==
  \A c \in Callers :
    /\ leader[c] # None =>
         /\ pc[c] \in {"wait", "returned"}
         /\ Inside(leader[c]) \/ pc[leader[c]] = "returned"
         /\ key[leader[c]] = key[c]
    /\ pc[c] = "wait" => leader[c] # None

\* A call has its result before Done, and keeps it.
ResultInv ==
  /\ \A c \in Callers : pc[c] \in {"publish", "delete"} => val[c] # None
  /\ \A c \in done : pc[c] \in {"delete", "returned"} /\ val[c] # None
  /\ \A c \in Callers : pc[c] = "returned" => result[c] # None
  /\ \A c \in Callers : pc[c] = "returned" /\ leader[c] # None =>
       leader[c] \in done /\ result[c] = val[leader[c]]

IInv == CallTypes /\ FlightInv /\ LeaderInv /\ ResultInv

LEMMA NoneFacts ==
  /\ None \notin Callers /\ None \notin Keys /\ None \notin Lens /\ Failed # None
BY GroupAssumption, LruAssumption

\* Every step keeps the types.
LEMMA StepTypes ==
  ASSUME CallTypes, FlightInv, LeaderInv, [Next]_vars
  PROVE  CallTypes'
<1>1. CASE UNCHANGED vars
  BY <1>1, NoneFacts DEF vars, callVars, CallTypes, Value
<1>2. ASSUME NEW c \in Callers, NEW k \in Keys, CacheHit(c, k) PROVE CallTypes'
  BY <1>2, NoneFacts DEF CacheHit, callVars, CallTypes, Value
<1>3. ASSUME NEW c \in Callers, NEW k \in Keys, CacheMiss(c, k) PROVE CallTypes'
  BY <1>3, NoneFacts DEF CacheMiss, Goto, CallTypes, Value
<1>4. ASSUME NEW c \in Callers, Leave(c) PROVE CallTypes'
  BY <1>4, NoneFacts DEF Leave, Goto, CallTypes, Value
<1>5. ASSUME NEW c \in Callers, Join(c) PROVE CallTypes'
  BY <1>5, NoneFacts DEF Join, Goto, InFlight, CallTypes, Value, FlightInv
<1>6. ASSUME NEW c \in Callers, Lead(c) PROVE CallTypes'
  BY <1>6, NoneFacts
   DEF Lead, Goto, InFlight, PickPeer, CallTypes, Value, FlightInv
<1>7. ASSUME NEW c \in Callers, Wake(c) PROVE CallTypes'
  BY <1>7, NoneFacts DEF Wake, Woken, Return, Goto, CallTypes, Value
<1>8. ASSUME NEW c \in Callers, PeerFails(c) PROVE CallTypes'
  BY <1>8, NoneFacts DEF PeerFails, Goto, CallTypes, Value
<1>9. ASSUME NEW c \in Callers, PeerAnswers(c) PROVE CallTypes'
  BY <1>9, NoneFacts DEF PeerAnswers, Goto, CallTypes, Value
<1>10. ASSUME NEW c \in Callers, NEW len \in Lens, GetterReturns(c, len) PROVE CallTypes'
  BY <1>10, NoneFacts DEF GetterReturns, Goto, CallTypes, Value
<1>11. ASSUME NEW c \in Callers, GetterFails(c) PROVE CallTypes'
  BY <1>11, NoneFacts DEF GetterFails, Goto, CallTypes, Value
<1>12. ASSUME NEW c \in Callers, Publish(c) PROVE CallTypes'
  BY <1>12, NoneFacts DEF Publish, Goto, DoneReached, CallTypes, Value
<1>13. ASSUME NEW c \in Callers, Delete(c) PROVE CallTypes'
  BY <1>13, NoneFacts DEF Delete, Return, Goto, CallTypes, Value, FlightInv
<1> QED
  BY <1>1, <1>2, <1>3, <1>4, <1>5, <1>6, <1>7, <1>8, <1>9, <1>10, <1>11,
      <1>12, <1>13
  DEF Next, Step

\* Every step keeps the map of calls and those inside them together.
LEMMA StepFlight ==
  ASSUME CallTypes, FlightInv, [Next]_vars
  PROVE  FlightInv'
<1>1. CASE UNCHANGED vars
  BY <1>1, NoneFacts DEF vars, callVars, CallTypes, FlightInv, Inside
<1>2. ASSUME NEW c \in Callers, NEW k \in Keys, CacheHit(c, k) PROVE FlightInv'
  BY <1>2, NoneFacts DEF CacheHit, callVars, CallTypes, FlightInv, Inside
<1>3. ASSUME NEW c \in Callers, NEW k \in Keys, CacheMiss(c, k) PROVE FlightInv'
  BY <1>3, NoneFacts DEF CacheMiss, Goto, CallTypes, FlightInv, Inside
<1>4. ASSUME NEW c \in Callers, Leave(c) PROVE FlightInv'
  BY <1>4, NoneFacts DEF Leave, Goto, CallTypes, FlightInv, Inside
<1>5. ASSUME NEW c \in Callers, Join(c) PROVE FlightInv'
  BY <1>5, NoneFacts DEF Join, Goto, InFlight, CallTypes, FlightInv, Inside
<1>6. ASSUME NEW c \in Callers, Lead(c) PROVE FlightInv'
  BY <1>6, NoneFacts
   DEF Lead, Goto, InFlight, PickPeer, CallTypes, FlightInv, Inside
<1>7. ASSUME NEW c \in Callers, Wake(c) PROVE FlightInv'
  BY <1>7, NoneFacts DEF Wake, Woken, Return, Goto, CallTypes, FlightInv, Inside
<1>8. ASSUME NEW c \in Callers, PeerFails(c) PROVE FlightInv'
  BY <1>8, NoneFacts DEF PeerFails, Goto, CallTypes, FlightInv, Inside
<1>9. ASSUME NEW c \in Callers, PeerAnswers(c) PROVE FlightInv'
  BY <1>9, NoneFacts DEF PeerAnswers, Goto, CallTypes, FlightInv, Inside
<1>10. ASSUME NEW c \in Callers, NEW len \in Lens, GetterReturns(c, len) PROVE FlightInv'
  BY <1>10, NoneFacts DEF GetterReturns, Goto, CallTypes, FlightInv, Inside
<1>11. ASSUME NEW c \in Callers, GetterFails(c) PROVE FlightInv'
  BY <1>11, NoneFacts DEF GetterFails, Goto, CallTypes, FlightInv, Inside
<1>12. ASSUME NEW c \in Callers, Publish(c) PROVE FlightInv'
  BY <1>12, NoneFacts DEF Publish, Goto, DoneReached, CallTypes, FlightInv, Inside
<1>13. ASSUME NEW c \in Callers, Delete(c) PROVE FlightInv'
  BY <1>13, NoneFacts DEF Delete, Return, Goto, CallTypes, FlightInv, Inside
<1> QED
  BY <1>1, <1>2, <1>3, <1>4, <1>5, <1>6, <1>7, <1>8, <1>9, <1>10, <1>11,
      <1>12, <1>13
  DEF Next, Step

\* Every step keeps the leader of a goroutine in place.
LEMMA StepLeader ==
  ASSUME CallTypes, FlightInv, LeaderInv, ResultInv, [Next]_vars
  PROVE  LeaderInv'
<1>1. CASE UNCHANGED vars
  BY <1>1, NoneFacts DEF vars, callVars, CallTypes, FlightInv, LeaderInv, Inside
<1>2. ASSUME NEW c \in Callers, NEW k \in Keys, CacheHit(c, k) PROVE LeaderInv'
  BY <1>2, NoneFacts
   DEF CacheHit, callVars, CallTypes, FlightInv, LeaderInv, Inside
<1>3. ASSUME NEW c \in Callers, NEW k \in Keys, CacheMiss(c, k) PROVE LeaderInv'
  BY <1>3, NoneFacts DEF CacheMiss, Goto, CallTypes, FlightInv, LeaderInv, Inside
<1>4. ASSUME NEW c \in Callers, Leave(c) PROVE LeaderInv'
  BY <1>4, NoneFacts DEF Leave, Goto, CallTypes, FlightInv, LeaderInv, Inside
<1>5. ASSUME NEW c \in Callers, Join(c) PROVE LeaderInv'
  BY <1>5, NoneFacts
   DEF Join, Goto, InFlight, CallTypes, FlightInv, LeaderInv, Inside
<1>6. ASSUME NEW c \in Callers, Lead(c) PROVE LeaderInv'
  BY <1>6, NoneFacts
   DEF Lead, Goto, InFlight, PickPeer, CallTypes, FlightInv, LeaderInv, Inside
<1>7. ASSUME NEW c \in Callers, Wake(c) PROVE LeaderInv'
  BY <1>7, NoneFacts
   DEF Wake, Woken, Return, Goto, CallTypes, FlightInv, LeaderInv, Inside,
      ResultInv
<1>8. ASSUME NEW c \in Callers, PeerFails(c) PROVE LeaderInv'
  BY <1>8, NoneFacts DEF PeerFails, Goto, CallTypes, FlightInv, LeaderInv, Inside
<1>9. ASSUME NEW c \in Callers, PeerAnswers(c) PROVE LeaderInv'
  BY <1>9, NoneFacts
   DEF PeerAnswers, Goto, CallTypes, FlightInv, LeaderInv, Inside
<1>10. ASSUME NEW c \in Callers, NEW len \in Lens, GetterReturns(c, len) PROVE LeaderInv'
  BY <1>10, NoneFacts
   DEF GetterReturns, Goto, CallTypes, FlightInv, LeaderInv, Inside
<1>11. ASSUME NEW c \in Callers, GetterFails(c) PROVE LeaderInv'
  BY <1>11, NoneFacts
   DEF GetterFails, Goto, CallTypes, FlightInv, LeaderInv, Inside
<1>12. ASSUME NEW c \in Callers, Publish(c) PROVE LeaderInv'
  BY <1>12, NoneFacts
   DEF Publish, Goto, DoneReached, CallTypes, FlightInv, LeaderInv, Inside
<1>13. ASSUME NEW c \in Callers, Delete(c) PROVE LeaderInv'
  BY <1>13, NoneFacts
   DEF Delete, Return, Goto, CallTypes, FlightInv, LeaderInv, Inside
<1> QED
  BY <1>1, <1>2, <1>3, <1>4, <1>5, <1>6, <1>7, <1>8, <1>9, <1>10, <1>11,
      <1>12, <1>13
  DEF Next, Step

\* Every step keeps what a call has returned.
LEMMA StepResult ==
  ASSUME CallTypes, FlightInv, LeaderInv, ResultInv, [Next]_vars
  PROVE  ResultInv'
<1>1. CASE UNCHANGED vars
  BY <1>1, NoneFacts
   DEF vars, callVars, CallTypes, LeaderInv, Inside, ResultInv, Value
<1>2. ASSUME NEW c \in Callers, NEW k \in Keys, CacheHit(c, k) PROVE ResultInv'
  BY <1>2, NoneFacts
   DEF CacheHit, callVars, CallTypes, LeaderInv, Inside, ResultInv, Value
<1>3. ASSUME NEW c \in Callers, NEW k \in Keys, CacheMiss(c, k) PROVE ResultInv'
  BY <1>3, NoneFacts
   DEF CacheMiss, Goto, CallTypes, LeaderInv, Inside, ResultInv, Value
<1>4. ASSUME NEW c \in Callers, Leave(c) PROVE ResultInv'
  BY <1>4, NoneFacts
   DEF Leave, Goto, CallTypes, LeaderInv, Inside, ResultInv, Value
<1>5. ASSUME NEW c \in Callers, Join(c) PROVE ResultInv'
  BY <1>5, NoneFacts
   DEF Join, Goto, InFlight, CallTypes, LeaderInv, Inside, ResultInv, Value
<1>6. ASSUME NEW c \in Callers, Lead(c) PROVE ResultInv'
  BY <1>6, NoneFacts
   DEF Lead, Goto, InFlight, PickPeer, CallTypes, LeaderInv, Inside,
      ResultInv, Value
<1>7. ASSUME NEW c \in Callers, Wake(c) PROVE ResultInv'
  BY <1>7, NoneFacts
   DEF Wake, Woken, Return, Goto, CallTypes, LeaderInv, Inside, ResultInv,
      Value
<1>8. ASSUME NEW c \in Callers, PeerFails(c) PROVE ResultInv'
  BY <1>8, NoneFacts
   DEF PeerFails, Goto, CallTypes, LeaderInv, Inside, ResultInv, Value
<1>9. ASSUME NEW c \in Callers, PeerAnswers(c) PROVE ResultInv'
  BY <1>9, NoneFacts
   DEF PeerAnswers, Goto, CallTypes, LeaderInv, Inside, ResultInv, Value
<1>10. ASSUME NEW c \in Callers, NEW len \in Lens, GetterReturns(c, len) PROVE ResultInv'
  BY <1>10, NoneFacts
   DEF GetterReturns, Goto, CallTypes, LeaderInv, Inside, ResultInv, Value
<1>11. ASSUME NEW c \in Callers, GetterFails(c) PROVE ResultInv'
  BY <1>11, NoneFacts
   DEF GetterFails, Goto, CallTypes, LeaderInv, Inside, ResultInv, Value
<1>12. ASSUME NEW c \in Callers, Publish(c) PROVE ResultInv'
  BY <1>12, NoneFacts
   DEF Publish, Goto, DoneReached, CallTypes, LeaderInv, Inside, ResultInv,
      Value
<1>13. ASSUME NEW c \in Callers, Delete(c) PROVE ResultInv'
  BY <1>13, NoneFacts
   DEF Delete, Return, Goto, CallTypes, LeaderInv, Inside, ResultInv, Value
<1> QED
  BY <1>1, <1>2, <1>3, <1>4, <1>5, <1>6, <1>7, <1>8, <1>9, <1>10, <1>11,
      <1>12, <1>13
  DEF Next, Step

LEMMA InitInv == Init => IInv
BY NoneFacts
DEF Init, IInv, CallTypes, Value, FlightInv, LeaderInv, ResultInv, Inside

LEMMA StepInv == IInv /\ [Next]_vars => IInv'
BY StepTypes, StepFlight, StepLeader, StepResult DEF IInv

LEMMA Single == IInv => SingleFlight
<1> SUFFICES ASSUME IInv PROVE SingleFlight OBVIOUS
<1>1. OneLoad BY DEF IInv, FlightInv, Inside, OneLoad, Loading
<1>2. SharedResult
  BY DEF IInv, ResultInv, LeaderInv, SharedResult
<1>3. QED BY <1>1, <1>2 DEF SingleFlight

\* singleflight.go:18-43: two goroutines never load the same key at once, and
\* whoever shared a call got its result.
THEOREM SharedFlight == Spec => []SingleFlight
BY InitInv, StepInv, Single, PTL DEF Spec

------------------------------------------------------------------------------
(* Nobody sleeps through the end of a call.                                *)

\* Whoever waits can go on, or the goroutine that leads its call, which does
\* not wait itself, is still to wake it or has panicked.
WakeInv ==
  /\ \A c \in Callers : pc[c] = "delete" => c \in done
  /\ \A c \in Callers : pc[c] = "wait" =>
       Woken(c) \/ pc[leader[c]] \in {"remote", "local", "publish", "panicked"}

\* Every step keeps a goroutine that waits and the one to wake it together.
LEMMA StepWake ==
  ASSUME CallTypes, FlightInv, LeaderInv, ResultInv, WakeInv, [Next]_vars
  PROVE  WakeInv'
<1>1. CASE UNCHANGED vars
  BY <1>1, NoneFacts DEF vars, callVars, CallTypes, FlightInv, LeaderInv, Inside, WakeInv, Woken
<1>2. ASSUME NEW c \in Callers, NEW k \in Keys, CacheHit(c, k) PROVE WakeInv'
  BY <1>2, NoneFacts
   DEF CacheHit, callVars, CallTypes, FlightInv, LeaderInv, Inside, WakeInv, Woken
<1>3. ASSUME NEW c \in Callers, NEW k \in Keys, CacheMiss(c, k) PROVE WakeInv'
  BY <1>3, NoneFacts DEF CacheMiss, Goto, CallTypes, FlightInv, LeaderInv, Inside, WakeInv, Woken
<1>4. ASSUME NEW c \in Callers, Leave(c) PROVE WakeInv'
  BY <1>4, NoneFacts DEF Leave, Goto, CallTypes, FlightInv, LeaderInv, Inside, WakeInv, Woken
<1>5. ASSUME NEW c \in Callers, Join(c) PROVE WakeInv'
  BY <1>5, NoneFacts
   DEF Join, Goto, InFlight, CallTypes, FlightInv, LeaderInv, Inside, WakeInv, Woken
<1>6. ASSUME NEW c \in Callers, Lead(c) PROVE WakeInv'
  BY <1>6, NoneFacts
   DEF Lead, Goto, InFlight, PickPeer, CallTypes, FlightInv, LeaderInv, Inside, WakeInv, Woken
<1>7. ASSUME NEW c \in Callers, Wake(c) PROVE WakeInv'
  BY <1>7, NoneFacts
   DEF Wake, Return, Goto, CallTypes, FlightInv, LeaderInv, Inside, WakeInv, Woken,
      ResultInv
<1>8. ASSUME NEW c \in Callers, PeerFails(c) PROVE WakeInv'
  BY <1>8, NoneFacts DEF PeerFails, Goto, CallTypes, FlightInv, LeaderInv, Inside, WakeInv, Woken
<1>9. ASSUME NEW c \in Callers, PeerAnswers(c) PROVE WakeInv'
  BY <1>9, NoneFacts
   DEF PeerAnswers, Goto, CallTypes, FlightInv, LeaderInv, Inside, WakeInv, Woken
<1>10. ASSUME NEW c \in Callers, NEW len \in Lens, GetterReturns(c, len) PROVE WakeInv'
  BY <1>10, NoneFacts
   DEF GetterReturns, Goto, CallTypes, FlightInv, LeaderInv, Inside, WakeInv, Woken
<1>11. ASSUME NEW c \in Callers, GetterFails(c) PROVE WakeInv'
  BY <1>11, NoneFacts
   DEF GetterFails, Goto, CallTypes, FlightInv, LeaderInv, Inside, WakeInv, Woken
<1>12. ASSUME NEW c \in Callers, Publish(c) PROVE WakeInv'
  BY <1>12, NoneFacts
   DEF Publish, Goto, DoneReached, CallTypes, FlightInv, LeaderInv, Inside, WakeInv, Woken
<1>13. ASSUME NEW c \in Callers, Delete(c) PROVE WakeInv'
  BY <1>13, NoneFacts
   DEF Delete, Return, Goto, CallTypes, FlightInv, LeaderInv, Inside, WakeInv, Woken
<1> QED
  BY <1>1, <1>2, <1>3, <1>4, <1>5, <1>6, <1>7, <1>8, <1>9, <1>10, <1>11,
      <1>12, <1>13
  DEF Next, Step

\* singleflight.go:22-40: no wake-up is lost: a Get waits for a call that is
\* done, or for a goroutine that is still before wg.Done, unless a panic has
\* left the call.
THEOREM NoLostWakeUp ==
  Spec => [](\A c \in Callers : pc[c] = "wait" =>
               \/ Woken(c)
               \/ pc[leader[c]] \in {"remote", "local", "publish", "panicked"})
<1>1. Init => WakeInv BY DEF Init, WakeInv
<1>2. IInv /\ WakeInv /\ [Next]_vars => WakeInv' BY StepWake DEF IInv
<1>3. WakeInv => \A c \in Callers : pc[c] = "wait" =>
        \/ Woken(c)
        \/ pc[leader[c]] \in {"remote", "local", "publish", "panicked"}
  BY DEF WakeInv
<1>4. QED BY InitInv, StepInv, <1>1, <1>2, <1>3, PTL DEF Spec

------------------------------------------------------------------------------
(* The list and the map of Lru.                                            *)

Distinct(l) == \A i, j \in DOMAIN l : l[i].key = l[j].key => i = j

\* The map holds the keys of the list, each of which is there once.
Linked == ll \in Seq(Entry) /\ cache = KeysOf(ll) /\ Distinct(ll)

LEMMA SeqFacts ==
  ASSUME NEW l \in Seq(Entry)
  PROVE  /\ Len(l) \in Nat /\ DOMAIN l = 1 .. Len(l)
         /\ \A i \in DOMAIN l : l[i] \in Entry
         /\ l \in [1 .. Len(l) -> Entry]
OBVIOUS

\* The elements of a list without the one at i.
LEMMA RemovedIs ==
  ASSUME NEW l \in Seq(Entry), NEW i \in DOMAIN l
  PROVE  /\ RemoveAt(l, i) \in Seq(Entry) /\ Len(RemoveAt(l, i)) = Len(l) - 1
         /\ \A j \in 1 .. Len(l) - 1 :
              RemoveAt(l, i)[j] = IF j < i THEN l[j] ELSE l[j + 1]
<1> DEFINE r == RemoveAt(l, i)
           n == Len(l)
           a == SubSeq(l, 1, i - 1)
           b == SubSeq(l, i + 1, n)
<1>1. n \in Nat /\ i \in 1 .. n BY SeqFacts
<1>2. a \in Seq(Entry) /\ Len(a) = i - 1 /\ \A j \in 1 .. i - 1 : a[j] = l[j]
  BY <1>1
<1>3. b \in Seq(Entry) /\ Len(b) = n - i /\ \A j \in 1 .. n - i : b[j] = l[i + j]
  BY <1>1
<1>4. a \in Seq(Entry) /\ b \in Seq(Entry) /\ r = a \o b BY <1>2, <1>3 DEF RemoveAt
<1> HIDE DEF a, b, r
<1>5. r \in Seq(Entry) /\ Len(r) = n - 1
  <2>1. r \in Seq(Entry) /\ Len(r) = Len(a) + Len(b) BY <1>4
  <2>2. QED BY <1>1, <1>2, <1>3, <2>1
<1>6. ASSUME NEW j \in 1 .. n - 1 PROVE r[j] = IF j < i THEN l[j] ELSE l[j + 1]
  <2>1. r[j] = IF j <= Len(a) THEN a[j] ELSE b[j - Len(a)]
    BY <1>1, <1>2, <1>3, <1>4
  <2>2. CASE j < i BY <1>1, <1>2, <2>1, <2>2
  <2>3. CASE ~(j < i)
    <3>1. r[j] = b[j - i + 1] /\ j - i + 1 \in 1 .. n - i
      BY <1>1, <1>2, <2>1, <2>3
    <3>2. b[j - i + 1] = l[i + (j - i + 1)] BY <1>3, <3>1
    <3>3. i + (j - i + 1) = j + 1 BY <1>1
    <3>4. QED BY <2>3, <3>1, <3>2, <3>3
  <2>4. QED BY <2>2, <2>3
<1>7. QED BY <1>5, <1>6 DEF r

\* A list without one of its elements.
LEMMA Removed ==
  ASSUME NEW l \in Seq(Entry), NEW i \in DOMAIN l, Distinct(l)
  PROVE  /\ RemoveAt(l, i) \in Seq(Entry) /\ Distinct(RemoveAt(l, i))
         /\ KeysOf(RemoveAt(l, i)) = KeysOf(l) \ {l[i].key}
<1> DEFINE r == RemoveAt(l, i)
           n == Len(l)
<1>1. n \in Nat /\ i \in 1 .. n /\ DOMAIN l = 1 .. n BY SeqFacts
<1>2. /\ r \in Seq(Entry) /\ Len(r) = n - 1
      /\ \A j \in 1 .. n - 1 : r[j] = IF j < i THEN l[j] ELSE l[j + 1]
  BY RemovedIs
<1>3. DOMAIN r = 1 .. n - 1 BY <1>1, <1>2
<1> DEFINE old(j) == IF j < i THEN j ELSE j + 1
<1>4. \A j \in 1 .. n - 1 : old(j) \in 1 .. n /\ old(j) # i /\ r[j] = l[old(j)]
  BY <1>1, <1>2
<1>5. \A j, h \in 1 .. n - 1 : old(j) = old(h) => j = h BY <1>1
<1>6. \A h \in 1 .. n : h # i => \E j \in 1 .. n - 1 : old(j) = h
  <2>1. TAKE h \in 1 .. n
  <2>2. CASE h < i BY <1>1, <2>2
  <2>3. CASE h > i
    <3>1. h - 1 \in 1 .. n - 1 /\ old(h - 1) = h BY <1>1, <2>3
    <3>2. QED BY <3>1
  <2>4. QED BY <1>1, <2>2, <2>3
<1> HIDE DEF r, n, old
<1>7. Distinct(r)
  BY <1>1, <1>3, <1>4, <1>5 DEF Distinct
<1>8. KeysOf(r) = KeysOf(l) \ {l[i].key}
  <2>1. ASSUME NEW k \in KeysOf(r) PROVE k \in KeysOf(l) \ {l[i].key}
    BY <1>1, <1>3, <1>4 DEF KeysOf, Distinct
  <2>2. ASSUME NEW k \in KeysOf(l) \ {l[i].key} PROVE k \in KeysOf(r)
    <3>1. PICK h \in 1 .. n : l[h].key = k BY <1>1 DEF KeysOf
    <3>2. h # i BY <2>2, <3>1
    <3>3. PICK j \in 1 .. n - 1 : old(j) = h BY <1>6, <3>2
    <3>4. r[j].key = k BY <1>4, <3>1, <3>3
    <3>5. QED BY <1>3, <3>4 DEF KeysOf
  <2>3. QED BY <2>1, <2>2
<1>9. QED BY <1>2, <1>7, <1>8 DEF r

\* A list with an element of a new key before the others.
LEMMA Fronted ==
  ASSUME NEW l \in Seq(Entry), Distinct(l), NEW e \in Entry, e.key \notin KeysOf(l)
  PROVE  /\ <<e>> \o l \in Seq(Entry) /\ Distinct(<<e>> \o l)
         /\ KeysOf(<<e>> \o l) = KeysOf(l) \cup {e.key}
<1> DEFINE r == <<e>> \o l
           n == Len(l)
<1>1. n \in Nat /\ DOMAIN l = 1 .. n BY SeqFacts
<1>2. /\ r \in Seq(Entry) /\ Len(r) = n + 1 /\ r[1] = e
      /\ \A j \in 2 .. n + 1 : r[j] = l[j - 1]
  OBVIOUS
<1> HIDE DEF r, n
<1>3. DOMAIN r = 1 .. n + 1 BY <1>1, <1>2
<1>4. \A j \in 1 .. n + 1 : j = 1 \/ (j \in 2 .. n + 1 /\ j - 1 \in 1 .. n)
  BY <1>1
<1>5. \A j \in 1 .. n : j + 1 \in 2 .. n + 1 /\ j + 1 \in 1 .. n + 1 /\ (j + 1) - 1 = j
  BY <1>1
<1>6. 1 \in 1 .. n + 1 BY <1>1
<1>7. Distinct(r)
  <2>1. ASSUME NEW i \in 1 .. n + 1, NEW j \in 1 .. n + 1, r[i].key = r[j].key
        PROVE  i = j
    <3>1. CASE i = 1 /\ j # 1 BY <1>1, <1>2, <1>4, <2>1, <3>1 DEF KeysOf
    <3>2. CASE j = 1 /\ i # 1 BY <1>1, <1>2, <1>4, <2>1, <3>2 DEF KeysOf
    <3>3. CASE i # 1 /\ j # 1
      <4>1. /\ i - 1 \in 1 .. n /\ j - 1 \in 1 .. n
            /\ i \in 2 .. n + 1 /\ j \in 2 .. n + 1
        BY <1>4, <3>3
      <4>2. l[i - 1].key = l[j - 1].key BY <1>2, <2>1, <4>1
      <4>3. i - 1 = j - 1 BY <1>1, <4>1, <4>2 DEF Distinct
      <4>4. QED BY <1>1, <4>3
    <3>4. QED BY <3>1, <3>2, <3>3
  <2>2. QED BY <1>3, <2>1 DEF Distinct
<1>8. KeysOf(r) = KeysOf(l) \cup {e.key}
  <2>1. ASSUME NEW k \in KeysOf(r) PROVE k \in KeysOf(l) \cup {e.key}
    BY <1>1, <1>2, <1>3, <1>4 DEF KeysOf
  <2>2. ASSUME NEW k \in KeysOf(l) PROVE k \in KeysOf(r)
    <3>1. PICK j \in 1 .. n : l[j].key = k BY <1>1 DEF KeysOf
    <3>2. r[j + 1].key = k /\ j + 1 \in 1 .. n + 1 BY <1>2, <1>5, <3>1
    <3>3. QED BY <1>3, <3>2 DEF KeysOf
  <2>3. e.key \in KeysOf(r) BY <1>2, <1>3, <1>6 DEF KeysOf
  <2>4. QED BY <2>1, <2>2, <2>3
<1>9. QED BY <1>2, <1>7, <1>8 DEF r

\* A list of which the last elements are taken off.
LEMMA Shortened ==
  ASSUME NEW l \in Seq(Entry), Distinct(l), NEW n \in 0 .. Len(l)
  PROVE  /\ SubSeq(l, 1, n) \in Seq(Entry) /\ Distinct(SubSeq(l, 1, n))
         /\ KeysOf(SubSeq(l, 1, n)) = KeysOf(l) \ KeysOf(SubSeq(l, n + 1, Len(l)))
<1> DEFINE a == SubSeq(l, 1, n)
           b == SubSeq(l, n + 1, Len(l))
           m == Len(l)
<1>1. m \in Nat /\ n \in Nat /\ n <= m /\ DOMAIN l = 1 .. m BY SeqFacts
<1>2. a \in Seq(Entry) /\ Len(a) = n /\ \A j \in 1 .. n : a[j] = l[j]
  BY <1>1
<1>3. Len(b) = m - n /\ b \in Seq(Entry) /\ \A j \in 1 .. m - n : b[j] = l[n + j]
  BY <1>1
<1> HIDE DEF a, b, m
<1>4. DOMAIN a = 1 .. n /\ DOMAIN b = 1 .. m - n BY <1>1, <1>2, <1>3
<1>5. \A j \in 1 .. n : j \in 1 .. m BY <1>1
<1>6. Distinct(a) BY <1>1, <1>2, <1>4, <1>5 DEF Distinct
<1>7. \A j \in 1 .. m - n : n + j \in 1 .. m /\ n + j \notin 1 .. n BY <1>1
<1>8. \A h \in 1 .. m : h \in 1 .. n \/ (h - n \in 1 .. m - n /\ n + (h - n) = h)
  BY <1>1
<1>9. KeysOf(a) = KeysOf(l) \ KeysOf(b)
  <2>1. ASSUME NEW k \in KeysOf(a) PROVE k \in KeysOf(l) /\ k \notin KeysOf(b)
    <3>1. PICK j \in 1 .. n : a[j].key = k BY <1>4 DEF KeysOf
    <3>2. l[j].key = k /\ j \in 1 .. m BY <1>2, <1>5, <3>1
    <3>3. ASSUME NEW h \in 1 .. m - n, b[h].key = k PROVE FALSE
      <4>1. l[n + h].key = k /\ n + h \in 1 .. m /\ n + h # j
        BY <1>3, <1>7, <3>1, <3>3
      <4>2. QED BY <1>1, <3>2, <4>1 DEF Distinct
    <3>4. QED BY <1>1, <1>4, <3>2, <3>3 DEF KeysOf
  <2>2. ASSUME NEW k \in KeysOf(l), k \notin KeysOf(b) PROVE k \in KeysOf(a)
    <3>1. PICK h \in 1 .. m : l[h].key = k BY <1>1 DEF KeysOf
    <3>2. CASE h \in 1 .. n BY <1>2, <1>4, <3>1, <3>2 DEF KeysOf
    <3>3. CASE h \notin 1 .. n
      <4>1. h - n \in 1 .. m - n /\ b[h - n].key = k BY <1>3, <1>8, <3>1, <3>3
      <4>2. QED BY <1>4, <2>2, <4>1 DEF KeysOf
    <3>4. QED BY <3>2, <3>3
  <2>3. QED BY <2>1, <2>2
<1>10. QED BY <1>2, <1>6, <1>9 DEF a, b, m

LEMMA AtFacts ==
  ASSUME Linked, NEW k \in cache
  PROVE  At(k) \in DOMAIN ll /\ ll[At(k)].key = k /\ ll[At(k)] \in Entry
<1>1. \E i \in DOMAIN ll : ll[i].key = k BY DEF Linked, KeysOf
<1>2. At(k) \in DOMAIN ll /\ ll[At(k)].key = k BY <1>1 DEF At
<1>3. QED BY <1>2, SeqFacts DEF Linked

LEMMA HitLinked ==
  ASSUME Linked, NEW k \in Keys, Hit(k) PROVE Linked'
<1>1. k \in cache /\ cache' = cache /\ ll' = <<ll[At(k)]>> \o RemoveAt(ll, At(k))
  BY DEF Hit, MoveToFront
<1>2. At(k) \in DOMAIN ll /\ ll[At(k)].key = k /\ ll[At(k)] \in Entry
  BY <1>1, AtFacts
<1>3. /\ RemoveAt(ll, At(k)) \in Seq(Entry) /\ Distinct(RemoveAt(ll, At(k)))
      /\ KeysOf(RemoveAt(ll, At(k))) = KeysOf(ll) \ {k}
  BY <1>2, Removed DEF Linked
<1>4. /\ ll' \in Seq(Entry) /\ Distinct(ll')
      /\ KeysOf(ll') = KeysOf(RemoveAt(ll, At(k))) \cup {k}
  BY <1>1, <1>2, <1>3, Fronted
<1>5. KeysOf(ll') = cache BY <1>1, <1>3, <1>4 DEF Linked
<1>6. QED BY <1>1, <1>4, <1>5 DEF Linked

LEMMA AddLinked ==
  ASSUME Linked, NEW k \in Keys, NEW len \in Lens, Add(k, len) PROVE Linked'
<1> DEFINE l == Added(k, len)
           e == [key |-> k, len |-> len]
           r == IF k \in cache THEN RemoveAt(ll, At(k)) ELSE ll
<1>1. /\ r \in Seq(Entry) /\ Distinct(r) /\ KeysOf(r) = KeysOf(ll) \ {k}
  <2>1. CASE k \in cache BY <2>1, AtFacts, Removed DEF Linked
  <2>2. CASE k \notin cache BY <2>2 DEF Linked
  <2>3. QED BY <2>1, <2>2
<1>2. e \in Entry /\ e.key = k BY DEF Entry
<1>3. l = <<e>> \o r BY DEF Added
<1> HIDE DEF l, e, r
<1>4. l \in Seq(Entry) /\ Distinct(l) /\ KeysOf(l) = cache \cup {k}
  BY <1>1, <1>2, <1>3, Fronted DEF Linked
<1>5. PICK n \in 0 .. Len(l) : Evict(l, nBytes + Growth(k, len), n)
  BY DEF Add, l
<1>6. /\ ll' = SubSeq(l, 1, n)
      /\ cache' = (cache \cup KeysOf(l)) \ KeysOf(SubSeq(l, n + 1, Len(l)))
  BY <1>5 DEF Evict, Deleted
<1>7. /\ SubSeq(l, 1, n) \in Seq(Entry) /\ Distinct(SubSeq(l, 1, n))
      /\ KeysOf(SubSeq(l, 1, n)) = KeysOf(l) \ KeysOf(SubSeq(l, n + 1, Len(l)))
  BY <1>4, Shortened
<1>8. cache' = KeysOf(ll') BY <1>4, <1>6, <1>7
<1>9. QED BY <1>6, <1>7, <1>8 DEF Linked

\* lru.go:34-92: whatever is got, added, updated or evicted, by whichever
\* goroutine, the map holds exactly the keys of the list, each once.
THEOREM MapAndList == Spec => []Linked
<1>1. Init => Linked
  BY DEF Init, LruInit, Linked, KeysOf, Distinct
<1>2. ASSUME Linked, CallTypes, FlightInv, [Next]_vars PROVE Linked'
  <2>1. CASE UNCHANGED lruVars
    BY <1>2, <2>1 DEF lruVars, Linked, KeysOf, Distinct
  <2>2. ASSUME NEW c \in Callers, NEW k \in Keys, CacheHit(c, k) PROVE Linked'
    BY <1>2, <2>2, HitLinked DEF CacheHit
  <2>3. ASSUME NEW c \in Callers, NEW len \in Lens, GetterReturns(c, len)
        PROVE  Linked'
    <3>1. key[c] \in Keys BY <1>2, <2>3 DEF GetterReturns, Goto, FlightInv
    <3>2. QED BY <1>2, <2>3, <3>1, AddLinked DEF GetterReturns, AddToCache
  <2>4. QED
    BY <1>2, <2>1, <2>2, <2>3
    DEF Next, Step, vars, CacheMiss, Leave, Join, Lead, Wake, PeerFails,
        PeerAnswers, GetterFails, Publish, Delete
<1>3. IInv => CallTypes /\ FlightInv BY DEF IInv
<1>4. QED BY <1>1, <1>2, <1>3, InitInv, StepInv, PTL DEF Spec

------------------------------------------------------------------------------
(* The bytes in use.                                                       *)

\* A set of natural numbers that is not empty has a least element.
LEMMA LeastNumber ==
  ASSUME NEW S \in SUBSET Nat, S # {}
  PROVE  \E x \in S : \A y \in S : x <= y
<1> DEFINE T == {0 .. n : n \in S}
<1>1. T \subseteq FiniteSubsetsOf(Nat)
  <2>1. \A n \in Nat : IsFiniteSet(0 .. n) /\ 0 .. n \subseteq Nat
    BY FS_Interval
  <2>2. QED BY <2>1 DEF FiniteSubsetsOf
<1>2. T # {} OBVIOUS
<1>3. PICK I \in T : \A J \in T : <<J, I>> \notin StrictSubsetOrdering(Nat)
  <2> HIDE DEF T
  <2>1. QED BY <1>1, <1>2, FS_StrictSubsetOrderingWellFounded, WFMin, Zenon
<1>4. PICK x \in S : I = 0 .. x OBVIOUS
<1>5. ASSUME NEW y \in S, y < x PROVE FALSE
  <2>1. x \in Nat /\ y \in Nat /\ <<0 .. y, 0 .. x>> \notin StrictSubsetOrdering(Nat)
    BY <1>3, <1>4
  <2>2. 0 .. y \subseteq 0 .. x /\ x \in 0 .. x /\ x \notin 0 .. y
    BY <1>5, <2>1
  <2>3. 0 .. y # 0 .. x BY <2>2
  <2>4. QED BY <2>1, <2>2, <2>3 DEF StrictSubsetOrdering
<1>6. QED BY <1>5

\* Induction, for a set instead of a predicate.
LEMMA SetInduction ==
  ASSUME NEW S \in SUBSET Nat, 0 \in S, \A n \in S : n + 1 \in S
  PROVE  S = Nat
<1> SUFFICES ASSUME Nat \ S # {} PROVE FALSE OBVIOUS
<1>1. PICK x \in Nat \ S : \A y \in Nat \ S : x <= y
  <2>1. Nat \ S \in SUBSET Nat OBVIOUS
  <2>2. QED BY <2>1, LeastNumber
<1>2. x - 1 \in Nat /\ (x - 1) + 1 = x /\ ~(x <= x - 1) OBVIOUS
<1>3. x - 1 \in S BY <1>1, <1>2
<1>4. QED BY <1>2, <1>3

\* Total's recursive function, as far as n.
Sums(l, n, h) ==
  h = [i \in 0 .. n |-> IF i = 0 THEN 0 ELSE h[i - 1] + Size(l[i])]

LEMMA SumsExist ==
  ASSUME NEW l, NEW m \in Nat PROVE \E h : Sums(l, m, h)
<1> DEFINE S == {n \in Nat : \E h : Sums(l, n, h)}
<1>1. 0 \in S
  <2>1. Sums(l, 0, [i \in 0 .. 0 |-> 0]) BY DEF Sums
  <2>2. QED BY <2>1
<1>2. ASSUME NEW n \in S PROVE n + 1 \in S
  <2>1. PICK h : Sums(l, n, h) OBVIOUS
  <2> DEFINE g == [i \in 0 .. n + 1 |->
                     IF i = n + 1 THEN h[n] + Size(l[n + 1]) ELSE h[i]]
  <2>2. ASSUME NEW i \in 0 .. n + 1
        PROVE  g[i] = IF i = 0 THEN 0 ELSE g[i - 1] + Size(l[i])
    <3>1. CASE i = n + 1
      <4>1. n \in 0 .. n + 1 /\ n # n + 1 /\ i - 1 = n /\ i # 0 BY <3>1
      <4>2. g[n] = h[n] /\ g[i] = h[n] + Size(l[n + 1]) BY <3>1, <4>1
      <4>3. QED BY <3>1, <4>1, <4>2
    <3>2. CASE i # n + 1
      <4>1. i \in 0 .. n /\ g[i] = h[i] /\ (i # 0 => g[i - 1] = h[i - 1]) BY <3>2
      <4>2. h[i] = IF i = 0 THEN 0 ELSE h[i - 1] + Size(l[i])
        BY <2>1, <4>1 DEF Sums
      <4>3. QED BY <4>1, <4>2
    <3>3. QED BY <3>1, <3>2
  <2>3. Sums(l, n + 1, g) BY <2>2 DEF Sums
  <2>4. QED BY <2>3
<1>3. S \in SUBSET Nat OBVIOUS
<1> HIDE DEF S
<1>4. S = Nat BY <1>1, <1>2, <1>3, SetInduction
<1>5. QED BY <1>4 DEF S

LEMMA SizeType == ASSUME NEW e \in Entry PROVE Size(e) \in Nat
<1>1. e.key \in Keys /\ e.len \in Nat BY LruAssumption DEF Entry
<1>2. KeyLen[e.key] \in Nat BY <1>1, LruAssumption
<1>3. QED BY <1>1, <1>2 DEF Size

\* What Total sums up.
LEMMA TotalIs ==
  ASSUME NEW l \in Seq(Entry)
  PROVE  \E h \in [0 .. Len(l) -> Nat] :
           /\ h[0] = 0 /\ \A i \in 1 .. Len(l) : h[i] = h[i - 1] + Size(l[i])
           /\ Total(l) = h[Len(l)]
<1>1. Len(l) \in Nat /\ \A i \in 1 .. Len(l) : l[i] \in Entry BY SeqFacts
<1>2. PICK g : Sums(l, Len(l), g) BY <1>1, SumsExist
<1>3. PICK h : Sums(l, Len(l), h) /\ Total(l) = h[Len(l)]
  BY <1>2 DEF Total, Sums
<1>4. h[0] = 0 /\ \A i \in 1 .. Len(l) : h[i] = h[i - 1] + Size(l[i])
  BY <1>1, <1>3 DEF Sums
<1> DEFINE S == {i \in Nat : i <= Len(l) => h[i] \in Nat}
<1>5. 0 \in S BY <1>4
<1>6. ASSUME NEW i \in S PROVE i + 1 \in S
  <2>1. ASSUME i + 1 <= Len(l) PROVE h[i + 1] \in Nat
    <3>1. i + 1 \in 1 .. Len(l) /\ (i + 1) - 1 = i /\ h[i] \in Nat BY <1>1, <2>1
    <3>2. Size(l[i + 1]) \in Nat BY <1>1, <3>1, SizeType
    <3>3. h[i + 1] = h[i] + Size(l[i + 1]) BY <1>4, <3>1
    <3>4. QED BY <3>1, <3>2, <3>3
  <2>2. QED BY <2>1
<1>7. S \in SUBSET Nat OBVIOUS
<1>8. S = Nat
  <2> HIDE DEF S
  <2>1. QED BY <1>5, <1>6, <1>7, SetInduction
<1>9. \A i \in 0 .. Len(l) : h[i] \in Nat
  <2>1. ASSUME NEW i \in 0 .. Len(l) PROVE h[i] \in Nat
    <3>1. i \in S /\ i <= Len(l) BY <1>1, <1>8
    <3>2. QED BY <3>1
  <2>2. QED BY <2>1
<1>10. h \in [0 .. Len(l) -> Nat] BY <1>3, <1>9 DEF Sums
<1>11. QED BY <1>3, <1>4, <1>10

\* Two sums that grow alike stay as far apart as they were.
LEMMA GrowAlike ==
  ASSUME NEW n \in Nat, NEW f \in [0 .. n -> Int], NEW g \in [0 .. n -> Int],
         \A i \in 1 .. n : f[i] - f[i - 1] = g[i] - g[i - 1]
  PROVE  f[n] - f[0] = g[n] - g[0]
<1> DEFINE S == {i \in Nat : i <= n => f[i] - f[0] = g[i] - g[0]}
<1>1. 0 \in S OBVIOUS
<1>2. ASSUME NEW i \in S PROVE i + 1 \in S
  <2>1. ASSUME i + 1 <= n PROVE f[i + 1] - f[0] = g[i + 1] - g[0]
    <3>1. i + 1 \in 1 .. n /\ (i + 1) - 1 = i /\ i \in 0 .. n /\ i + 1 \in 0 .. n
          /\ 0 \in 0 .. n
      BY <2>1
    <3> DEFINE u == f[0]
               v == f[i]
               w == f[i + 1]
               x == g[0]
               y == g[i]
               z == g[i + 1]
    <3>2. v - u = y - x BY <3>1
    <3>3. w - v = z - y BY <3>1
    <3>4. u \in Int /\ v \in Int /\ w \in Int /\ x \in Int /\ y \in Int /\ z \in Int
      BY <3>1
    <3> HIDE DEF u, v, w, x, y, z
    <3>5. w - u = z - x BY <3>2, <3>3, <3>4
    <3>6. QED BY <3>5 DEF u, w, x, z
  <2>2. QED BY <2>1
<1>3. S \in SUBSET Nat OBVIOUS
<1>4. S = Nat
  <2> HIDE DEF S
  <2>1. QED BY <1>1, <1>2, <1>3, SetInduction
<1>5. n \in S BY <1>4
<1>6. QED BY <1>5

\* A list of one entry.
LEMMA TotalOfOne ==
  ASSUME NEW l \in Seq(Entry), Len(l) = 1 PROVE Total(l) = Size(l[1])
<1>1. PICK h \in [0 .. Len(l) -> Nat] :
        /\ h[0] = 0 /\ \A i \in 1 .. Len(l) : h[i] = h[i - 1] + Size(l[i])
        /\ Total(l) = h[Len(l)]
  BY TotalIs
<1>2. l[1] \in Entry BY SeqFacts
<1>3. h[1] = h[0] + Size(l[1]) BY <1>1
<1>4. Size(l[1]) \in Nat BY <1>2, SizeType
<1>5. QED BY <1>1, <1>3, <1>4

\* A list that is cut in two.
LEMMA TotalOfParts ==
  ASSUME NEW l \in Seq(Entry), NEW n \in 0 .. Len(l)
  PROVE  Total(SubSeq(l, 1, n)) + Total(SubSeq(l, n + 1, Len(l))) = Total(l)
<1> DEFINE m == Len(l)
           a == SubSeq(l, 1, n)
           b == SubSeq(l, n + 1, m)
<1>1. m \in Nat /\ n \in Nat /\ n <= m BY SeqFacts
<1>2. a \in Seq(Entry) /\ Len(a) = n /\ \A j \in 1 .. n : a[j] = l[j]
  BY <1>1
<1>3. b \in Seq(Entry) /\ Len(b) = m - n /\ \A j \in 1 .. m - n : b[j] = l[n + j]
  BY <1>1
<1>4. \A j \in 1 .. m : Size(l[j]) \in Nat BY SeqFacts, SizeType
<1>5. PICK h \in [0 .. m -> Nat] :
        /\ h[0] = 0 /\ \A i \in 1 .. m : h[i] = h[i - 1] + Size(l[i])
        /\ Total(l) = h[m]
  BY TotalIs
<1> HIDE DEF a, b, m
<1>6. PICK f \in [0 .. n -> Nat] :
        /\ f[0] = 0 /\ \A i \in 1 .. n : f[i] = f[i - 1] + Size(a[i])
        /\ Total(a) = f[n]
  BY <1>2, TotalIs
<1>7. PICK g \in [0 .. m - n -> Nat] :
        /\ g[0] = 0 /\ \A i \in 1 .. m - n : g[i] = g[i - 1] + Size(b[i])
        /\ Total(b) = g[m - n]
  BY <1>3, TotalIs
<1>8. f[n] - f[0] = h[n] - h[0]
  <2> DEFINE e == [i \in 0 .. n |-> h[i]]
  <2>1. e \in [0 .. n -> Int] /\ f \in [0 .. n -> Int] BY <1>1
  <2>2. ASSUME NEW i \in 1 .. n PROVE f[i] - f[i - 1] = e[i] - e[i - 1]
    <3>1. i \in 1 .. m /\ i \in 0 .. n /\ i - 1 \in 0 .. n /\ i - 1 \in 0 .. m
      BY <1>1
    <3>2. f[i] = f[i - 1] + Size(l[i]) BY <1>2, <1>6
    <3>3. h[i] = h[i - 1] + Size(l[i]) BY <1>5, <3>1
    <3>4. f[i - 1] \in Nat /\ h[i - 1] \in Nat /\ Size(l[i]) \in Nat
      BY <1>4, <1>5, <1>6, <3>1
    <3>5. e[i] = h[i] /\ e[i - 1] = h[i - 1] BY <3>1
    <3>6. QED BY <3>2, <3>3, <3>4, <3>5
  <2>3. e[n] = h[n] /\ e[0] = h[0] BY <1>1
  <2> HIDE DEF e
  <2>4. f[n] - f[0] = e[n] - e[0] BY <1>1, <2>1, <2>2, GrowAlike
  <2>5. QED BY <2>3, <2>4
<1>9. g[m - n] - g[0] = h[m] - h[n]
  <2> DEFINE e == [i \in 0 .. m - n |-> h[n + i]]
  <2>0. m - n \in Nat BY <1>1
  <2>1. e \in [0 .. m - n -> Int] /\ g \in [0 .. m - n -> Int]
    <3>1. \A i \in 0 .. m - n : n + i \in 0 .. m BY <1>1
    <3>2. QED BY <3>1
  <2>2. ASSUME NEW i \in 1 .. m - n PROVE g[i] - g[i - 1] = e[i] - e[i - 1]
    <3>1. /\ n + i \in 1 .. m /\ n + (i - 1) \in 0 .. m /\ (n + i) - 1 = n + (i - 1)
          /\ i \in 0 .. m - n /\ i - 1 \in 0 .. m - n
      BY <1>1
    <3>2. g[i] = g[i - 1] + Size(l[n + i]) BY <1>3, <1>7
    <3>3. h[n + i] = h[n + (i - 1)] + Size(l[n + i]) BY <1>5, <3>1
    <3>4. g[i - 1] \in Nat /\ h[n + (i - 1)] \in Nat /\ Size(l[n + i]) \in Nat
      BY <1>4, <1>5, <1>7, <3>1
    <3>5. e[i] = h[n + i] /\ e[i - 1] = h[n + (i - 1)] BY <3>1
    <3>6. QED BY <3>2, <3>3, <3>4, <3>5
  <2>3. e[m - n] = h[m] /\ e[0] = h[n]
    <3>1. n + (m - n) = m /\ n + 0 = n /\ m - n \in 0 .. m - n /\ 0 \in 0 .. m - n
      BY <1>1
    <3>2. QED BY <3>1
  <2> HIDE DEF e
  <2>4. g[m - n] - g[0] = e[m - n] - e[0] BY <2>0, <2>1, <2>2, GrowAlike
  <2>5. QED BY <2>3, <2>4
<1>10. h[n] \in Nat /\ h[m] \in Nat /\ f[n] \in Nat /\ g[m - n] \in Nat
  BY <1>1
<1>11. Total(a) + Total(b) = Total(l) BY <1>5, <1>6, <1>7, <1>8, <1>9, <1>10
<1>12. QED BY <1>11 DEF a, b, m

\* A list with an entry before the others.
LEMMA TotalOfFronted ==
  ASSUME NEW l \in Seq(Entry), NEW e \in Entry
  PROVE  /\ <<e>> \o l \in Seq(Entry) /\ Len(<<e>> \o l) = Len(l) + 1
         /\ (<<e>> \o l)[1] = e /\ Total(<<e>> \o l) = Size(e) + Total(l)
<1> DEFINE r == <<e>> \o l
           a == SubSeq(r, 1, 1)
           b == SubSeq(r, 2, Len(r))
<1>1. /\ Len(l) \in Nat /\ r \in Seq(Entry) /\ Len(r) = Len(l) + 1 /\ r[1] = e
      /\ \A j \in 2 .. Len(l) + 1 : r[j] = l[j - 1]
  BY SeqFacts
<1> HIDE DEF r
<1>2. Total(a) + Total(b) = Total(r)
  <2>1. 1 \in 0 .. Len(r) /\ 1 + 1 = 2 BY <1>1
  <2>2. QED BY <1>1, <2>1, TotalOfParts
<1>3. a \in Seq(Entry) /\ Len(a) = 1 /\ a[1] = e BY <1>1
<1>4. b = l
  <2>1. b \in Seq(Entry) /\ Len(b) = Len(l) BY <1>1
  <2>2. ASSUME NEW j \in 1 .. Len(l) PROVE b[j] = l[j]
    <3>1. b[j] = r[2 + j - 1] BY <1>1
    <3>2. 2 + j - 1 \in 2 .. Len(l) + 1 /\ (2 + j - 1) - 1 = j BY <1>1
    <3>3. QED BY <1>1, <3>1, <3>2
  <2> HIDE DEF b
  <2>3. QED BY <2>1, <2>2
<1> HIDE DEF a, b
<1>5. Total(a) = Size(e) BY <1>3, TotalOfOne
<1>6. QED BY <1>1, <1>2, <1>4, <1>5 DEF r

\* A list without one of its entries.
LEMMA TotalOfRemoved ==
  ASSUME NEW l \in Seq(Entry), NEW i \in DOMAIN l
  PROVE  RemoveAt(l, i) \in Seq(Entry) /\ Total(RemoveAt(l, i)) + Size(l[i]) = Total(l)
<1> DEFINE m == Len(l)
           r == RemoveAt(l, i)
           a == SubSeq(l, 1, i - 1)
           b == SubSeq(l, i + 1, m)
           c == SubSeq(l, i, m)
<1>1. m \in Nat /\ i \in 1 .. m /\ l[i] \in Entry BY SeqFacts
<1>2. /\ r \in Seq(Entry) /\ Len(r) = m - 1
      /\ \A j \in 1 .. m - 1 : r[j] = IF j < i THEN l[j] ELSE l[j + 1]
  BY RemovedIs
<1>3. Total(a) + Total(c) = Total(l)
  <2>1. i - 1 \in 0 .. m /\ (i - 1) + 1 = i BY <1>1
  <2>2. QED BY <2>1, TotalOfParts
<1>4. b \in Seq(Entry) /\ c \in Seq(Entry) /\ a \in Seq(Entry) BY <1>1
<1>5. c = <<l[i]>> \o b
  <2>1. Len(c) = m - i + 1 /\ \A j \in 1 .. m - i + 1 : c[j] = l[i + j - 1]
    BY <1>1
  <2>2. Len(b) = m - i /\ \A j \in 1 .. m - i : b[j] = l[i + 1 + j - 1]
    BY <1>1
  <2> HIDE DEF b, c
  <2> DEFINE d == <<l[i]>> \o b
  <2>3. /\ d \in Seq(Entry) /\ Len(d) = m - i + 1 /\ d[1] = l[i]
        /\ \A j \in 2 .. m - i + 1 : d[j] = b[j - 1]
    BY <1>1, <1>4, <2>2
  <2> HIDE DEF d
  <2>4. ASSUME NEW j \in 1 .. m - i + 1 PROVE c[j] = d[j]
    <3>1. CASE j = 1 BY <1>1, <2>1, <2>3, <3>1
    <3>2. CASE j # 1
      <4>1. j \in 2 .. m - i + 1 /\ j - 1 \in 1 .. m - i
            /\ i + 1 + (j - 1) - 1 = i + j - 1
        BY <1>1, <3>2
      <4>2. d[j] = l[i + j - 1] BY <2>2, <2>3, <4>1
      <4>3. QED BY <2>1, <4>2
    <3>3. QED BY <3>1, <3>2
  <2>5. c = d BY <1>4, <2>1, <2>3, <2>4
  <2>6. QED BY <2>5 DEF d
<1>6. Total(c) = Size(l[i]) + Total(b)
  <2> HIDE DEF b, c
  <2>1. QED BY <1>1, <1>4, <1>5, TotalOfFronted
<1>7. Total(a) + Total(b) = Total(r)
  <2>1. a = SubSeq(r, 1, i - 1)
    <3>1. /\ Len(a) = i - 1 /\ \A j \in 1 .. i - 1 : a[j] = l[j]
      BY <1>1
    <3> DEFINE x == SubSeq(r, 1, i - 1)
    <3>2. x \in Seq(Entry) /\ Len(x) = i - 1 /\ \A j \in 1 .. i - 1 : x[j] = r[j]
      <4> HIDE DEF r
      <4>1. QED BY <1>1, <1>2
    <3>3. ASSUME NEW j \in 1 .. i - 1 PROVE x[j] = a[j]
      <4>1. j \in 1 .. m - 1 /\ j < i BY <1>1
      <4>2. QED BY <1>2, <3>1, <3>2, <4>1
    <3> HIDE DEF a, x
    <3>4. x = a BY <1>4, <3>1, <3>2, <3>3
    <3>5. QED BY <3>4 DEF x
  <2>2. b = SubSeq(r, i, m - 1)
    <3>1. Len(b) = m - i /\ \A j \in 1 .. m - i : b[j] = l[i + j]
      BY <1>1
    <3> DEFINE x == SubSeq(r, i, m - 1)
    <3>2. /\ x \in Seq(Entry) /\ Len(x) = m - i
          /\ \A j \in 1 .. m - i : x[j] = r[i + j - 1]
      <4> HIDE DEF r
      <4>1. QED BY <1>1, <1>2
    <3>3. ASSUME NEW j \in 1 .. m - i PROVE x[j] = b[j]
      <4>1. i + j - 1 \in 1 .. m - 1 /\ ~(i + j - 1 < i) /\ (i + j - 1) + 1 = i + j
        BY <1>1
      <4>2. QED BY <1>2, <3>1, <3>2, <4>1
    <3> HIDE DEF b, x
    <3>4. x = b BY <1>4, <3>1, <3>2, <3>3
    <3>5. QED BY <3>4 DEF x
  <2>3. i - 1 \in 0 .. Len(r) /\ (i - 1) + 1 = i BY <1>1, <1>2
  <2> HIDE DEF a, b, r
  <2>4. QED BY <1>2, <2>1, <2>2, <2>3, TotalOfParts
<1> HIDE DEF a, b, c, r, m
<1>8. /\ Total(a) \in Nat /\ Total(b) \in Nat /\ Total(c) \in Nat
      /\ Size(l[i]) \in Nat
  <2>1. \A x \in Seq(Entry) : Total(x) \in Nat
    <3> TAKE x \in Seq(Entry)
    <3>1. PICK h \in [0 .. Len(x) -> Nat] : Total(x) = h[Len(x)] BY TotalIs
    <3>2. Len(x) \in 0 .. Len(x) BY SeqFacts
    <3>3. QED BY <3>1, <3>2
  <2>2. QED BY <1>1, <1>4, <2>1, SizeType
<1>9. Total(r) + Size(l[i]) = Total(l) BY <1>3, <1>6, <1>7, <1>8
<1>10. QED BY <1>2, <1>9 DEF r

LEMMA TotalType ==
  ASSUME NEW l \in Seq(Entry) PROVE Total(l) \in Nat
<1>1. PICK h \in [0 .. Len(l) -> Nat] : Total(l) = h[Len(l)] BY TotalIs
<1>2. Len(l) \in 0 .. Len(l) BY SeqFacts
<1>3. QED BY <1>1, <1>2

\* The counter is the size of what is held.
Counted == nBytes = Total(ll) /\ asked \subseteq Keys

LEMMA HitCounted ==
  ASSUME Linked, Counted, NEW k \in Keys, Hit(k) PROVE Counted'
<1> DEFINE r == RemoveAt(ll, At(k))
           e == ll[At(k)]
<1>1. ll' = <<e>> \o r /\ nBytes' = nBytes /\ asked' = {k} /\ k \in cache
  BY DEF Hit, MoveToFront
<1>2. At(k) \in DOMAIN ll /\ e \in Entry BY <1>1, AtFacts
<1>3. r \in Seq(Entry) /\ Total(r) + Size(e) = Total(ll)
  BY <1>2, TotalOfRemoved DEF Linked
<1>4. Total(r) \in Nat /\ Size(e) \in Nat BY <1>2, <1>3, TotalType, SizeType
<1> HIDE DEF r, e
<1>5. Total(ll') = Size(e) + Total(r) BY <1>1, <1>2, <1>3, TotalOfFronted
<1>6. Total(ll') = nBytes BY <1>3, <1>4, <1>5 DEF Counted
<1>7. QED BY <1>1, <1>6 DEF Counted

\* The list that Add has before it makes room, and its size.
LEMMA AddedFacts ==
  ASSUME Linked, Counted, NEW k \in Keys, NEW len \in Lens
  PROVE  /\ Added(k, len) \in Seq(Entry) /\ Len(Added(k, len)) \in Nat \ {0}
         /\ Added(k, len)[1] = [key |-> k, len |-> len]
         /\ Total(Added(k, len)) = nBytes + Growth(k, len)
<1> DEFINE l == Added(k, len)
           e == [key |-> k, len |-> len]
           r == IF k \in cache THEN RemoveAt(ll, At(k)) ELSE ll
<1>1. e \in Entry /\ Size(e) = KeyLen[k] + len BY DEF Entry, Size
<1>2. KeyLen[k] \in Nat /\ len \in Nat BY LruAssumption
<1>3. r \in Seq(Entry) /\ Size(e) + Total(r) = nBytes + Growth(k, len)
  <2>1. CASE k \in cache
    <3> DEFINE o == ll[At(k)]
    <3>1. At(k) \in DOMAIN ll /\ o \in Entry /\ o.key = k BY <2>1, AtFacts
    <3>2. /\ RemoveAt(ll, At(k)) \in Seq(Entry)
          /\ Total(RemoveAt(ll, At(k))) + Size(o) = Total(ll)
      BY <3>1, TotalOfRemoved DEF Linked
    <3>3. Total(RemoveAt(ll, At(k))) \in Nat BY <3>2, TotalType
    <3>4. Size(o) = KeyLen[k] + o.len /\ o.len \in Nat
      BY <3>1, LruAssumption DEF Size, Entry
    <3>5. Growth(k, len) = len - o.len BY <2>1 DEF Growth
    <3>6. r = RemoveAt(ll, At(k)) BY <2>1
    <3> HIDE DEF o, e, r
    <3>7. QED BY <1>1, <1>2, <3>2, <3>3, <3>4, <3>5, <3>6 DEF Counted
  <2>2. CASE k \notin cache
    <3>1. r = ll /\ Growth(k, len) = KeyLen[k] + len BY <2>2 DEF Growth
    <3>2. ll \in Seq(Entry) BY DEF Linked
    <3>3. Total(ll) \in Nat BY <3>2, TotalType
    <3> HIDE DEF e, r
    <3>4. QED BY <1>1, <1>2, <3>1, <3>2, <3>3 DEF Counted
  <2>3. QED BY <2>1, <2>2
<1>4. l = <<e>> \o r BY DEF Added
<1> HIDE DEF e, r, l
<1>5. /\ l \in Seq(Entry) /\ Len(l) = Len(r) + 1 /\ l[1] = e
      /\ Total(l) = Size(e) + Total(r)
  BY <1>1, <1>3, <1>4, TotalOfFronted
<1>6. Len(r) \in Nat BY <1>3, SeqFacts
<1>7. QED BY <1>3, <1>5, <1>6 DEF l, e

LEMMA AddCounted ==
  ASSUME Linked, Counted, NEW k \in Keys, NEW len \in Lens, Add(k, len)
  PROVE  Counted'
<1> DEFINE l == Added(k, len)
           bytes == nBytes + Growth(k, len)
<1>1. l \in Seq(Entry) /\ Total(l) = bytes BY AddedFacts
<1>2. PICK n \in 0 .. Len(l) : Evict(l, bytes, n) BY DEF Add
<1>3. asked' = {k} BY DEF Add
<1> DEFINE a == SubSeq(l, 1, n)
           b == SubSeq(l, n + 1, Len(l))
<1>4. ll' = a /\ nBytes' = bytes - Total(b) BY <1>2 DEF Evict
<1> HIDE DEF l, bytes
<1>5. Total(a) + Total(b) = Total(l) BY <1>1, TotalOfParts
<1>6. a \in Seq(Entry) /\ b \in Seq(Entry)
  <2>1. Len(l) \in Nat BY <1>1, SeqFacts
  <2>2. QED BY <1>1, <2>1
<1>7. Total(a) \in Nat /\ Total(b) \in Nat BY <1>6, TotalType
<1> HIDE DEF a, b
<1>8. nBytes' = Total(ll') BY <1>1, <1>4, <1>5, <1>7
<1>9. QED BY <1>3, <1>8 DEF Counted

\* An entry that fits into the budget alone is not evicted by its own Add.
LEMMA AddKeeps ==
  ASSUME Linked, Counted, NEW k \in Keys, NEW len \in Lens, Add(k, len),
         MaxBytes = 0 \/ KeyLen[k] + len <= MaxBytes
  PROVE  k \in cache'
<1> DEFINE l == Added(k, len)
           bytes == nBytes + Growth(k, len)
           e == [key |-> k, len |-> len]
<1>1. /\ l \in Seq(Entry) /\ Len(l) \in Nat \ {0} /\ l[1] = e
      /\ Total(l) = bytes
  BY AddedFacts
<1>2. PICK n \in 0 .. Len(l) :
        Evict(l, bytes, n) /\ \A m \in n + 1 .. Len(l) : ~RoomAt(l, bytes, m)
  BY DEF Add
<1>3. e \in Entry /\ e.key = k /\ Size(e) = KeyLen[k] + len /\ Size(e) \in Nat
  <2>1. e \in Entry BY DEF Entry
  <2>2. QED BY <2>1, SizeType DEF Size
<1>4. MaxBytes \in Nat BY LruAssumption
<1> HIDE DEF l, bytes, e
<1>5. RoomAt(l, bytes, 1)
  <2> DEFINE a == SubSeq(l, 1, 1)
             b == SubSeq(l, 2, Len(l))
  <2>1. Total(a) + Total(b) = Total(l)
    <3>1. 1 \in 0 .. Len(l) /\ 1 + 1 = 2 BY <1>1
    <3>2. QED BY <1>1, <3>1, TotalOfParts
  <2>2. a \in Seq(Entry) /\ b \in Seq(Entry) /\ Len(a) = 1 /\ a[1] = e
    BY <1>1
  <2>3. Total(a) \in Nat /\ Total(b) \in Nat BY <2>2, TotalType
  <2> HIDE DEF a
  <2>4. Total(a) = Size(e) BY <2>2, TotalOfOne
  <2>5. RoomAt(l, bytes, 1) = (MaxBytes = 0 \/ bytes - Total(b) <= MaxBytes)
    BY DEF RoomAt
  <2> HIDE DEF b
  <2>6. bytes - Total(b) = Size(e) BY <1>1, <2>1, <2>3, <2>4
  <2>7. QED BY <1>3, <2>5, <2>6
<1>6. n # 0
  <2> SUFFICES ASSUME n = 0 PROVE FALSE OBVIOUS
  <2>1. 1 \in n + 1 .. Len(l) BY <1>1
  <2>2. QED BY <1>2, <1>5, <2>1
<1>7. ll' = SubSeq(l, 1, n) BY <1>2 DEF Evict
<1>8. Len(ll') = n /\ ll'[1] = e /\ 1 \in 1 .. n BY <1>1, <1>6, <1>7
<1>9. ll' \in Seq(Entry) /\ cache' = KeysOf(ll') BY AddLinked DEF Linked
<1>10. 1 \in DOMAIN ll'
  <2>1. DOMAIN ll' = 1 .. Len(ll') BY <1>9, SeqFacts
  <2>2. QED BY <1>8, <2>1
<1>11. QED BY <1>3, <1>8, <1>9, <1>10 DEF KeysOf

\* What was loaded and not evicted since is in the cache, and will be there
\* when its call ends.
KeptInv ==
  /\ settled \subseteq cache /\ kept \subseteq Callers /\ answered \subseteq Callers
  /\ \A c \in kept : pc[c] \in {"publish", "delete"} /\ val[c] # Failed =>
       key[c] \in cache

CacheInv == Linked /\ Counted /\ KeptInv

LEMMA CacheInit == Init => CacheInv
<1> SUFFICES ASSUME Init PROVE CacheInv OBVIOUS
<1>1. ll = <<>> /\ cache = {} /\ nBytes = 0 /\ asked = {} BY DEF Init, LruInit
<1>2. <<>> \in Seq(Entry) /\ Len(<<>>) = 0 /\ DOMAIN <<>> = {} OBVIOUS
<1>3. Linked BY <1>1, <1>2 DEF Linked, KeysOf, Distinct
<1>4. Total(<<>>) = 0
  <2>1. PICK h \in [0 .. 0 -> Nat] : h[0] = 0 /\ Total(<<>>) = h[0]
    BY <1>2, TotalIs
  <2>2. QED BY <2>1
<1>5. Counted BY <1>1, <1>4 DEF Counted
<1>6. KeptInv BY <1>1 DEF Init, KeptInv
<1>7. QED BY <1>3, <1>5, <1>6 DEF CacheInv

\* Every step keeps the cache, its counter and the entries kept.
LEMMA CacheStep ==
  ASSUME IInv, CacheInv, [Next]_vars PROVE CacheInv'
<1> USE DEF CacheInv
<1>0. CallTypes /\ FlightInv BY DEF IInv
<1>1. CASE UNCHANGED vars
  BY <1>1
  DEF vars, lruVars, callVars, histVars, Linked, Counted, KeptInv, KeysOf, Distinct
<1>2. ASSUME NEW c \in Callers, NEW k \in Keys, CacheHit(c, k) PROVE CacheInv'
  <2>1. Linked' BY <1>2, HitLinked DEF CacheHit
  <2>2. Counted' BY <1>2, HitCounted DEF CacheHit
  <2>3. KeptInv' BY <1>2 DEF CacheHit, Hit, callVars, histVars, KeptInv
  <2>4. QED BY <2>1, <2>2, <2>3
<1>3. ASSUME NEW c \in Callers, NEW len \in Lens, GetterReturns(c, len)
      PROVE  CacheInv'
  <2>1. key[c] \in Keys BY <1>0, <1>3 DEF GetterReturns, Goto, FlightInv
  <2>2. Add(key[c], len) BY <1>3 DEF GetterReturns, AddToCache
  <2>3. Linked' /\ Counted' BY <2>1, <2>2, AddLinked, AddCounted
  <2>4. /\ settled' = settled \ Dropped(key[c], len) /\ answered' = answered
        /\ kept' = {d \in kept : key[d] \notin Dropped(key[c], len)}
        /\ pc' = [pc EXCEPT ![c] = "publish"] /\ val' = [val EXCEPT ![c] = len]
        /\ key' = key
    BY <1>3 DEF GetterReturns, Goto
  <2>5. cache \ cache' \subseteq Dropped(key[c], len) BY DEF Dropped
  <2>6. settled' \subseteq cache' BY <2>4, <2>5 DEF KeptInv
  <2>7. ASSUME NEW d \in kept', pc'[d] \in {"publish", "delete"}, val'[d] # Failed
        PROVE  key'[d] \in cache'
    <3>1. CASE d = c
      <4>1. key[c] \notin Dropped(key[c], len) BY <2>4, <3>1
      <4>2. MaxBytes = 0 \/ ~(KeyLen[key[c]] + len > MaxBytes)
        BY <4>1 DEF Dropped
      <4>3. KeyLen[key[c]] \in Nat /\ len \in Nat /\ MaxBytes \in Nat
        BY <2>1, LruAssumption
      <4>4. MaxBytes = 0 \/ KeyLen[key[c]] + len <= MaxBytes BY <4>2, <4>3
      <4>5. QED BY <2>1, <2>2, <2>4, <3>1, <4>4, AddKeeps
    <3>2. CASE d # c
      <4>1. pc[d] = pc'[d] /\ val[d] = val'[d] /\ d \in kept
        BY <1>0, <2>4, <3>2 DEF CallTypes, KeptInv
      <4>2. key[d] \in cache BY <2>7, <4>1 DEF KeptInv
      <4>3. QED BY <2>4, <2>5, <4>2
    <3>3. QED BY <3>1, <3>2
  <2>8. KeptInv' BY <2>4, <2>6, <2>7 DEF KeptInv
  <2>9. QED BY <2>3, <2>8
<1>4. ASSUME UNCHANGED lruVars PROVE Linked' /\ Counted'
  BY <1>4 DEF lruVars, Linked, Counted, KeysOf, Distinct
<1>5. ASSUME NEW c \in Callers, UNCHANGED lruVars,
             \/ \E k \in Keys : CacheMiss(c, k)
             \/ Leave(c) \/ Join(c) \/ Lead(c) \/ Wake(c) \/ PeerFails(c)
             \/ PeerAnswers(c) \/ GetterFails(c) \/ Publish(c) \/ Delete(c)
      PROVE  KeptInv'
  <2>0. cache' = cache BY <1>5 DEF lruVars
  <2>1. ASSUME NEW k \in Keys, CacheMiss(c, k) PROVE KeptInv'
    BY <1>0, <2>0, <2>1 DEF CacheMiss, Goto, histVars, CallTypes, KeptInv
  <2>2. CASE Leave(c)
    BY <1>0, <2>0, <2>2 DEF Leave, Goto, histVars, CallTypes, KeptInv
  <2>3. CASE Join(c)
    BY <1>0, <2>0, <2>3 DEF Join, Goto, histVars, CallTypes, KeptInv
  <2>4. CASE Lead(c)
    BY <1>0, <2>0, <2>4 DEF Lead, Goto, PickPeer, CallTypes, KeptInv
  <2>5. CASE Wake(c)
    BY <1>0, <2>0, <2>5 DEF Wake, Return, Goto, CallTypes, KeptInv
  <2>6. CASE PeerFails(c)
    BY <1>0, <2>0, <2>6 DEF PeerFails, Goto, histVars, CallTypes, KeptInv
  <2>7. CASE PeerAnswers(c)
    BY <1>0, <2>0, <2>7 DEF PeerAnswers, Goto, CallTypes, KeptInv
  <2>8. CASE GetterFails(c)
    BY <1>0, <2>0, <2>8 DEF GetterFails, Goto, histVars, CallTypes, KeptInv
  <2>9. CASE Publish(c)
    BY <1>0, <2>0, <2>9 DEF Publish, Goto, histVars, CallTypes, KeptInv
  <2>10. CASE Delete(c)
    BY <1>0, <2>0, <2>10 DEF Delete, Return, Goto, CallTypes, KeptInv
  <2>11. QED
    BY <1>5, <2>1, <2>2, <2>3, <2>4, <2>5, <2>6, <2>7, <2>8, <2>9, <2>10
<1>6. ASSUME NEW c \in Callers,
             \/ \E k \in Keys : CacheMiss(c, k)
             \/ Leave(c) \/ Join(c) \/ Lead(c) \/ Wake(c) \/ PeerFails(c)
             \/ PeerAnswers(c) \/ GetterFails(c) \/ Publish(c) \/ Delete(c)
      PROVE  UNCHANGED lruVars
  BY <1>6
  DEF CacheMiss, Leave, Join, Lead, Wake, PeerFails, PeerAnswers, GetterFails,
      Publish, Delete
<1>7. QED BY <1>1, <1>2, <1>3, <1>4, <1>5, <1>6 DEF Next, Step

THEOREM CacheInvariance == Spec => [](IInv /\ CacheInv)
BY InitInv, StepInv, CacheInit, CacheStep, PTL DEF Spec

\* The keys of the list are as many as its elements.
LEMMA KeysCounted ==
  ASSUME Linked PROVE Cardinality(cache) = Len(ll)
<1> DEFINE f == [i \in 1 .. Len(ll) |-> ll[i].key]
<1>1. ll \in Seq(Entry) /\ Len(ll) \in Nat /\ DOMAIN ll = 1 .. Len(ll)
  BY SeqFacts DEF Linked
<1>2. cache = {ll[i].key : i \in 1 .. Len(ll)} BY <1>1 DEF Linked, KeysOf
<1>3. f \in Surjection(1 .. Len(ll), cache) BY <1>2 DEF Surjection
<1>4. f \in Injection(1 .. Len(ll), cache)
  <2>1. \A i, j \in 1 .. Len(ll) : f[i] = f[j] => i = j
    BY <1>1 DEF Linked, Distinct
  <2>2. f \in [1 .. Len(ll) -> cache] BY <1>2
  <2>3. QED BY <2>1, <2>2 DEF Injection, IsInjective
<1>5. IsFiniteSet(1 .. Len(ll)) /\ Cardinality(1 .. Len(ll)) = Len(ll)
  BY <1>1, FS_Interval
<1> HIDE DEF f
<1>6. QED BY <1>3, <1>4, <1>5, FS_Surjection

\* Every variable keeps its type; the map and the list of the cache agree and
\* the counter of its bytes, updated by differences only, is exact
\* (lru.go:57, 74, 86).
THEOREM TypeCorrect == Spec => []TypeOK
<1>1. IInv /\ CacheInv => TypeOK
  <2> SUFFICES ASSUME IInv, CacheInv PROVE TypeOK OBVIOUS
  <2>1. LruTypeOK
    <3>1. ll \in Seq(Entry) BY DEF CacheInv, Linked
    <3>2. Total(ll) \in Nat BY <3>1, TotalType
    <3>3. QED BY <3>1, <3>2, KeysCounted DEF CacheInv, Linked, Counted, LruTypeOK
  <2>2. settled \subseteq Keys
    <3>1. ll \in Seq(Entry) /\ cache = KeysOf(ll) BY DEF CacheInv, Linked
    <3>2. \A i \in DOMAIN ll : ll[i].key \in Keys BY <3>1, SeqFacts DEF Entry
    <3>3. QED BY <3>1, <3>2 DEF CacheInv, KeptInv, KeysOf
  <2>3. QED
    BY <2>1, <2>2 DEF IInv, CallTypes, ResultInv, CacheInv, KeptInv, TypeOK
<1>2. QED BY CacheInvariance, <1>1, PTL

\* aoicache.go:55-95, singleflight.go:18-43, lru.go:50-92: for any callers,
\* keys, sizes and budget, a key that was loaded, returned and not evicted
\* since is in the cache.
THEOREM NothingReloaded == Spec => []NoReload
<1>1. CacheInv => NoReload BY DEF CacheInv, KeptInv, NoReload
<1>2. QED BY CacheInvariance, <1>1, PTL

------------------------------------------------------------------------------
(* The cache implements LruSpec.                                           *)

Entries(l) == {l[i] : i \in DOMAIN l}

\* The order of use that a list shows, and the lengths it holds.
Older(l) ==
  UNION {{<<l[j].key, l[i].key>> : j \in i + 1 .. Len(l)} : i \in DOMAIN l}

Place(l, k) == CHOOSE i \in DOMAIN l : l[i].key = k
HeldOf(l) == [k \in KeysOf(l) |-> l[Place(l, k)].len]

\* What a set of keys sums up to in LruSpec: its recursive function.
Bytes(h, x) == KeyLen[x] + h[x]
SomeOf(S) == CHOOSE x \in S : TRUE
SetSums(S, h, g) ==
  g = [s \in SUBSET S |-> IF s = {} THEN 0
                          ELSE Bytes(h, SomeOf(s)) + g[s \ {SomeOf(s)}]]

\* There is one for a finite set, by induction on the size of its subsets ...
LEMMA SetSumsExist ==
  ASSUME NEW S, IsFiniteSet(S), NEW h PROVE \E g : SetSums(S, h, g)
<1> DEFINE Sum(s, g) == IF s = {} THEN 0
                        ELSE Bytes(h, SomeOf(s)) + g[s \ {SomeOf(s)}]
           UpTo(n, g) ==
             /\ g = [s \in SUBSET S |-> g[s]]
             /\ \A s \in SUBSET S : Cardinality(s) <= n => g[s] = Sum(s, g)
           N == {n \in Nat : \E g : UpTo(n, g)}
<1>0. \A s \in SUBSET S : IsFiniteSet(s) /\ Cardinality(s) \in Nat
  BY FS_Subset, FS_CardinalityType
<1>1. 0 \in N
  <2> DEFINE g == [s \in SUBSET S |-> 0]
  <2>1. ASSUME NEW s \in SUBSET S, Cardinality(s) <= 0 PROVE g[s] = Sum(s, g)
    <3>1. s = {} BY <1>0, <2>1, FS_EmptySet
    <3>2. QED BY <3>1
  <2>2. UpTo(0, g) BY <2>1
  <2> HIDE DEF UpTo
  <2>3. QED BY <2>2
<1>2. ASSUME NEW n \in N PROVE n + 1 \in N
  <2>0. n \in Nat OBVIOUS
  <2>1. PICK f : UpTo(n, f) OBVIOUS
  <2> DEFINE g == [s \in SUBSET S |-> Sum(s, f)]
  <2>2. ASSUME NEW s \in SUBSET S, Cardinality(s) <= n + 1 PROVE g[s] = Sum(s, g)
    <3>1. CASE s = {} BY <3>1
    <3>2. CASE s # {}
      <4> DEFINE t == s \ {SomeOf(s)}
      <4>1. SomeOf(s) \in s BY <3>2 DEF SomeOf
      <4>2. Cardinality(t) = Cardinality(s) - 1
        BY <1>0, <4>1, FS_RemoveElement
      <4>3. t \in SUBSET S /\ Cardinality(t) <= n BY <1>0, <2>0, <2>2, <4>2
      <4>4. f[t] = Sum(t, f) BY <2>1, <4>3
      <4>5. g[t] = Sum(t, f) BY <4>3
      <4> HIDE DEF t
      <4>6. g[s] = Bytes(h, SomeOf(s)) + f[t] BY <3>2 DEF t
      <4>7. Sum(s, g) = Bytes(h, SomeOf(s)) + g[t] BY <3>2 DEF t
      <4>8. QED BY <4>4, <4>5, <4>6, <4>7
    <3>3. QED BY <3>1, <3>2
  <2>3. UpTo(n + 1, g) BY <2>2
  <2> HIDE DEF UpTo
  <2>4. QED BY <2>0, <2>3
<1>3. N \in SUBSET Nat OBVIOUS
<1>4. N = Nat
  <2> HIDE DEF N
  <2>1. QED BY <1>1, <1>2, <1>3, SetInduction
<1>5. PICK g : UpTo(Cardinality(S), g)
  <2>1. Cardinality(S) \in N BY <1>0, <1>4
  <2> HIDE DEF UpTo
  <2>2. QED BY <2>1
<1>6. \A s \in SUBSET S : g[s] = Sum(s, g)
  <2>1. ASSUME NEW s \in SUBSET S PROVE g[s] = Sum(s, g)
    <3>1. Cardinality(s) <= Cardinality(S) BY FS_Subset
    <3>2. QED BY <1>5, <3>1
  <2>2. QED BY <2>1
<1>7. g = [s \in SUBSET S |-> Sum(s, g)] BY <1>5, <1>6
<1>8. SetSums(S, h, g) BY <1>7 DEF SetSums
<1>9. QED BY <1>8

\* ... and for the keys of a list it sums up to what the list does, by
\* induction on its length.
LEMMA SetSumIsTotal ==
  ASSUME NEW S, NEW h, NEW g, SetSums(S, h, g), NEW m \in Seq(Entry),
         Distinct(m), KeysOf(m) \subseteq S,
         \A i \in DOMAIN m : h[m[i].key] = m[i].len
  PROVE  g[KeysOf(m)] = Total(m)
<1> DEFINE Fit(l) == /\ Distinct(l) /\ KeysOf(l) \subseteq S
                     /\ \A i \in DOMAIN l : h[l[i].key] = l[i].len
           N == {n \in Nat : \A l \in Seq(Entry) :
                   Len(l) = n /\ Fit(l) => g[KeysOf(l)] = Total(l)}
<1>1. 0 \in N
  <2>1. ASSUME NEW l \in Seq(Entry), Len(l) = 0 PROVE g[KeysOf(l)] = Total(l)
    <3>1. KeysOf(l) = {}
      <4>1. DOMAIN l = {} BY <2>1, SeqFacts
      <4>2. QED BY <4>1 DEF KeysOf
    <3>2. Total(l) = 0
      <4>1. PICK f \in [0 .. Len(l) -> Nat] : f[0] = 0 /\ Total(l) = f[Len(l)]
        BY TotalIs
      <4>2. QED BY <2>1, <4>1
    <3>3. g[{}] = 0 BY DEF SetSums
    <3>4. QED BY <3>1, <3>2, <3>3
  <2>2. QED BY <2>1
<1>2. ASSUME NEW n \in N PROVE n + 1 \in N
  <2>0. n \in Nat OBVIOUS
  <2>1. ASSUME NEW l \in Seq(Entry), Len(l) = n + 1, Fit(l)
        PROVE  g[KeysOf(l)] = Total(l)
    <3> DEFINE K == KeysOf(l)
               x == SomeOf(K)
    <3>1. DOMAIN l = 1 .. n + 1 /\ 1 \in 1 .. n + 1 BY <2>0, <2>1, SeqFacts
    <3>2. K # {} BY <3>1 DEF KeysOf
    <3>3. x \in K BY <3>2 DEF SomeOf
    <3>4. PICK i \in DOMAIN l : l[i].key = x BY <3>3 DEF KeysOf
    <3> DEFINE r == RemoveAt(l, i)
    <3>5. r \in Seq(Entry) /\ Distinct(r) /\ KeysOf(r) = K \ {x}
      BY <2>1, <3>4, Removed
    <3>6. /\ Len(r) = n
          /\ \A j \in 1 .. n : r[j] = IF j < i THEN l[j] ELSE l[j + 1]
      <4>1. Len(l) - 1 = n BY <2>0, <2>1
      <4>2. /\ Len(r) = Len(l) - 1
            /\ \A j \in 1 .. Len(l) - 1 : r[j] = IF j < i THEN l[j] ELSE l[j + 1]
        BY <3>4, RemovedIs
      <4> HIDE DEF r
      <4>3. QED BY <4>1, <4>2
    <3>7. ASSUME NEW j \in DOMAIN r PROVE h[r[j].key] = r[j].len
      <4>1. j \in 1 .. n BY <3>5, <3>6, SeqFacts
      <4>2. j \in 1 .. n + 1 /\ j + 1 \in 1 .. n + 1 BY <2>0, <4>1
      <4>3. r[j] = l[j] \/ r[j] = l[j + 1] BY <3>6, <4>1
      <4>4. QED BY <2>1, <3>1, <4>2, <4>3
    <3>8. g[KeysOf(r)] = Total(r)
      <4>1. Fit(r) BY <2>1, <3>5, <3>7
      <4> HIDE DEF Fit, r
      <4>2. QED BY <3>5, <3>6, <4>1
    <3>9. Total(r) + Size(l[i]) = Total(l) BY TotalOfRemoved
    <3>10. g[K] = Bytes(h, x) + g[K \ {x}]
      <4>1. K \in SUBSET S BY <2>1
      <4> HIDE DEF K
      <4>2. QED BY <3>2, <4>1 DEF SetSums
    <3>11. Bytes(h, x) = Size(l[i])
      <4>1. h[x] = l[i].len BY <2>1, <3>4
      <4>2. QED BY <3>4, <4>1 DEF Bytes, Size
    <3>12. Total(r) \in Nat /\ Size(l[i]) \in Nat
      <4>1. l[i] \in Entry BY SeqFacts
      <4>2. QED BY <3>5, <4>1, TotalType, SizeType
    <3> HIDE DEF K, x, r
    <3>13. QED BY <3>5, <3>8, <3>9, <3>10, <3>11, <3>12 DEF K
  <2>2. n + 1 \in Nat BY <2>0
  <2> HIDE DEF Fit
  <2>3. QED BY <2>1, <2>2
<1>3. N \in SUBSET Nat OBVIOUS
<1>4. N = Nat
  <2> HIDE DEF N
  <2>1. QED BY <1>1, <1>2, <1>3, SetInduction
<1>5. Len(m) \in N BY <1>4, SeqFacts
<1>6. Fit(m) OBVIOUS
<1> HIDE DEF Fit
<1>7. QED BY <1>5, <1>6

LEMMA BytesAreTotal ==
  ASSUME NEW l \in Seq(Entry), Distinct(l), NEW h,
         \A i \in DOMAIN l : h[l[i].key] = l[i].len
  PROVE  Promise!Bytes(h, KeysOf(l)) = Total(l)
<1> DEFINE S == KeysOf(l)
<1>1. IsFiniteSet(S)
  <2> DEFINE f == [i \in 1 .. Len(l) |-> l[i].key]
  <2>1. Len(l) \in Nat /\ DOMAIN l = 1 .. Len(l) BY SeqFacts
  <2>2. S = {l[i].key : i \in 1 .. Len(l)} BY <2>1 DEF KeysOf
  <2>3. f \in Surjection(1 .. Len(l), S) BY <2>2 DEF Surjection
  <2>4. IsFiniteSet(1 .. Len(l)) BY <2>1, FS_Interval
  <2> HIDE DEF f, S
  <2>5. QED BY <2>3, <2>4, FS_Surjection
<1> HIDE DEF S
<1>2. PICK g : SetSums(S, h, g) BY <1>1, SetSumsExist
<1>3. \E f : SetSums(S, h, f) /\ Promise!Bytes(h, S) = f[S]
  BY <1>2
  DEF Promise!Bytes, Promise!MapThenSumSet, Promise!MapThenFoldSet, SetSums,
      SomeOf, Bytes
<1>4. QED BY <1>3, SetSumIsTotal DEF S

\* What is held is told by the entries alone, whatever their order.
LEMMA HeldIs ==
  ASSUME NEW l \in Seq(Entry), Distinct(l), NEW i \in DOMAIN l
  PROVE  l[i].key \in KeysOf(l) /\ HeldOf(l)[l[i].key] = l[i].len
<1> DEFINE k == l[i].key
<1>1. k \in KeysOf(l) BY DEF KeysOf
<1>2. Place(l, k) \in DOMAIN l /\ l[Place(l, k)].key = k BY DEF Place
<1>3. Place(l, k) = i BY <1>2 DEF Distinct
<1>4. QED BY <1>1, <1>3 DEF HeldOf

LEMMA HeldAgree ==
  ASSUME NEW l \in Seq(Entry), Distinct(l), NEW m \in Seq(Entry), Distinct(m),
         Entries(m) \subseteq Entries(l), NEW k \in KeysOf(m)
  PROVE  k \in KeysOf(l) /\ HeldOf(m)[k] = HeldOf(l)[k]
<1>1. PICK i \in DOMAIN m : m[i].key = k BY DEF KeysOf
<1>2. PICK j \in DOMAIN l : l[j] = m[i] BY <1>1 DEF Entries
<1>3. HeldOf(m)[k] = m[i].len BY <1>1, HeldIs
<1>4. k \in KeysOf(l) /\ HeldOf(l)[k] = l[j].len BY <1>1, <1>2, HeldIs
<1>5. QED BY <1>2, <1>3, <1>4

LEMMA OlderIs ==
  ASSUME NEW l \in Seq(Entry), NEW p
  PROVE  p \in Older(l) <=> \E i, j \in 1 .. Len(l) :
                              i < j /\ p = <<l[j].key, l[i].key>>
<1>1. Len(l) \in Nat /\ DOMAIN l = 1 .. Len(l) BY SeqFacts
<1>2. ASSUME p \in Older(l)
      PROVE  \E i, j \in 1 .. Len(l) : i < j /\ p = <<l[j].key, l[i].key>>
  <2>1. PICK i \in 1 .. Len(l) : \E j \in i + 1 .. Len(l) : p = <<l[j].key, l[i].key>>
    BY <1>1, <1>2 DEF Older
  <2>2. PICK j \in i + 1 .. Len(l) : p = <<l[j].key, l[i].key>> BY <2>1
  <2>3. j \in 1 .. Len(l) /\ i < j BY <1>1
  <2>4. QED BY <2>2, <2>3
<1>3. ASSUME NEW i \in 1 .. Len(l), NEW j \in 1 .. Len(l), i < j,
             p = <<l[j].key, l[i].key>>
      PROVE  p \in Older(l)
  <2>1. j \in i + 1 .. Len(l) BY <1>1, <1>3
  <2>2. QED BY <1>1, <1>3, <2>1 DEF Older
<1>4. QED BY <1>2, <1>3

\* A list with an entry of a new key before the others ...
LEMMA FrontedOrder ==
  ASSUME NEW l \in Seq(Entry), NEW e \in Entry
  PROVE  /\ Older(<<e>> \o l) = Older(l) \cup {<<x, e.key>> : x \in KeysOf(l)}
         /\ Entries(<<e>> \o l) = Entries(l) \cup {e}
<1> DEFINE r == <<e>> \o l
           n == Len(l)
<1>1. n \in Nat /\ DOMAIN l = 1 .. n BY SeqFacts
<1>2. /\ r \in Seq(Entry) /\ Len(r) = n + 1 /\ r[1] = e
      /\ \A j \in 2 .. n + 1 : r[j] = l[j - 1]
  OBVIOUS
<1> HIDE DEF r, n
<1>3. DOMAIN r = 1 .. n + 1 BY <1>2, SeqFacts
<1>4. /\ \A j \in 1 .. n + 1 : j = 1 \/ (j \in 2 .. n + 1 /\ j - 1 \in 1 .. n)
      /\ \A j \in 1 .. n : j + 1 \in 1 .. n + 1 /\ r[j + 1] = l[j] /\ 1 < j + 1
      /\ 1 \in 1 .. n + 1
  <2>1. \A j \in 1 .. n : j + 1 \in 2 .. n + 1 /\ (j + 1) - 1 = j BY <1>1
  <2>2. QED BY <1>1, <1>2, <2>1
<1>5. ASSUME NEW p \in Older(r)
      PROVE  p \in Older(l) \cup {<<x, e.key>> : x \in KeysOf(l)}
  <2>1. PICK i, j \in 1 .. n + 1 : i < j /\ p = <<r[j].key, r[i].key>>
    BY <1>2, OlderIs
  <2>2. j # 1 /\ j - 1 \in 1 .. n /\ r[j] = l[j - 1] BY <1>1, <1>2, <2>1
  <2>3. CASE i = 1
    <3>1. l[j - 1].key \in KeysOf(l) BY <1>1, <2>2 DEF KeysOf
    <3>2. QED BY <1>2, <2>1, <2>2, <2>3, <3>1
  <2>4. CASE i # 1
    <3>1. i - 1 \in 1 .. n /\ r[i] = l[i - 1] /\ i - 1 < j - 1
      BY <1>1, <1>2, <2>1, <2>4
    <3>2. p = <<l[j - 1].key, l[i - 1].key>> BY <2>1, <2>2, <3>1
    <3>3. p \in Older(l) BY <2>2, <3>1, <3>2, OlderIs DEF n
    <3>4. QED BY <3>3
  <2>5. QED BY <2>3, <2>4
<1>6. ASSUME NEW p \in Older(l) PROVE p \in Older(r)
  <2>1. PICK i, j \in 1 .. n : i < j /\ p = <<l[j].key, l[i].key>>
    BY OlderIs DEF n
  <2>2. i + 1 < j + 1 /\ p = <<r[j + 1].key, r[i + 1].key>> BY <1>1, <1>4, <2>1
  <2>3. i + 1 \in 1 .. n + 1 /\ j + 1 \in 1 .. n + 1 BY <1>4
  <2>4. QED BY <1>2, <2>2, <2>3, OlderIs
<1>7. ASSUME NEW x \in KeysOf(l) PROVE <<x, e.key>> \in Older(r)
  <2>1. PICK j \in 1 .. n : l[j].key = x BY <1>1 DEF KeysOf
  <2>2. <<x, e.key>> = <<r[j + 1].key, r[1].key>> BY <1>2, <1>4, <2>1
  <2>3. QED BY <1>2, <1>4, <2>2, OlderIs
<1>8. Older(r) = Older(l) \cup {<<x, e.key>> : x \in KeysOf(l)}
  BY <1>5, <1>6, <1>7
<1>9. Entries(r) = Entries(l) \cup {e}
  <2>1. ASSUME NEW x \in Entries(r) PROVE x \in Entries(l) \cup {e}
    <3>1. PICK j \in 1 .. n + 1 : x = r[j] BY <1>3 DEF Entries
    <3>2. CASE j = 1 BY <1>2, <3>1, <3>2
    <3>3. CASE j # 1
      <4>1. j - 1 \in 1 .. n /\ x = l[j - 1] BY <1>2, <1>4, <3>1, <3>3
      <4>2. QED BY <1>1, <4>1 DEF Entries
    <3>4. QED BY <3>2, <3>3
  <2>2. ASSUME NEW x \in Entries(l) PROVE x \in Entries(r)
    <3>1. PICK j \in 1 .. n : x = l[j] BY <1>1 DEF Entries
    <3>2. x = r[j + 1] /\ j + 1 \in DOMAIN r BY <1>3, <1>4, <3>1
    <3>3. QED BY <3>2 DEF Entries
  <2>3. e \in Entries(r) BY <1>2, <1>3, <1>4 DEF Entries
  <2>4. QED BY <2>1, <2>2, <2>3
<1>10. QED BY <1>8, <1>9 DEF r

\* ... a list without one of its entries ...
LEMMA RemovedOrder ==
  ASSUME NEW l \in Seq(Entry), Distinct(l), NEW i \in DOMAIN l
  PROVE  /\ Older(RemoveAt(l, i)) =
              {p \in Older(l) : p[1] # l[i].key /\ p[2] # l[i].key}
         /\ Entries(RemoveAt(l, i)) \subseteq Entries(l)
<1> DEFINE r == RemoveAt(l, i)
           n == Len(l)
           k == l[i].key
           old(j) == IF j < i THEN j ELSE j + 1
<1>1. n \in Nat /\ i \in 1 .. n /\ DOMAIN l = 1 .. n BY SeqFacts
<1>2. /\ r \in Seq(Entry) /\ Len(r) = n - 1
      /\ \A j \in 1 .. n - 1 : r[j] = IF j < i THEN l[j] ELSE l[j + 1]
  BY RemovedIs
<1>3. DOMAIN r = 1 .. n - 1
  <2> HIDE DEF r
  <2>1. QED BY <1>2, SeqFacts
<1>4. \A j \in 1 .. n - 1 :
        /\ old(j) \in 1 .. n /\ old(j) # i /\ r[j] = l[old(j)]
        /\ l[old(j)].key # k
  <2>1. TAKE j \in 1 .. n - 1
  <2>2. old(j) \in 1 .. n /\ old(j) # i /\ r[j] = l[old(j)] BY <1>1, <1>2
  <2> HIDE DEF old, r
  <2>3. QED BY <1>1, <2>2 DEF Distinct
<1>5. \A j, m \in 1 .. n - 1 : j < m => old(j) < old(m) BY <1>1
<1>6. \A m \in 1 .. n : m # i => \E j \in 1 .. n - 1 : old(j) = m
  <2>1. TAKE m \in 1 .. n
  <2>2. CASE m < i BY <1>1, <2>2
  <2>3. CASE m > i
    <3>1. m - 1 \in 1 .. n - 1 /\ old(m - 1) = m BY <1>1, <2>3
    <3>2. QED BY <3>1
  <2>4. QED BY <1>1, <2>2, <2>3
<1>7. \A j, m \in 1 .. n - 1 : old(j) < old(m) => j < m BY <1>1
<1> HIDE DEF r, n, k, old
<1>8. ASSUME NEW p \in Older(r) PROVE p \in Older(l) /\ p[1] # k /\ p[2] # k
  <2>1. PICK a, b \in 1 .. n - 1 : a < b /\ p = <<r[b].key, r[a].key>>
    BY <1>2, OlderIs
  <2>2. p = <<l[old(b)].key, l[old(a)].key>> /\ old(a) < old(b)
    BY <1>4, <1>5, <2>1
  <2>3. old(a) \in 1 .. Len(l) /\ old(b) \in 1 .. Len(l) BY <1>4 DEF n
  <2>4. p \in Older(l) BY <2>2, <2>3, OlderIs
  <2>5. p[1] # k /\ p[2] # k BY <1>4, <2>2
  <2>6. QED BY <2>4, <2>5
<1>9. ASSUME NEW p \in Older(l), p[1] # k, p[2] # k PROVE p \in Older(r)
  <2>1. PICK a, b \in 1 .. n : a < b /\ p = <<l[b].key, l[a].key>>
    BY OlderIs DEF n
  <2>2. a # i /\ b # i BY <1>9, <2>1 DEF k
  <2>3. PICK x \in 1 .. n - 1 : old(x) = a BY <1>6, <2>2
  <2>4. PICK y \in 1 .. n - 1 : old(y) = b BY <1>6, <2>2
  <2>5. x < y /\ p = <<r[y].key, r[x].key>> BY <1>4, <1>7, <2>1, <2>3, <2>4
  <2>6. QED BY <1>2, <2>5, OlderIs
<1>10. Older(r) = {p \in Older(l) : p[1] # k /\ p[2] # k} BY <1>8, <1>9
<1>11. Entries(r) \subseteq Entries(l)
  <2>1. ASSUME NEW x \in Entries(r) PROVE x \in Entries(l)
    <3>1. PICK j \in 1 .. n - 1 : x = r[j] BY <1>3 DEF Entries
    <3>2. x = l[old(j)] /\ old(j) \in DOMAIN l BY <1>1, <1>4, <3>1
    <3>3. QED BY <3>2 DEF Entries
  <2>2. QED BY <2>1
<1>12. QED BY <1>10, <1>11 DEF r, k

\* ... and the beginning of a list.
LEMMA PrefixOrder ==
  ASSUME NEW l \in Seq(Entry), Distinct(l), NEW n \in 0 .. Len(l)
  PROVE  LET a == SubSeq(l, 1, n)
             S == KeysOf(a)
         IN  /\ S = {l[j].key : j \in 1 .. n}
             /\ Entries(a) \subseteq Entries(l)
             /\ Older(a) = Older(l) \cap (S \X S)
<1> DEFINE a == SubSeq(l, 1, n)
           S == KeysOf(a)
           m == Len(l)
<1>1. m \in Nat /\ n \in Nat /\ n <= m /\ DOMAIN l = 1 .. m BY SeqFacts
<1>2. a \in Seq(Entry) /\ Len(a) = n /\ \A j \in 1 .. n : a[j] = l[j]
  BY <1>1
<1> HIDE DEF a
<1>3. DOMAIN a = 1 .. n BY <1>2, SeqFacts
<1>4. S = {l[j].key : j \in 1 .. n} BY <1>2, <1>3 DEF KeysOf
<1>5. \A j \in 1 .. n : j \in 1 .. m BY <1>1
<1>6. Entries(a) \subseteq Entries(l) BY <1>1, <1>2, <1>3, <1>5 DEF Entries
<1>7. \A j \in 1 .. m : l[j].key \in S => j \in 1 .. n
  BY <1>1, <1>4, <1>5 DEF Distinct
<1> HIDE DEF S, m
<1>8. ASSUME NEW p \in Older(a) PROVE p \in Older(l) \cap (S \X S)
  <2>1. PICK i, j \in 1 .. n : i < j /\ p = <<a[j].key, a[i].key>>
    BY <1>2, OlderIs
  <2>2. p = <<l[j].key, l[i].key>> /\ i \in 1 .. m /\ j \in 1 .. m
    BY <1>2, <1>5, <2>1
  <2>3. p \in Older(l) BY <2>1, <2>2, OlderIs DEF m
  <2>4. l[j].key \in S /\ l[i].key \in S BY <1>4
  <2>5. QED BY <2>2, <2>3, <2>4
<1>9. ASSUME NEW p \in Older(l) \cap (S \X S) PROVE p \in Older(a)
  <2>1. PICK i, j \in 1 .. m : i < j /\ p = <<l[j].key, l[i].key>>
    BY OlderIs DEF m
  <2>2. l[j].key \in S /\ l[i].key \in S BY <2>1
  <2>3. i \in 1 .. n /\ j \in 1 .. n BY <1>7, <2>2
  <2>4. p = <<a[j].key, a[i].key>> BY <1>2, <2>1, <2>3
  <2>5. QED BY <1>2, <2>1, <2>3, <2>4, OlderIs
<1>10. Older(a) = Older(l) \cap (S \X S) BY <1>8, <1>9
<1>11. QED BY <1>4, <1>6, <1>10 DEF a, S

\* What LruSpec lets stay is the beginning of a list, ...
LEMMA PrefixIsRecent ==
  ASSUME NEW l \in Seq(Entry), Distinct(l), NEW n \in 0 .. Len(l)
  PROVE  Promise!Recent(KeysOf(SubSeq(l, 1, n)), Older(l))
<1> DEFINE S == KeysOf(SubSeq(l, 1, n))
<1>1. Len(l) \in Nat /\ n \in Nat /\ DOMAIN l = 1 .. Len(l) BY SeqFacts
<1>2. S = {l[j].key : j \in 1 .. n} BY PrefixOrder
<1> HIDE DEF S
<1>3. ASSUME NEW p \in Older(l), p[1] \in S PROVE p[2] \in S
  <2>1. PICK i, j \in 1 .. Len(l) : i < j /\ p = <<l[j].key, l[i].key>>
    BY OlderIs
  <2>2. PICK m \in 1 .. n : l[m].key = l[j].key BY <1>2, <1>3, <2>1
  <2>3. m \in 1 .. Len(l) BY <1>1
  <2>4. m = j BY <1>1, <2>2, <2>3 DEF Distinct
  <2>5. i \in 1 .. n BY <1>1, <2>1, <2>4
  <2>6. QED BY <1>2, <2>1, <2>5
<1>4. QED BY <1>3 DEF Promise!Recent, S

\* ... and nothing else.
LEMMA RecentIsPrefix ==
  ASSUME NEW l \in Seq(Entry), Distinct(l), NEW T \in SUBSET KeysOf(l),
         Promise!Recent(T, Older(l))
  PROVE  \E m \in 0 .. Len(l) : T = KeysOf(SubSeq(l, 1, m))
<1> DEFINE n == Len(l)
           J == {j \in 1 .. n + 1 : j = n + 1 \/ l[j].key \notin T}
<1>1. n \in Nat /\ DOMAIN l = 1 .. n BY SeqFacts
<1>2. J \in SUBSET Nat /\ n + 1 \in J BY <1>1
<1>3. PICK x \in J : \A y \in J : x <= y
  <2> HIDE DEF J
  <2>1. QED BY <1>2, LeastNumber
<1>4. x \in 1 .. n + 1 /\ x - 1 \in 0 .. n BY <1>1
<1>5. \A j \in 1 .. x - 1 : l[j].key \in T
  <2>1. TAKE j \in 1 .. x - 1
  <2>2. j \in 1 .. n + 1 /\ j # n + 1 /\ ~(x <= j) BY <1>1, <1>4
  <2>3. QED BY <1>3, <2>2
<1>6. ASSUME NEW j \in 1 .. n, l[j].key \in T PROVE j \in 1 .. x - 1
  <2>1. CASE j < x BY <1>1, <1>4, <2>1
  <2>2. CASE ~(j < x)
    <3>1. x \in 1 .. n /\ x # n + 1 BY <1>1, <1>4, <2>2
    <3>2. l[x].key \notin T BY <3>1
    <3>3. x < j BY <1>4, <1>6, <2>2, <3>2
    <3> DEFINE p == <<l[j].key, l[x].key>>
    <3>4. p \in Older(l) BY <3>1, <3>3, OlderIs DEF n
    <3>5. p[1] \in T => p[2] \in T BY <3>4 DEF Promise!Recent
    <3>6. QED BY <1>6, <3>2, <3>5
  <2>3. QED BY <2>1, <2>2
<1> HIDE DEF J
<1>7. \A t \in T : \E j \in 1 .. n : l[j].key = t BY <1>1 DEF KeysOf
<1>8. T = {l[j].key : j \in 1 .. x - 1} BY <1>5, <1>6, <1>7
<1>9. KeysOf(SubSeq(l, 1, x - 1)) = {l[j].key : j \in 1 .. x - 1}
  BY <1>4, PrefixOrder
<1>10. QED BY <1>4, <1>8, <1>9

\* The loop of Add has room exactly for what fits into LruSpec's budget.
LEMMA RoomIsFit ==
  ASSUME NEW l \in Seq(Entry), Distinct(l), NEW n \in 0 .. Len(l)
  PROVE  /\ RoomAt(l, Total(l), n) <=>
              Promise!Fits(HeldOf(l), KeysOf(SubSeq(l, 1, n)))
         /\ RoomAt(l, Total(l), 0)
<1> DEFINE a == SubSeq(l, 1, n)
           b == SubSeq(l, n + 1, Len(l))
           h == HeldOf(l)
<1>1. Len(l) \in Nat /\ n \in Nat /\ n <= Len(l) /\ DOMAIN l = 1 .. Len(l)
  BY SeqFacts
<1>2. /\ a \in Seq(Entry) /\ Len(a) = n /\ \A j \in 1 .. n : a[j] = l[j]
      /\ b \in Seq(Entry)
  BY <1>1
<1>3. Total(a) + Total(b) = Total(l) BY TotalOfParts
<1>4. Distinct(a) BY Shortened
<1>5. RoomAt(l, Total(l), n) <=> MaxBytes = 0 \/ Total(l) - Total(b) <= MaxBytes
  BY DEF RoomAt
<1> HIDE DEF a, b, h
<1>6. Total(a) \in Nat /\ Total(b) \in Nat BY <1>2, TotalType
<1>7. Total(l) - Total(b) = Total(a) BY <1>3, <1>6
<1>8. ASSUME NEW j \in DOMAIN a PROVE h[a[j].key] = a[j].len
  <2>1. j \in 1 .. n BY <1>2, SeqFacts
  <2>2. j \in DOMAIN l /\ a[j] = l[j] BY <1>1, <1>2, <2>1
  <2>3. QED BY <2>2, HeldIs DEF h
<1>9. Promise!Bytes(h, KeysOf(a)) = Total(a) BY <1>2, <1>4, <1>8, BytesAreTotal
<1>10. RoomAt(l, Total(l), n) <=> Promise!Fits(h, KeysOf(a))
  BY <1>5, <1>7, <1>9 DEF Promise!Fits
<1>11. RoomAt(l, Total(l), 0)
  <2> DEFINE c == SubSeq(l, 1, Len(l))
  <2>1. c = l BY <1>1
  <2>2. SubSeq(l, 0 + 1, Len(l)) = l BY <2>1
  <2>3. Total(l) - Total(l) = 0 BY TotalType
  <2>4. 0 <= MaxBytes BY LruAssumption
  <2>5. QED BY <2>2, <2>3, <2>4 DEF RoomAt
<1>12. QED BY <1>10, <1>11 DEF a, h

------------------------------------------------------------------------------
\* The order after a use of k, and a hit.
UsedIn(order, k, S) ==
  {p \in order : p[1] # k /\ p[2] # k} \cup {<<x, k>> : x \in S \ {k}}

LEMMA UseStep == ASSUME Linked, NEW k \in Keys, Hit(k) PROVE Promise!Use(k)
<1> DEFINE e == ll[At(k)]
           r == RemoveAt(ll, At(k))
<1>1. /\ k \in cache /\ cache' = cache /\ asked' = {k}
      /\ ll' = <<e>> \o r
  BY DEF Hit, MoveToFront
<1>2. At(k) \in DOMAIN ll /\ e.key = k /\ e \in Entry BY <1>1, AtFacts
<1>3. /\ ll \in Seq(Entry) /\ Distinct(ll) /\ cache = KeysOf(ll)
      /\ ll' \in Seq(Entry) /\ Distinct(ll') /\ cache' = KeysOf(ll')
  BY HitLinked DEF Linked
<1>4. r \in Seq(Entry) /\ KeysOf(r) = cache \ {k} BY <1>2, <1>3, Removed
<1>5. /\ Older(r) = {p \in Older(ll) : p[1] # k /\ p[2] # k}
      /\ Entries(r) \subseteq Entries(ll)
  BY <1>2, <1>3, RemovedOrder
<1>6. e \in Entries(ll) BY <1>2 DEF Entries
<1> HIDE DEF e, r
<1>7. /\ Older(ll') = Older(r) \cup {<<x, k>> : x \in KeysOf(r)}
      /\ Entries(ll') = Entries(r) \cup {e}
  BY <1>1, <1>2, <1>4, FrontedOrder
<1>8. Older(ll') = UsedIn(Older(ll), k, cache)
  BY <1>4, <1>5, <1>7 DEF UsedIn
<1>9. Entries(ll') \subseteq Entries(ll) BY <1>5, <1>6, <1>7
<1>10. \A x \in cache : HeldOf(ll')[x] = HeldOf(ll)[x]
  BY <1>1, <1>3, <1>9, HeldAgree
<1>11. HeldOf(ll') = HeldOf(ll) BY <1>1, <1>3, <1>10 DEF HeldOf
<1>12. /\ [x \in cache |-> ll[At(x)].len] = HeldOf(ll)
       /\ [x \in cache' |-> ll'[At(x)'].len] = HeldOf(ll')
  BY <1>3 DEF At, Place, HeldOf
<1>13. QED
  BY <1>1, <1>8, <1>11, <1>12 DEF Promise!Use, Promise!Used, UsedIn, Older

\* The list that Add has before it makes room is what Put has before.
LEMMA AddedIs ==
  ASSUME Linked, NEW k \in Keys, NEW len \in Lens
  PROVE  LET l == Added(k, len)
         IN  /\ l \in Seq(Entry) /\ Distinct(l) /\ KeysOf(l) = cache \cup {k}
             /\ Older(l) = UsedIn(Older(ll), k, cache \cup {k})
             /\ HeldOf(l) = [x \in cache \cup {k} |->
                               IF x = k THEN len ELSE HeldOf(ll)[x]]
<1> DEFINE l == Added(k, len)
           e == [key |-> k, len |-> len]
           r == IF k \in cache THEN RemoveAt(ll, At(k)) ELSE ll
<1>0. ll \in Seq(Entry) /\ Distinct(ll) /\ cache = KeysOf(ll) BY DEF Linked
<1>1. /\ r \in Seq(Entry) /\ Distinct(r) /\ KeysOf(r) = cache \ {k}
      /\ Older(r) = {p \in Older(ll) : p[1] # k /\ p[2] # k}
      /\ Entries(r) \subseteq Entries(ll)
  <2>1. CASE k \in cache
    <3>1. At(k) \in DOMAIN ll /\ ll[At(k)].key = k BY <2>1, AtFacts
    <3>2. r = RemoveAt(ll, At(k)) BY <2>1
    <3> HIDE DEF r
    <3>3. r \in Seq(Entry) /\ Distinct(r) /\ KeysOf(r) = cache \ {k}
      BY <1>0, <3>1, <3>2, Removed
    <3>4. /\ Older(r) = {p \in Older(ll) : p[1] # k /\ p[2] # k}
          /\ Entries(r) \subseteq Entries(ll)
      BY <1>0, <3>1, <3>2, RemovedOrder
    <3>5. QED BY <3>3, <3>4
  <2>2. CASE k \notin cache
    <3>1. r = ll BY <2>2
    <3>2. ASSUME NEW p \in Older(ll) PROVE p[1] # k /\ p[2] # k
      <4>1. PICK i, j \in 1 .. Len(ll) : p = <<ll[j].key, ll[i].key>>
        BY <1>0, OlderIs
      <4>2. ll[j].key \in cache /\ ll[i].key \in cache
        BY <1>0, SeqFacts DEF KeysOf
      <4>3. QED BY <2>2, <4>1, <4>2
    <3> HIDE DEF r
    <3>3. QED BY <1>0, <2>2, <3>1, <3>2
  <2>3. QED BY <2>1, <2>2
<1>2. e \in Entry /\ e.key = k /\ e.len = len BY DEF Entry
<1>3. l = <<e>> \o r BY DEF Added
<1> HIDE DEF l, e, r
<1>4. l \in Seq(Entry) /\ Distinct(l) /\ KeysOf(l) = cache \cup {k}
  BY <1>1, <1>2, <1>3, Fronted
<1>5. /\ Older(l) = Older(r) \cup {<<x, k>> : x \in KeysOf(r)}
      /\ Entries(l) = Entries(r) \cup {e}
  BY <1>1, <1>2, <1>3, FrontedOrder
<1>6. Older(l) = UsedIn(Older(ll), k, cache \cup {k})
  <2>1. cache \ {k} = (cache \cup {k}) \ {k} OBVIOUS
  <2>2. QED BY <1>1, <1>5, <2>1 DEF UsedIn
<1>7. ASSUME NEW x \in cache \cup {k}
      PROVE  HeldOf(l)[x] = IF x = k THEN len ELSE HeldOf(ll)[x]
  <2>1. CASE x = k
    <3>1. e \in Entries(l) BY <1>5
    <3>2. PICK i \in DOMAIN l : l[i] = e BY <3>1 DEF Entries
    <3>3. HeldOf(l)[l[i].key] = l[i].len BY <1>4, HeldIs
    <3>4. QED BY <1>2, <2>1, <3>2, <3>3
  <2>2. CASE x # k
    <3>1. x \in KeysOf(r) BY <1>1, <2>2
    <3>2. HeldOf(r)[x] = HeldOf(ll)[x] BY <1>0, <1>1, <3>1, HeldAgree
    <3>3. Entries(r) \subseteq Entries(l) BY <1>5
    <3>4. HeldOf(r)[x] = HeldOf(l)[x] BY <1>1, <1>4, <3>1, <3>3, HeldAgree
    <3>5. QED BY <2>2, <3>2, <3>4
  <2>3. QED BY <2>1, <2>2
<1>8. HeldOf(l) = [x \in cache \cup {k} |-> IF x = k THEN len ELSE HeldOf(ll)[x]]
  <2>1. HeldOf(l) = [x \in cache \cup {k} |-> HeldOf(l)[x]] BY <1>4 DEF HeldOf
  <2>2. QED BY <1>7, <2>1
<1>9. QED BY <1>4, <1>6, <1>8 DEF l

LEMMA PutStep ==
  ASSUME Linked, Counted, NEW k \in Keys, NEW len \in Lens, Add(k, len)
  PROVE  Promise!Put(k, len)
<1> DEFINE l == Added(k, len)
           h == HeldOf(l)
           order == Older(l)
           bytes == nBytes + Growth(k, len)
<1>1. /\ l \in Seq(Entry) /\ Distinct(l) /\ KeysOf(l) = cache \cup {k}
      /\ order = UsedIn(Older(ll), k, cache \cup {k})
      /\ h = [x \in cache \cup {k} |-> IF x = k THEN len ELSE HeldOf(ll)[x]]
  BY AddedIs
<1>2. Total(l) = bytes /\ Len(l) \in Nat BY AddedFacts
<1>3. PICK n \in 0 .. Len(l) :
        /\ n = 0 \/ RoomAt(l, bytes, n)
        /\ \A m \in n + 1 .. Len(l) : ~RoomAt(l, bytes, m)
        /\ Evict(l, bytes, n)
  BY DEF Add
<1>4. asked' = {k} BY DEF Add
<1>5. ll' = SubSeq(l, 1, n) BY <1>3 DEF Evict
<1> DEFINE S == KeysOf(ll')
           Keep(T) == Promise!Recent(T, order) /\ Promise!Fits(h, T)
<1>6. /\ ll \in Seq(Entry) /\ cache = KeysOf(ll)
      /\ ll' \in Seq(Entry) /\ Distinct(ll') /\ cache' = S
  BY AddLinked DEF Linked
<1> HIDE DEF l, bytes
<1>7. /\ S = {l[j].key : j \in 1 .. n} /\ Entries(ll') \subseteq Entries(l)
      /\ Older(ll') = order \cap (S \X S)
  BY <1>1, <1>5, PrefixOrder
<1>8. RoomAt(l, bytes, n) BY <1>1, <1>2, <1>3, RoomIsFit
<1>9. S \in SUBSET KeysOf(l) BY <1>1, <1>5, Shortened
<1>10. Keep(S)
  <2>1. Promise!Recent(S, order) BY <1>1, <1>5, PrefixIsRecent
  <2>2. Promise!Fits(h, S) BY <1>1, <1>2, <1>5, <1>8, RoomIsFit
  <2>3. QED BY <2>1, <2>2
<1>11. ASSUME NEW T \in SUBSET KeysOf(l), Keep(T), S \subseteq T, S # T
       PROVE  FALSE
  <2>1. PICK m \in 0 .. Len(l) : T = KeysOf(SubSeq(l, 1, m))
    BY <1>1, <1>11, RecentIsPrefix
  <2>2. T = {l[j].key : j \in 1 .. m} BY <1>1, <2>1, PrefixOrder
  <2>3. ~(m <= n)
    <3> SUFFICES ASSUME m <= n PROVE FALSE OBVIOUS
    <3>1. \A j \in 1 .. m : j \in 1 .. n BY <1>2
    <3> HIDE DEF S
    <3>2. T \subseteq S BY <1>7, <2>2, <3>1
    <3>3. QED BY <1>11, <3>2
  <2>4. m \in n + 1 .. Len(l) BY <1>2, <2>3
  <2>5. RoomAt(l, bytes, m) BY <1>1, <1>2, <1>11, <2>1, RoomIsFit
  <2>6. QED BY <1>3, <2>4, <2>5
<1>12. \A x \in S : HeldOf(ll')[x] = h[x]
  BY <1>1, <1>6, <1>7, HeldAgree
<1>13. HeldOf(ll') = [x \in S |-> h[x]]
  <2>1. HeldOf(ll') = [x \in S |-> HeldOf(ll')[x]] BY DEF HeldOf
  <2> HIDE DEF S, h
  <2>2. QED BY <1>12, <2>1
<1>14. /\ [x \in cache |-> ll[At(x)].len] = HeldOf(ll)
       /\ [x \in cache' |-> ll'[At(x)'].len] = HeldOf(ll')
  BY <1>6 DEF At, Place, HeldOf
<1> HIDE DEF S, Keep, h, order
<1> DEFINE H == [x \in cache |-> ll[At(x)].len]
           D == DOMAIN H \cup {k}
           O == Promise!Used(k, D)
           g == [x \in D |-> IF x = k THEN len ELSE H[x]]
<1>15. D = KeysOf(l) BY <1>1
<1>16. D = cache \cup {k} OBVIOUS
<1>17. g = h
  <2>1. H = HeldOf(ll) BY <1>14
  <2> HIDE DEF H, D
  <2>2. QED BY <1>1, <1>16, <2>1
<1>18. O = order BY <1>1, <1>16 DEF Promise!Used, UsedIn, Older
<1>19. DOMAIN g = D OBVIOUS
<1>20. [x \in cache' |-> ll'[At(x)'].len] = Promise!Restrict(g, S)
  BY <1>13, <1>14, <1>17 DEF Promise!Restrict
<1> DEFINE Q(T) == Promise!Recent(T, O) /\ Promise!Fits(g, T)
<1>21. Q(S)
  <2> HIDE DEF O, g
  <2>1. QED BY <1>10, <1>17, <1>18 DEF Keep
<1>22. \A T \in SUBSET D : Q(T) => ~(S \subseteq T /\ S # T)
  <2> HIDE DEF O, g, D
  <2>1. QED BY <1>11, <1>15, <1>17, <1>18 DEF Keep
<1>23. Older(ll') = O \cap (S \X S)
  <2> HIDE DEF O
  <2>1. QED BY <1>7, <1>18
<1>24. /\ S \in SUBSET D /\ Q(S)
       /\ \A T \in SUBSET D : Q(T) => ~(S \subseteq T /\ S # T)
       /\ [x \in cache' |-> ll'[At(x)'].len] = Promise!Restrict(g, S)
       /\ Older(ll') = O \cap (S \X S)
  <2> HIDE DEF O, g, D, Q
  <2>1. QED BY <1>9, <1>15, <1>20, <1>21, <1>22, <1>23
<1>25. \E X \in SUBSET D :
         /\ Q(X)
         /\ \A T \in SUBSET D : Q(T) => ~(X \subseteq T /\ X # T)
         /\ [x \in cache' |-> ll'[At(x)'].len] = Promise!Restrict(g, X)
         /\ Older(ll') = O \cap (X \X X)
  <2> HIDE DEF O, g, D, Q
  <2>1. QED BY <1>24
<1>26. QED BY <1>4, <1>19, <1>25 DEF Promise!Put, Older

\* A step that leaves the cache alone leaves what it holds alone.
LEMMA CacheStutter ==
  ASSUME UNCHANGED lruVars
  PROVE  /\ [x \in cache' |-> ll'[At(x)'].len] = [x \in cache |-> ll[At(x)].len]
         /\ Older(ll') = Older(ll) /\ asked' = asked
BY DEF lruVars, At, Older

\* lru.go:50-92: for any keys, sizes, budget and callers, the cache does what
\* LruSpec promises: it evicts the least recently used entries, and no more of
\* them than the budget demands.
THEOREM Implements == Spec => ImplementsLruSpec
<1>1. Init => Promise!Init
  BY DEF Init, LruInit, Promise!Init
<1>2. ASSUME IInv, CacheInv, [Next]_vars
      PROVE  [Promise!Next]_<<[k \in cache |-> ll[At(k)].len], Older(ll), asked>>
  <2>0. Linked /\ Counted BY <1>2 DEF CacheInv
  <2>1. CASE UNCHANGED lruVars BY <2>1, CacheStutter
  <2>2. ASSUME NEW c \in Callers, NEW k \in Keys, CacheHit(c, k)
        PROVE  Promise!Next
    BY <2>0, <2>2, UseStep DEF CacheHit, Promise!Next
  <2>3. ASSUME NEW c \in Callers, NEW len \in Lens, GetterReturns(c, len)
        PROVE  Promise!Next
    <3>1. key[c] \in Keys
      BY <1>2, <2>3 DEF GetterReturns, Goto, IInv, FlightInv
    <3>2. Add(key[c], len) BY <2>3 DEF GetterReturns, AddToCache
    <3>3. PICK k \in Keys : Add(k, len) BY <3>1, <3>2
    <3>4. Promise!Put(k, len) BY <2>0, <3>3, PutStep
    <3>5. QED BY <3>4 DEF Promise!Next
  <2>4. QED
    BY <1>2, <2>1, <2>2, <2>3
    DEF Next, Step, vars, CacheMiss, Leave, Join, Lead, Wake, PeerFails,
        PeerAnswers, GetterFails, Publish, Delete
<1>3. QED
  BY CacheInvariance, <1>1, <1>2, PTL
  DEF Spec, ImplementsLruSpec, Promise!Spec, Older

==============================================================================
