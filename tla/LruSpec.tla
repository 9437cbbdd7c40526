------------------------------- MODULE LruSpec -------------------------------
(***************************************************************************)
(* What aoicache/lru promises its user (lru.go:39, 50, 64-67): a set of    *)
(* entries within a budget of bytes, from which exactly as many of the     *)
(* least recently used ones are missing as the budget demands.             *)
(***************************************************************************)
EXTENDS Naturals, FiniteSets, FiniteSetsExt, Functions

CONSTANTS Keys, KeyLen, Lens, MaxBytes

VARIABLES
  held,     \* the length of the value of each key that is held
  older,    \* <<a, b>>: key a was used before key b
  asked     \* the key of the last successful Get or Add

\* The bytes of the entries S of a function h from keys to lengths.
Bytes(h, S) == MapThenSumSet(LAMBDA k : KeyLen[k] + h[k], S)

Fits(h, S) == MaxBytes = 0 \/ Bytes(h, S) <= MaxBytes

\* The order of the keys S after a use of k.
Used(k, S) ==
  {p \in older : p[1] # k /\ p[2] # k} \cup {<<x, k>> : x \in S \ {k}}

\* With an entry it keeps, S keeps every entry used after it.
Recent(S, order) == \A p \in order : p[1] \in S => p[2] \in S

Init == held = [k \in {} |-> 0] /\ older = {} /\ asked = {}

Use(k) ==
  /\ k \in DOMAIN held
  /\ older' = Used(k, DOMAIN held)
  /\ asked' = {k}
  /\ UNCHANGED held

Put(k, len) ==
  LET h == [x \in DOMAIN held \cup {k} |-> IF x = k THEN len ELSE held[x]]
      order == Used(k, DOMAIN h)
      Keep(S) == Recent(S, order) /\ Fits(h, S)
  IN /\ \E S \in SUBSET DOMAIN h :
          /\ Keep(S)
          /\ \A T \in SUBSET DOMAIN h : Keep(T) => ~(S \subseteq T /\ S # T)
          /\ held' = Restrict(h, S)
          /\ older' = order \cap (S \X S)
     /\ asked' = {k}

Next == \E k \in Keys : Use(k) \/ \E len \in Lens : Put(k, len)

Spec == Init /\ [][Next]_<<held, older, asked>>

==============================================================================
