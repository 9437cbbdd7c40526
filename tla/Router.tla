-------------------------------- MODULE Router -------------------------------
(***************************************************************************)
(* aoiweb/trie.go and router.go: the routes of one request method.  A      *)
(* pattern or a path is, as it is written, the sequence of what follows    *)
(* each '/', empty or a part, and for the router the sequence of its       *)
(* parts; of a part only its kind matters.  A node of the trie is named by *)
(* the parts that lead to it.  Patterns with the same parts share a node,  *)
(* and the last of them answers for all: so a pattern is known by its      *)
(* parts, and owner says who registered the last one.                      *)
(***************************************************************************)
EXTENDS Naturals, SequencesExt, FiniteSetsExt

CONSTANTS
  Static,     \* the parts that only match themselves
  Params,     \* parts that begin with ':'
  Stars,      \* parts that begin with '*'; no other part contains one
  Empty,      \* no part: between two slashes, or behind the last
  None        \* no pattern: the empty string of a node that is no leaf

Parts == Static \cup Params \cup Stars

\* What may follow a '/'.
Segments == Parts \cup {Empty}

ASSUME RouterAssumption ==
  /\ Static \cap (Params \cup Stars) = {} /\ Params \cap Stars = {}
  /\ Empty \notin Parts /\ None \notin Seq(Parts)

VARIABLES
  kids,       \* node.children of each node, as their parts
  leaf,       \* node.pattern of each node
  owner,      \* router.handlers: who registered the handler of a pattern
  routes      \* the patterns in the order of their registration (history)

routerVars == <<kids, leaf, owner, routes>>

\* parsePattern sees one more segment: it leaves out an empty one, and stops
\* behind a '*'.
Parsed(parts, segment) ==
  IF segment = Empty \/ (parts # <<>> /\ Last(parts) \in Stars)
  THEN parts ELSE Append(parts, segment)

PartsOf(raw) ==
  LET at[i \in 0 .. Len(raw)] ==
        IF i = 0 THEN <<>> ELSE Parsed(at[i - 1], raw[i])
  IN  at[Len(raw)]

Wild(part) == part \in Params \cup Stars

RouterInit ==
  /\ kids = [n \in {<<>>} |-> <<>>] /\ leaf = [n \in {<<>>} |-> None]
  /\ owner = [p \in {} |-> 0] /\ routes = <<>>

Kids(n) == IF n \in DOMAIN kids THEN kids[n] ELSE <<>>

Match(child, part) == child = part \/ Wild(child)

\* The child of n that insert goes on with: the first match, or a new one.
MatchChild(n, part) ==
  LET m == {i \in DOMAIN Kids(n) : Match(Kids(n)[i], part)}
  IN IF m = {} THEN part ELSE Kids(n)[Min(m)]

\* The node that insert comes to with the first m parts of the pattern p.
Reached(p, m) ==
  LET at[i \in 0 .. m] ==
        IF i = 0 THEN <<>> ELSE Append(at[i - 1], MatchChild(at[i - 1], p[i]))
  IN  at[m]

\* Fault: insert ends one part too early.
PlaceShort(p) == Reached(p, IF p = <<>> THEN 0 ELSE Len(p) - 1)

\* The node at which insert leaves the pattern p.
Place(p) == Reached(p, Len(p))

\* Fault: a new child comes first.
InFront(children, part) == <<part>> \o children

NewKid(children, part) == Append(children, part)

AddRoute(p, who) ==
  LET place == Place(p)
      Next(n) == place[Len(n) + 1]
      OnWay(n) == IsStrictPrefix(n, place)
  IN /\ kids' = [n \in DOMAIN kids \cup Prefixes(place) |->
                   IF OnWay(n) /\ ~Contains(Kids(n), Next(n))
                   THEN NewKid(Kids(n), Next(n)) ELSE Kids(n)]
     /\ leaf' = [n \in DOMAIN kids' |->
                   IF n = place THEN p
                   ELSE IF n \in DOMAIN leaf THEN leaf[n] ELSE None]
     /\ owner' = [q \in DOMAIN owner \cup {p} |-> IF q = p THEN who ELSE owner[q]]
     /\ routes' = Append(routes, p)

\* search is over at the last part, and below a '*' there is nothing to do.
AtEnd(n, path) == Len(n) = Len(path) \/ (n # <<>> /\ Last(n) \in Stars)

\* Fault: search does not come back from the first child that matches.
FoundFirst(path) ==
  LET s[n \in DOMAIN kids] ==
        LET m == {i \in DOMAIN kids[n] : Match(kids[n][i], path[Len(n) + 1])}
        IN IF AtEnd(n, path) THEN leaf[n]
           ELSE IF m = {} THEN None ELSE s[Append(n, kids[n][Min(m)])]
  IN s[<<>>]

\* The pattern of the node that search finds for a path.
Found(path) ==
  LET s[n \in DOMAIN kids] ==
        LET hits == {i \in DOMAIN kids[n] :
                       /\ Match(kids[n][i], path[Len(n) + 1])
                       /\ s[Append(n, kids[n][i])] # None}
        IN IF AtEnd(n, path) THEN leaf[n]
           ELSE IF hits = {} THEN None ELSE s[Append(n, kids[n][Min(hits)])]
  IN s[<<>>]

------------------------------------------------------------------------------
(* What a router should do.                                                *)

\* The pattern p stands for the path.
Matches(p, path) ==
  /\ IF p # <<>> /\ Last(p) \in Stars THEN Len(path) >= Len(p)
     ELSE Len(path) = Len(p)
  /\ \A i \in DOMAIN p : Match(p[i], path[i])

\* p is the closer match: where they differ first, it is not wild.
Closer(p, q) ==
  \E i \in DOMAIN p \cap DOMAIN q :
    p[i] # q[i] /\ ~Wild(p[i]) /\ \A j \in 1 .. i - 1 : p[j] = q[j]

\* No route differs from an earlier one where that has a wild part: insert
\* would take it down the wild branch.
Orderly ==
  \A a, b \in DOMAIN routes : a < b =>
    ~\E i \in DOMAIN routes[a] \cap DOMAIN routes[b] :
       /\ Wild(routes[a][i]) /\ routes[a][i] # routes[b][i]
       /\ \A j \in 1 .. i - 1 : routes[a][j] = routes[b][j]

==============================================================================
