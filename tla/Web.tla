--------------------------------- MODULE Web ---------------------------------
(***************************************************************************)
(* aoiweb/aoi.go, group.go, context.go and recover.go over the router:     *)
(* groups with their middlewares, and a request that runs its chain of     *)
(* handlers.  Next calls nest: a handler of the chain may call Next, whose *)
(* loop shares Context.index with the loops around it.  The stack has one  *)
(* record for each Next that is active, with the handler it is running.    *)
(* A handler calls Next at most once.                                      *)
(*                                                                         *)
(* The prefix of a group is compared with the path as it is written, the   *)
(* router compares parts: "//a/b" is routed like "/a/b", but does not      *)
(* begin with "/a".                                                        *)
(***************************************************************************)
EXTENDS Router

CONSTANTS
  Begins,     \* pairs of segments, <<x, y>>: the string x begins with y
  Subs,       \* the argument of Group, as it is written
  Patterns,   \* the patterns given to Get and Post, as they are written
  Paths,      \* the paths of requests, as they are written
  MaxSetup    \* so many calls of Group, Use, Get and Post are made

Plain == Static \cup {Empty}

ASSUME WebAssumption ==
  /\ Begins \subseteq Plain \X Plain
  /\ \A x \in Plain : <<x, x>> \in Begins /\ <<x, Empty>> \in Begins
  /\ Subs \subseteq Seq(Segments) /\ Patterns \subseteq Seq(Segments)
  /\ Paths \subseteq Seq(Plain)
  /\ MaxSetup \in Nat

VARIABLES
  groups,     \* Engine.groups: prefix, middlewares and parent of each
  pc,         \* "idle", "serving" or "over"
  chain,      \* Context.handlers, by their kinds
  index,      \* Context.index, counted from 1
  stack,      \* the active calls of Next, the innermost last
  aborted,    \* a panic has left the chain
  ran,        \* the positions of the chain that were run (history)
  again       \* a position was run twice (history)

chainVars == <<pc, chain, index, stack, aborted, ran, again>>
vars == <<routerVars, groups, chainVars>>

Kinds == {"user", "recovery"}

TypeOK ==
  /\ DOMAIN leaf = DOMAIN kids
  /\ \A n \in DOMAIN kids :
       /\ IsInjective(kids[n])
       /\ {Append(n, kids[n][i]) : i \in DOMAIN kids[n]} =
            {m \in DOMAIN kids : m # <<>> /\ Front(m) = n}
       /\ leaf[n] # None => leaf[n] \in DOMAIN owner /\ Len(leaf[n]) = Len(n)
  /\ \A p \in DOMAIN owner : owner[p] \in DOMAIN groups /\ Contains(routes, p)
  /\ \A g \in DOMAIN groups :
       /\ groups[g].prefix \in Seq(Segments) /\ groups[g].uses \in Seq(Kinds)
       /\ groups[g].parent \in 0 .. g - 1
  /\ pc \in {"idle", "serving", "over"} /\ aborted \in BOOLEAN
  /\ chain \in Seq(Kinds) /\ ran \subseteq DOMAIN chain /\ again \in BOOLEAN
  /\ index \in 0 .. 2 * Len(chain) + 1
  /\ \A i \in DOMAIN stack :
       stack[i].pos \in ran /\ stack[i].called \in BOOLEAN

Init ==
  /\ RouterInit
  /\ groups = <<[prefix |-> <<>>, uses |-> <<>>, parent |-> 0]>>
  /\ pc = "idle" /\ chain = <<>> /\ index = 0 /\ stack = <<>>
  /\ aborted = FALSE /\ ran = {} /\ again = FALSE

------------------------------------------------------------------------------
(* Set-up.                                                                 *)

Uses == FoldSeq(LAMBDA r, sum : Len(r.uses) + sum, 0, groups)

\* The bound of the set-up.
SettingUp == pc = "idle" /\ Len(groups) - 1 + Uses + Len(routes) < MaxSetup

Group(g, sub) ==
  /\ SettingUp
  /\ groups' = Append(groups, [prefix |-> groups[g].prefix \o sub,
                               uses |-> <<>>, parent |-> g])
  /\ UNCHANGED <<routerVars, chainVars>>

Use(g, kind) ==
  /\ SettingUp
  /\ groups' = [groups EXCEPT ![g].uses = Append(@, kind)]
  /\ UNCHANGED <<routerVars, chainVars>>

\* A pattern that is the empty string is left out: it is the mark of a node
\* without a pattern.
Register(g, suffix) ==
  LET pattern == groups[g].prefix \o suffix IN
  /\ SettingUp /\ pattern # <<>>
  /\ AddRoute(PartsOf(pattern), g)
  /\ UNCHANGED <<groups, chainVars>>

------------------------------------------------------------------------------
(* A request.                                                              *)

\* Fault: the path of the group itself does not count.
HasLongerPrefix(path, prefix) == IsStrictPrefix(prefix, path)

\* strings.HasPrefix of a path and the prefix of a group, as they are written.
HasPrefix(path, prefix) ==
  /\ Len(prefix) <= Len(path)
  /\ \A i \in DOMAIN prefix :
       IF i < Len(prefix) THEN path[i] = prefix[i]
       ELSE <<path[i], prefix[i]>> \in Begins

Middlewares(path) ==
  FlattenSeq([g \in DOMAIN groups |->
    IF HasPrefix(path, groups[g].prefix) THEN groups[g].uses ELSE <<>>])

\* The innermost Next of the rest of the stack goes on at position i, or the
\* chain is at its end: then it returns to the handler that called it.
GoOn(rest, i, n) ==
  /\ index' = i
  /\ stack' = IF i <= n THEN Append(rest, [pos |-> i, called |-> FALSE]) ELSE rest
  /\ ran' = IF i <= n THEN ran \cup {i} ELSE ran
  /\ again' = (again \/ i \in ran)
  /\ pc' = IF stack' = <<>> THEN "over" ELSE "serving"

\* Engine.ServeHTTP and router.handle; without a route the middlewares run.
Serve(path) ==
  LET handlers == Middlewares(path) \o
                    (IF Found(PartsOf(path)) = None THEN <<>> ELSE <<"user">>)
  IN /\ pc = "idle"
     /\ chain' = handlers
     /\ GoOn(<<>>, 1, Len(handlers))
     /\ UNCHANGED <<routerVars, groups, aborted>>

Kind(i) == chain[stack[i].pos]

\* The handler that runs calls Next.
CallNext ==
  LET top == Len(stack) IN
  /\ pc = "serving" /\ ~stack[top].called
  /\ GoOn([stack EXCEPT ![top].called = TRUE], index + 1, Len(chain))
  /\ UNCHANGED <<routerVars, groups, chain, aborted>>

\* Fault: the handlers behind Next are counted by each loop for itself.
OwnIndex(i) == stack[i].pos + 1

\* c.index++ of the loop whose handler, at place i of the stack, has returned.
NextIndex(i) == index + 1

HandlerReturns ==
  LET top == Len(stack) IN
  /\ pc = "serving"
  /\ Kind(top) = "recovery" => stack[top].called
  /\ GoOn(Front(stack), NextIndex(top), Len(chain))
  /\ UNCHANGED <<routerVars, groups, chain, aborted>>

\* Fault: after a recovered panic the loop runs the Recovery again.
SameHandler(i) == stack[i].pos

\* c.index++ of the loop that ran the Recovery, which is at place i.
IndexAfterPanic(i) == index + 1

\* The panic goes up to the closest Recovery, which returns to its loop ...
PanicRecovered ==
  LET at == {i \in 1 .. Len(stack) - 1 : Kind(i) = "recovery"} IN
  /\ pc = "serving" /\ Kind(Len(stack)) = "user" /\ at # {}
  /\ GoOn(SubSeq(stack, 1, Max(at) - 1), IndexAfterPanic(Max(at)), Len(chain))
  /\ UNCHANGED <<routerVars, groups, chain, aborted>>

\* ... or out of ServeHTTP.
PanicAborts ==
  /\ pc = "serving"
  /\ \A i \in DOMAIN stack : Kind(i) = "user"
  /\ stack' = <<>> /\ pc' = "over" /\ aborted' = TRUE
  /\ UNCHANGED <<routerVars, groups, chain, index, ran, again>>

\* The context is dropped.
Finish ==
  /\ pc = "over"
  /\ pc' = "idle" /\ chain' = <<>> /\ index' = 0
  /\ aborted' = FALSE /\ ran' = {} /\ again' = FALSE
  /\ UNCHANGED <<routerVars, groups, stack>>

Step == CallNext \/ HandlerReturns \/ PanicRecovered \/ PanicAborts

Next ==
  \/ \E g \in DOMAIN groups :
       \/ \E sub \in Subs : Group(g, sub)
       \/ \E kind \in Kinds : Use(g, kind)
       \/ \E suffix \in Patterns : Register(g, suffix)
  \/ \E path \in Paths : Serve(path)
  \/ Step \/ Finish

Spec == Init /\ [][Next]_vars

\* A handler ends: it returns or panics.
FairSpec == Spec /\ WF_vars(Step)

------------------------------------------------------------------------------
(* Properties.                                                             *)

Requested == {PartsOf(path) : path \in Paths}

\* trie.go:33-51, 53-73, for any order of registration: a path for which a
\* pattern without '*' was registered is never answered by 404.  insert may
\* take a pattern down a wild branch and search has to come back from others.
NeverLost ==
  pc = "idle" => \A p \in DOMAIN owner : \A parts \in Requested :
    Matches(p, parts) /\ (p = <<>> \/ Last(p) \notin Stars) =>
      Found(parts) # None

\* trie.go:33-73: when no route is registered behind a wild one it differs
\* from, search finds the closest match of all the routes, and a route
\* exactly when one matches, those with '*' included.
RoutedRight ==
  pc = "idle" /\ Orderly => \A parts \in Requested :
    LET all == {p \in DOMAIN owner : Matches(p, parts)} IN
    IF all = {} THEN Found(parts) = None
    ELSE /\ Found(parts) \in all
         /\ \A q \in all \ {Found(parts)} : Closer(Found(parts), q)

\* g and the groups it was made from.
Lineage(g) ==
  LET up[h \in 0 .. Len(groups)] ==
        IF h = 0 THEN {} ELSE {h} \cup up[groups[h].parent]
  IN up[g]

\* The prefix has static parts only, and the path is written without an empty
\* part as far as the prefix goes.
Comparable(path, prefix) ==
  /\ ToSet(prefix) \subseteq Static
  /\ \A i \in DOMAIN prefix \cap DOMAIN path : path[i] # Empty

\* aoi.go:23-29, group.go:17-41: with such routes, whichever path leads to a
\* handler, the middlewares of its group and of the groups around it run, as
\* far as their prefixes are static and not broken by an empty part of the
\* path: of those the router and the comparison of prefixes think otherwise.
GroupGuarded ==
  pc = "idle" /\ Orderly => \A path \in Paths :
    LET p == Found(PartsOf(path)) IN
    p # None => \A g \in Lineage(owner[p]) :
      Comparable(path, groups[g].prefix) => HasPrefix(path, groups[g].prefix)

\* context.go:102-108: whichever handlers call Next, return without it or
\* panic, the handlers are run in their order, none of them twice, and each
\* of them when the request is over without a panic that nobody recovered.
ChainComplete ==
  /\ ~again /\ ran = 1 .. Cardinality(ran)
  /\ pc = "over" /\ ~aborted => ran = DOMAIN chain

\* context.go:102-108, recover.go:12-22: a request ends when its handlers do,
\* also when they panic again and again.
RequestEnds == pc = "serving" ~> pc = "over"

==============================================================================
