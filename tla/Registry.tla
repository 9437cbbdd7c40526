------------------------------ MODULE Registry -------------------------------
(***************************************************************************)
(* aoirpc/registry/registry.go and the discovery side of it,               *)
(* aoirpc/xclient/discovery.go and discovery_aoi.go: servers that send     *)
(* heartbeats, the registry that forgets those it has not heard of, and    *)
(* one client that caches the registry's list and takes turns on it.       *)
(*                                                                         *)
(* Time passes in steps.  A time stamp is kept as its age, which stops     *)
(* counting where the code makes no difference any more.  The POST of a    *)
(* heartbeat and the GET of the list are under way for at most Latency,    *)
(* which is a promise of the network: the code sets no limit.  Each of     *)
(* them may fail at any time, whether or not it reached the registry, and  *)
(* a POST may reach it after its sender failed or stopped.                 *)
(***************************************************************************)
EXTENDS Naturals, Sequences, FiniteSets, SequencesExt

CONSTANTS
  Addrs,      \* addresses of servers, ordered as numbers (sort.Strings)
  Timeout,    \* AoiRegister.timeout, 0 for never
  Period,     \* the duration given to Heartbeat
  TTL,        \* AoiRegistryDiscovery.timeout
  Latency,    \* how long a POST or a GET is under way at most
  MaxStarts   \* bound: how often server processes are started

\* The longest time between two heartbeats that reach the registry: the first
\* ticker is made when the first POST is back, and the next POST takes time.
Gap == Period + 2 * Latency

ASSUME RegistryAssumption ==
  /\ Addrs \subseteq Nat /\ IsFiniteSet(Addrs)
  /\ Timeout \in Nat /\ Period \in Nat \ {0} /\ TTL \in Nat \ {0}
  /\ Latency \in Nat /\ MaxStarts \in Nat
  /\ Timeout # 0 => Gap < Timeout         \* the default: 4 of 5 minutes

VARIABLES
  up,         \* the server processes that run
  starts,     \* how many were started
  beat,       \* where the heartbeat of each server is
  due,        \* time until the next tick of its ticker
  ticked,     \* a tick waits in the channel of the ticker
  sent,       \* how long ago the POST under way was sent
  arrived,    \* that POST has reached the registry
  late,       \* POSTs under way whose sender failed or stopped
  gone,       \* how long ago each server stopped, 0 while it runs
  items,      \* AoiRegister.servers: its keys
  age,        \* the age of the start of each item
  heard,      \* those whose heartbeat reached this registry, and goes on
  get,        \* where Get of the client is
  asked,      \* how long ago its GET was sent
  got,        \* the addresses in the answer on its way back
  servers,    \* MultiServerDiscovery.servers
  index,      \* MultiServerDiscovery.index
  updated,    \* the age of lastUpdate
  byUser,     \* the list was given by Update (history)
  turns       \* how often each server was chosen from this list (history)

lifeVars   == <<up, starts>>
beatVars   == <<beat, due, ticked, sent, arrived>>
serverVars == <<lifeVars, beatVars, late, gone>>
regVars    == <<items, age, heard>>
getVars    == <<get, asked, got>>
listVars   == <<servers, updated, byUser>>
pickVars   == <<index, turns>>
vars == <<serverVars, regVars, getVars, listVars, pickVars>>

\* The longest time that a server which stopped may stay in a fetched list
\* that is n old: its last POST and the answer to the GET take their time.
Memory(n) == Timeout + 2 * Latency + n

\* Where gone stops counting: no list is in use longer than TTL.
GoneMax == Memory(TTL)

TypeOK ==
  /\ up \subseteq Addrs /\ starts \in 0 .. MaxStarts
  /\ beat \in [Addrs -> {"none", "first", "wait", "post"}]
  /\ due \in [Addrs -> 0 .. Period] /\ ticked \in [Addrs -> BOOLEAN]
  /\ sent \in [Addrs -> 0 .. Latency] /\ arrived \in [Addrs -> BOOLEAN]
  /\ late \subseteq Addrs \X (0 .. Latency)
  /\ gone \in [Addrs -> 0 .. GoneMax] /\ \A a \in up : gone[a] = 0
  /\ items \subseteq Addrs /\ age \in [Addrs -> 0 .. Timeout]
  /\ heard \subseteq up
  /\ get \in {"idle", "fetch", "answer", "pick"}
  /\ asked \in 0 .. Latency /\ got \subseteq Addrs
  /\ servers \in Seq(Addrs) /\ index \in 0 .. Cardinality(Addrs)
  /\ updated \in 0 .. TTL /\ byUser \in BOOLEAN
  /\ turns \in [Addrs -> Nat]

Zero == [a \in Addrs |-> 0]
Never == [a \in Addrs |-> FALSE]

Init ==
  /\ up = {} /\ starts = 0 /\ beat = [a \in Addrs |-> "none"]
  /\ due = Zero /\ ticked = Never /\ sent = Zero /\ arrived = Never
  /\ late = {} /\ gone = [a \in Addrs |-> GoneMax]
  /\ items = {} /\ age = Zero /\ heard = {}
  /\ get = "idle" /\ asked = 0 /\ got = {}
  /\ servers = <<>> /\ updated = TTL /\ byUser = FALSE
  /\ index \in 0 .. Cardinality(Addrs) /\ turns = Zero

------------------------------------------------------------------------------
(* Heartbeats.                                                             *)

\* Fault: the start of an item that is there is not renewed.
NewStart(a) == IF a \in items THEN age ELSE [age EXCEPT ![a] = 0]

\* A new item, or a new start for the one that is there.
Renewed(a) == [age EXCEPT ![a] = 0]

\* putServer
Put(a) ==
  /\ items' = items \cup {a}
  /\ age' = Renewed(a)

\* sendHeartbeat has a POST under way.
Posting(a) == beat[a] \in {"first", "post"}

\* The POST of a is sent.
Sends(a, state) ==
  /\ beat' = [beat EXCEPT ![a] = state]
  /\ sent' = [sent EXCEPT ![a] = 0] /\ arrived' = [arrived EXCEPT ![a] = FALSE]

\* Heartbeat: the first beat is sent before the ticker is made.
Start(a) ==
  /\ a \notin up /\ starts < MaxStarts
  /\ starts' = starts + 1
  /\ up' = up \cup {a} /\ gone' = [gone EXCEPT ![a] = 0]
  /\ Sends(a, "first")
  /\ UNCHANGED <<due, ticked, late, regVars, getVars, listVars, pickVars>>

\* The registry handles the POST.
Arrive(a) ==
  /\ Posting(a) /\ ~arrived[a]
  /\ arrived' = [arrived EXCEPT ![a] = TRUE]
  /\ Put(a)
  /\ heard' = heard \cup {a}
  /\ UNCHANGED <<lifeVars, beat, due, ticked, sent, late, gone, getVars,
                 listVars, pickVars>>

\* Nobody waits for this one any more.
ArriveLate(m) ==
  /\ late' = late \ {m}
  /\ Put(m[1])
  /\ UNCHANGED <<lifeVars, beatVars, gone, heard, getVars, listVars,
                 pickVars>>

\* sendHeartbeat returns without an error.
Returns(a, from) ==
  /\ beat[a] = from /\ arrived[a]
  /\ beat' = [beat EXCEPT ![a] = "wait"]
  /\ sent' = [sent EXCEPT ![a] = 0] /\ arrived' = [arrived EXCEPT ![a] = FALSE]

\* The first POST is back: the goroutine makes its ticker.
FirstBack(a) ==
  /\ Returns(a, "first")
  /\ due' = [due EXCEPT ![a] = Period]
  /\ UNCHANGED <<lifeVars, ticked, late, gone, regVars, getVars, listVars,
                 pickVars>>

\* A later one is back; the ticker has gone on meanwhile.
PostBack(a) ==
  /\ Returns(a, "post")
  /\ UNCHANGED <<lifeVars, due, ticked, late, gone, regVars, getVars,
                 listVars, pickVars>>

\* The ticker's case of the loop of Heartbeat.
Beat(a) ==
  /\ beat[a] = "wait" /\ ticked[a]
  /\ ticked' = [ticked EXCEPT ![a] = FALSE]
  /\ Sends(a, "post")
  /\ UNCHANGED <<lifeVars, due, late, gone, regVars, getVars, listVars,
                 pickVars>>

\* The heartbeat of a ends; a POST that has not arrived still may.
EndBeat(a) ==
  /\ late' = IF Posting(a) /\ ~arrived[a]
             THEN late \cup {<<a, sent[a]>>} ELSE late
  /\ beat' = [beat EXCEPT ![a] = "none"]
  /\ due' = [due EXCEPT ![a] = 0] /\ ticked' = [ticked EXCEPT ![a] = FALSE]
  /\ sent' = [sent EXCEPT ![a] = 0] /\ arrived' = [arrived EXCEPT ![a] = FALSE]
  /\ heard' = heard \ {a}

\* sendHeartbeat returns an error: the loop ends and the server runs on.
PostFails(a) ==
  /\ Posting(a)
  /\ EndBeat(a)
  /\ UNCHANGED <<lifeVars, gone, items, age, getVars, listVars, pickVars>>

\* The server process ends.
Stop(a) ==
  /\ a \in up
  /\ up' = up \ {a}
  /\ EndBeat(a)
  /\ UNCHANGED <<starts, gone, items, age, getVars, listVars, pickVars>>

------------------------------------------------------------------------------
(* The registry.                                                           *)

\* New: the registry is started anew, with an empty map.
RegistryRestarts ==
  /\ items' = {} /\ age' = Zero /\ heard' = {}
  /\ UNCHANGED <<serverVars, getVars, listVars, pickVars>>

\* Fault: the age of an item is not looked at.
AliveAnyway(a) == TRUE

\* start.Add(timeout).After(now), 0 for no limit.
IsAlive(a) == Timeout = 0 \/ age[a] < Timeout

Alive == {a \in items : IsAlive(a)}

\* Fault: the keys in the order the map yields them.
InAnyOrder(l) == IsInjective(l)

\* sort.Strings has put them in order.
InOrder(l) == \A i, j \in DOMAIN l : i < j => l[i] < l[j]

\* The addresses in S as one list (the only one, when it is ordered).
Listings(S) == {l \in [1 .. Cardinality(S) -> S] : InOrder(l)}

------------------------------------------------------------------------------
(* Discovery.                                                              *)

\* The turns count from the last list of the user, or the last change of the
\* set of servers that the registry lists.
Recount ==
  turns' = IF ~byUser /\ ToSet(servers') = ToSet(servers) THEN turns ELSE Zero

Fresh == updated < TTL

\* Refresh does nothing while the list is fresh; the lock is released before
\* the server is chosen.
RefreshFresh ==
  /\ get = "idle" /\ Fresh
  /\ get' = "pick"
  /\ UNCHANGED <<serverVars, regVars, asked, got, listVars, pickVars>>

\* http.Get is sent, with d.mu held until Refresh returns.
RefreshAsk ==
  /\ get = "idle" /\ ~Fresh
  /\ get' = "fetch" /\ asked' = 0
  /\ UNCHANGED <<serverVars, regVars, got, listVars, pickVars>>

\* The registry handles the GET: aliveServers deletes the expired items.
RegistryLists ==
  /\ get = "fetch"
  /\ get' = "answer" /\ got' = Alive
  /\ items' = Alive
  /\ age' = [a \in Addrs |-> IF a \in Alive THEN age[a] ELSE 0]
  /\ UNCHANGED <<serverVars, heard, asked, listVars, pickVars>>

\* The answer is there: the list is replaced and stamped.
RefreshStore ==
  /\ get = "answer"
  /\ servers' \in Listings(got) /\ updated' = 0 /\ byUser' = FALSE
  /\ Recount
  /\ get' = "pick" /\ asked' = 0 /\ got' = {}
  /\ UNCHANGED <<serverVars, regVars, index>>

\* Get returns the error, whatever list it still has.
RefreshFails ==
  /\ get \in {"fetch", "answer"}
  /\ get' = "idle" /\ asked' = 0 /\ got' = {}
  /\ UNCHANGED <<serverVars, regVars, listVars, pickVars>>

\* Update by the user, in any order, at any time that d.mu is free.
Update(S) ==
  /\ get \in {"idle", "pick"}
  /\ servers' \in {l \in [1 .. Cardinality(S) -> S] : IsInjective(l)}
  /\ updated' = 0 /\ byUser' = TRUE
  /\ turns' = Zero
  /\ UNCHANGED <<serverVars, regVars, getVars, index>>

\* Counts are kept small: one that all servers of the list have is dropped.
Relative(t) ==
  IF \A a \in ToSet(servers) : t[a] > 0
  THEN [a \in Addrs |-> IF a \in ToSet(servers) THEN t[a] - 1 ELSE t[a]]
  ELSE t

\* Fault: index is not reduced.
NextUnbounded == index + 1

\* (m.index + 1) % length
NextIndex == (index + 1) % Len(servers)

\* MultiServerDiscovery.Get in RoundRobinMode.
PickRoundRobin ==
  /\ get = "pick" /\ servers # <<>>
  /\ LET s == servers[(index % Len(servers)) + 1] IN
       turns' = Relative([turns EXCEPT ![s] = @ + 1])
  /\ index' = NextIndex
  /\ get' = "idle"
  /\ UNCHANGED <<serverVars, regVars, asked, got, listVars>>

PickNone ==
  /\ get = "pick" /\ servers = <<>>
  /\ get' = "idle"
  /\ UNCHANGED <<serverVars, regVars, asked, got, listVars, pickVars>>

------------------------------------------------------------------------------
(* Time.                                                                   *)

Older(n, max) == IF n < max THEN n + 1 ELSE max

\* No exchange takes longer than Latency, and a tick is taken at once by a
\* loop that waits for it.
MayPass ==
  /\ \A a \in Addrs :
       /\ Posting(a) => sent[a] < Latency
       /\ beat[a] = "wait" => ~ticked[a]
  /\ get \in {"fetch", "answer"} => asked < Latency

\* The ticker of a is running.
Ticks(a) == beat[a] \in {"wait", "post"}

\* One step of time.  A tick that finds one in the channel is dropped, and a
\* POST that nobody waits for is lost when its time is over.
Tick ==
  /\ MayPass
  /\ due' = [a \in Addrs |->
       IF ~Ticks(a) THEN due[a] ELSE IF due[a] = 1 THEN Period ELSE due[a] - 1]
  /\ ticked' = [a \in Addrs |-> ticked[a] \/ (Ticks(a) /\ due[a] = 1)]
  /\ sent' = [a \in Addrs |-> IF Posting(a) THEN sent[a] + 1 ELSE sent[a]]
  /\ late' = {<<m[1], m[2] + 1>> : m \in {m \in late : m[2] < Latency}}
  /\ gone' = [a \in Addrs |-> IF a \in up THEN 0 ELSE Older(gone[a], GoneMax)]
  /\ age' = [a \in Addrs |->
       IF a \in items THEN Older(age[a], Timeout) ELSE age[a]]
  /\ asked' = IF get \in {"fetch", "answer"} THEN asked + 1 ELSE asked
  /\ updated' = Older(updated, TTL)
  /\ UNCHANGED <<lifeVars, beat, arrived, items, heard, get, got, servers,
                 byUser, pickVars>>

Server(a) ==
  \/ Start(a) \/ Arrive(a) \/ FirstBack(a) \/ PostBack(a) \/ Beat(a)
  \/ PostFails(a) \/ Stop(a)

Client ==
  \/ RefreshFresh \/ RefreshAsk \/ RegistryLists \/ RefreshStore
  \/ RefreshFails \/ PickRoundRobin \/ PickNone

Next ==
  \/ \E a \in Addrs : Server(a)
  \/ \E m \in late : ArriveLate(m)
  \/ RegistryRestarts
  \/ Client
  \/ \E S \in SUBSET Addrs : Update(S)
  \/ Tick

Spec == Init /\ [][Next]_vars

------------------------------------------------------------------------------
(* Properties.                                                             *)

\* registry.go:58, 107-123: once its heartbeat has reached the registry that
\* runs, a server is listed as long as no heartbeat fails: the period and the
\* time two POSTs take are shorter than the timeout, so that its item never
\* expires in between, however late each of them arrives.
BeatingListed == heard \subseteq Alive

\* registry.go:53-66, discovery_aoi.go:43-68: while Get uses a list of the
\* registry without asking, a server in it stopped less than the timeout of
\* the registry, the time its last POST and the answer took, and the age of
\* the list ago.
StaleBounded ==
  Fresh /\ ~byUser /\ Timeout # 0 =>
    \A a \in ToSet(servers) : gone[a] < Memory(updated)

\* discovery.go:55-58, registry.go:64: while the list is the user's, or its
\* servers are the same ones over refreshes, round robin chooses them evenly.
EvenTurns ==
  \A a, b \in ToSet(servers) : turns[a] <= turns[b] + 1

==============================================================================
