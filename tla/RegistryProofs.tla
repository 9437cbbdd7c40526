--------------------------- MODULE RegistryProofs ----------------------------
(***************************************************************************)
(* Theorems about Registry, for any set of addresses and any durations     *)
(* that its assumption admits.                                             *)
(*                                                                         *)
(* The item of a server that was heard is never older than the period and  *)
(* the time of two POSTs (BeatInv), so it cannot reach the timeout.  And   *)
(* what is under way or stored is never much younger than the silence of   *)
(* its server: a late POST (LateInv), an item (SilenceInv) and an answer   *)
(* (AnswerInv); so silence ends the listing.                               *)
(***************************************************************************)
EXTENDS Registry, SequenceTheorems, FiniteSetTheorems, WellFoundedInduction, TLAPS

\* The type invariant in parts; only servers that run send heartbeats, and a
\* ticker that runs has time left.
ServerType ==
  /\ up \subseteq Addrs /\ heard \subseteq up
  /\ starts \in 0 .. MaxStarts
  /\ beat \in [Addrs -> {"none", "first", "wait", "post"}]
  /\ due \in [Addrs -> 0 .. Period] /\ ticked \in [Addrs -> BOOLEAN]
  /\ sent \in [Addrs -> 0 .. Latency] /\ arrived \in [Addrs -> BOOLEAN]
  /\ \A a \in Addrs : beat[a] # "none" => a \in up
  /\ \A a \in Addrs : Ticks(a) => due[a] \in 1 .. Period
SilenceType ==
  /\ late \subseteq Addrs \X (0 .. Latency)
  /\ gone \in [Addrs -> 0 .. GoneMax] /\ \A a \in up : gone[a] = 0
RegType == items \subseteq Addrs /\ age \in [Addrs -> 0 .. Timeout]
GetType ==
  /\ get \in {"idle", "fetch", "answer", "pick"}
  /\ asked \in 0 .. Latency /\ got \subseteq Addrs
\* The list has no more entries than there are addresses.
ListType ==
  /\ servers \in Seq(Addrs) /\ Len(servers) <= Cardinality(Addrs)
  /\ updated \in 0 .. TTL /\ byUser \in BOOLEAN
PickType == index \in 0 .. Cardinality(Addrs) /\ turns \in [Addrs -> Nat]

\* How old the item of a may be, by what the heartbeat of a is at.
BeatOf(a) ==
  /\ a \in items /\ beat[a] # "none"
  /\ beat[a] = "first" => arrived[a]
  /\ beat[a] = "wait" => age[a] <= Period + Latency
  /\ beat[a] = "wait" /\ ~ticked[a] => age[a] + due[a] <= Period + Latency
  /\ Posting(a) /\ arrived[a] => age[a] <= sent[a]
  /\ beat[a] = "post" => age[a] <= Period + Latency + sent[a]
BeatInv == \A a \in heard : BeatOf(a)

\* A server sent its last heartbeat before it stopped.
LateInv == \A m \in late : gone[m[1]] <= m[2]
SilenceInv == \A a \in items : age[a] < Timeout => gone[a] <= age[a] + Latency
AnswerInv ==
  get = "answer" /\ Timeout # 0 =>
    \A a \in got : gone[a] < Timeout + Latency + asked

IInv ==
  /\ ServerType /\ SilenceType /\ RegType /\ GetType /\ ListType /\ PickType
  /\ BeatInv /\ LateInv /\ SilenceInv /\ AnswerInv /\ StaleBounded

------------------------------------------------------------------------------
\* What the steps need of the assumption: the durations are numbers.
LEMMA Durations ==
  /\ Timeout \in Nat /\ Period \in Nat \ {0} /\ TTL \in Nat \ {0}
  /\ Latency \in Nat /\ MaxStarts \in Nat
  /\ (Timeout # 0 => Period + 2 * Latency < Timeout)
  /\ GoneMax \in Nat
  BY RegistryAssumption DEF Gap, GoneMax, Memory

(* The step lemmas unfold these tuples of unchanged variables.             *)
USE Durations DEF vars, serverVars, lifeVars, beatVars, regVars, getVars,
  listVars, pickVars

\* A listing of addresses is a sequence of addresses, and not a longer one.
LEMMA ListingTyped ==
  ASSUME NEW S \in SUBSET Addrs, NEW l \in [1 .. Cardinality(S) -> S]
  PROVE  /\ l \in Seq(Addrs) /\ Len(l) <= Cardinality(Addrs)
         /\ ToSet(l) \subseteq S
<1>1. Cardinality(S) \in Nat /\ Cardinality(S) <= Cardinality(Addrs)
  BY RegistryAssumption, FS_Subset, FS_CardinalityType
<1>2. l \in Seq(S)
  BY <1>1, SeqDef
<1>3. l \in Seq(Addrs)
  BY <1>2, SeqMonotonic
<1>4. Len(l) = Cardinality(S)
  BY <1>1, <1>2, LenProperties
<1>5. ToSet(l) \subseteq S
  BY DEF ToSet
<1> QED
  BY <1>1, <1>3, <1>4, <1>5

\* The servers of the list are addresses.
LEMMA ListedAddrs == servers \in Seq(Addrs) => ToSet(servers) \subseteq Addrs
  BY LenProperties DEF ToSet

\* The counts keep their type when they are made small.
LEMMA RelativeTyped ==
  ASSUME NEW t \in [Addrs -> Nat] PROVE Relative(t) \in [Addrs -> Nat]
  BY DEF Relative

\* IInv holds initially.
LEMMA IInvInit == Init => IInv
<1> SUFFICES ASSUME Init PROVE IInv
  OBVIOUS
<1>1. servers \in Seq(Addrs) /\ Len(servers) = 0 /\ ToSet(servers) = {}
  BY EmptySeq DEF Init, ToSet
<1>2. Cardinality(Addrs) \in Nat
  BY RegistryAssumption, FS_CardinalityType
<1>3. ServerType
  BY DEF Init, Zero, Never, ServerType, Ticks
<1>4. SilenceType /\ RegType /\ GetType
  BY DEF Init, Zero, SilenceType, RegType, GetType
<1>5. ListType
  <2>1. updated \in 0 .. TTL
    BY DEF Init
  <2>2. byUser \in BOOLEAN
    BY DEF Init
  <2> QED
    BY <1>1, <1>2, <2>1, <2>2 DEF ListType
<1>6. PickType
  BY DEF Init, Zero, PickType
<1>7. BeatInv /\ LateInv /\ SilenceInv /\ AnswerInv
  BY DEF Init, BeatInv, LateInv, SilenceInv, AnswerInv
<1>8. StaleBounded
  BY <1>1 DEF StaleBounded
<1> QED
  BY <1>3, <1>4, <1>5, <1>6, <1>7, <1>8 DEF IInv

\* An item of a server that was heard has not expired.
LEMMA HeardAlive == IInv => heard \subseteq Alive
<1> SUFFICES ASSUME IInv, NEW a \in heard PROVE a \in Alive
  OBVIOUS
<1>1. a \in Addrs /\ beat[a] \in {"none", "first", "wait", "post"}
  BY DEF IInv, ServerType
<1>2. BeatOf(a)
  BY DEF IInv, BeatInv
<1>3. sent[a] \in 0 .. Latency /\ age[a] \in 0 .. Timeout
  BY <1>1 DEF IInv, ServerType, RegType
<1>4. age[a] <= Period + 2 * Latency
  BY <1>1, <1>2, <1>3 DEF BeatOf, Posting
<1>5. Timeout = 0 \/ age[a] < Timeout
  BY <1>3, <1>4
<1> QED
  BY <1>2, <1>5 DEF BeatOf, Alive, IsAlive

------------------------------------------------------------------------------
\* The silence of nobody gets longer by the step of a server.
LEMMA SilenceKept ==
  ASSUME IInv, SilenceType', UNCHANGED <<getVars, listVars>>,
         \A b \in Addrs : gone'[b] = gone[b] \/ gone'[b] = 0
  PROVE  AnswerInv' /\ StaleBounded'
<1>1. \A b \in Addrs : gone[b] \in Nat /\ gone'[b] \in Nat /\ gone'[b] <= gone[b]
  BY DEF IInv, SilenceType
<1>2. got \subseteq Addrs /\ ToSet(servers) \subseteq Addrs
  BY ListedAddrs DEF IInv, GetType, ListType
<1>3. asked \in Nat /\ updated \in Nat
  BY DEF IInv, GetType, ListType
<1>4. AnswerInv'
  BY <1>1, <1>2, <1>3 DEF IInv, AnswerInv
<1>5. StaleBounded'
  BY <1>1, <1>2, <1>3 DEF IInv, StaleBounded, Fresh, Memory
<1> QED
  BY <1>4, <1>5

\* The start of a server keeps IInv.
LEMMA StartStep ==
  ASSUME IInv, NEW a \in Addrs, Start(a) PROVE IInv'
<1>1. ServerType' /\ SilenceType'
  BY DEF IInv, ServerType, SilenceType, Start, Sends, Ticks
<1>2. RegType' /\ GetType' /\ ListType' /\ PickType'
  BY DEF IInv, RegType, GetType, ListType, PickType, Start
<1>3. BeatInv'
  <2>1. a \notin heard
    BY DEF IInv, ServerType, Start
  <2> QED
    BY <2>1 DEF IInv, ServerType, BeatInv, BeatOf, Posting, Start, Sends
<1>4. LateInv' /\ SilenceInv'
  BY DEF IInv, SilenceType, RegType, LateInv, SilenceInv, Start
<1>5. AnswerInv' /\ StaleBounded'
  BY <1>1, SilenceKept DEF IInv, SilenceType, Start
<1> QED
  BY <1>1, <1>2, <1>3, <1>4, <1>5 DEF IInv

\* A heartbeat that reaches the registry keeps IInv.
LEMMA ArriveStep ==
  ASSUME IInv, NEW a \in Addrs, Arrive(a) PROVE IInv'
<1>1. ServerType' /\ SilenceType'
  BY DEF IInv, ServerType, SilenceType, Arrive, Posting, Ticks
<1>2. RegType' /\ GetType' /\ ListType' /\ PickType'
  BY DEF IInv, RegType, GetType, ListType, PickType, Arrive, Put, Renewed
<1>3. BeatInv'
  <2>1. ASSUME NEW b \in heard, b # a PROVE BeatOf(b)'
    BY <2>1 DEF IInv, ServerType, RegType, BeatInv, BeatOf, Posting, Arrive,
      Put, Renewed
  <2>2. BeatOf(a)'
    BY DEF IInv, ServerType, RegType, BeatOf, Posting, Arrive, Put, Renewed
  <2> QED
    BY <2>1, <2>2 DEF BeatInv, Arrive
<1>4. LateInv' /\ SilenceInv'
  <2>1. gone[a] = 0
    BY DEF IInv, ServerType, SilenceType, Arrive, Posting
  <2> QED
    BY <2>1 DEF IInv, RegType, LateInv, SilenceInv, Arrive, Put, Renewed
<1>5. AnswerInv' /\ StaleBounded'
  BY <1>1, SilenceKept DEF Arrive
<1> QED
  BY <1>1, <1>2, <1>3, <1>4, <1>5 DEF IInv

\* A late POST keeps IInv: its server has not been silent for longer.
LEMMA LateStep ==
  ASSUME IInv, NEW m \in late, ArriveLate(m) PROVE IInv'
<1>1. m[1] \in Addrs /\ m[2] \in 0 .. Latency /\ gone[m[1]] <= m[2]
  BY DEF IInv, SilenceType, LateInv
<1>2. ServerType' /\ SilenceType'
  BY DEF IInv, ServerType, SilenceType, ArriveLate, Ticks
<1>3. RegType' /\ GetType' /\ ListType' /\ PickType'
  BY <1>1 DEF IInv, RegType, GetType, ListType, PickType, ArriveLate, Put, Renewed
<1>4. BeatInv'
  <2> SUFFICES ASSUME NEW b \in heard PROVE BeatOf(b)'
    BY DEF BeatInv, ArriveLate
  <2>1. BeatOf(b) /\ b \in Addrs
    BY DEF IInv, BeatInv, ServerType
  <2>2. age'[b] \in Nat /\ age[b] \in Nat /\ age'[b] <= age[b]
    BY <1>1, <2>1 DEF IInv, RegType, ArriveLate, Put, Renewed
  <2>3. due[b] \in Nat /\ sent[b] \in Nat
    BY <2>1 DEF IInv, ServerType
  <2> QED
    BY <2>1, <2>2, <2>3 DEF BeatOf, Posting, ArriveLate, Put
<1>5. LateInv' /\ SilenceInv'
  <2>1. gone[m[1]] \in Nat
    BY <1>1 DEF IInv, SilenceType
  <2> QED
    BY <1>1, <2>1 DEF IInv, RegType, LateInv, SilenceInv, ArriveLate, Put, Renewed
<1>6. AnswerInv' /\ StaleBounded'
  BY <1>2, SilenceKept DEF ArriveLate
<1> QED
  BY <1>2, <1>3, <1>4, <1>5, <1>6 DEF IInv

\* The return of a POST and the sending of the next one keep IInv.
LEMMA LoopSteps ==
  ASSUME IInv, NEW a \in Addrs, FirstBack(a) \/ PostBack(a) \/ Beat(a)
  PROVE  IInv'
<1>1. ServerType' /\ SilenceType'
  <2>1. SilenceType'
    BY DEF IInv, SilenceType, FirstBack, PostBack, Beat
  <2>2. up' = up /\ heard' = heard /\ starts' = starts /\ a \in up
    BY DEF IInv, ServerType, FirstBack, PostBack, Beat, Returns
  <2>3. /\ beat' \in [Addrs -> {"none", "first", "wait", "post"}]
        /\ ticked' \in [Addrs -> BOOLEAN] /\ arrived' \in [Addrs -> BOOLEAN]
    BY Zenon DEF IInv, ServerType, FirstBack, PostBack, Beat, Returns, Sends
  <2>4. due' \in [Addrs -> 0 .. Period] /\ sent' \in [Addrs -> 0 .. Latency]
    BY DEF IInv, ServerType, FirstBack, PostBack, Beat, Returns, Sends
  <2>5. \A b \in Addrs : beat'[b] # "none" => b \in up
    BY <2>2 DEF IInv, ServerType, FirstBack, PostBack, Beat, Returns, Sends
  <2>6. \A b \in Addrs : Ticks(b)' => due'[b] \in 1 .. Period
    BY DEF IInv, ServerType, FirstBack, PostBack, Beat, Returns, Sends, Ticks
  <2>7. up \subseteq Addrs /\ heard \subseteq up /\ starts \in 0 .. MaxStarts
    BY DEF IInv, ServerType
  <2>8. ServerType'
    BY <2>2, <2>3, <2>4, <2>5, <2>6, <2>7 DEF ServerType
  <2> QED
    BY <2>1, <2>8
<1>2. RegType' /\ GetType' /\ ListType' /\ PickType'
  BY DEF IInv, RegType, GetType, ListType, PickType, FirstBack, PostBack, Beat
<1>3. BeatInv'
  <2> SUFFICES ASSUME NEW b \in heard PROVE BeatOf(b)'
    BY DEF BeatInv, FirstBack, PostBack, Beat
  <2>1. BeatOf(b) /\ b \in Addrs /\ items' = items /\ age' = age
    BY DEF IInv, BeatInv, ServerType, FirstBack, PostBack, Beat
  <2>2. /\ age[b] \in Nat /\ due[b] \in 0 .. Period /\ sent[b] \in 0 .. Latency
        /\ beat[b] \in {"none", "first", "wait", "post"}
    BY <2>1 DEF IInv, RegType, ServerType
  <2>3. CASE b # a
    BY <2>1, <2>3 DEF IInv, ServerType, BeatOf, Posting, FirstBack, PostBack,
      Beat, Returns, Sends
  <2>4. CASE b = a /\ (FirstBack(a) \/ PostBack(a))
    <3>1. age[b] <= sent[b]
      BY <2>1, <2>4 DEF BeatOf, Posting, FirstBack, PostBack, Returns
    <3>2. beat'[b] = "wait" /\ due'[b] \in 0 .. Period
      BY <2>2, <2>4 DEF IInv, ServerType, FirstBack, PostBack, Returns
    <3> QED
      BY <2>1, <2>2, <3>1, <3>2 DEF BeatOf, Posting
  <2>5. CASE b = a /\ Beat(a)
    <3>1. age[b] <= Period + Latency
      BY <2>1, <2>5 DEF BeatOf, Beat
    <3>2. beat'[b] = "post" /\ sent'[b] = 0 /\ arrived'[b] = FALSE
      BY <2>5 DEF IInv, ServerType, Beat, Sends
    <3> QED
      BY <2>1, <2>2, <3>1, <3>2 DEF BeatOf, Posting
  <2> QED
    BY <2>3, <2>4, <2>5
<1>4. LateInv' /\ SilenceInv'
  BY DEF IInv, LateInv, SilenceInv, FirstBack, PostBack, Beat
<1>5. AnswerInv' /\ StaleBounded'
  BY <1>1, SilenceKept DEF FirstBack, PostBack, Beat
<1> QED
  BY <1>1, <1>2, <1>3, <1>4, <1>5 DEF IInv

\* The end of a heartbeat, with its server or without, keeps IInv.
LEMMA EndSteps ==
  ASSUME IInv, NEW a \in Addrs, PostFails(a) \/ Stop(a)
  PROVE  IInv'
<1>1. a \in up /\ gone[a] = 0 /\ EndBeat(a) /\ gone' = gone
  BY DEF IInv, ServerType, SilenceType, PostFails, Stop, Posting
<1>2. late' \subseteq late \cup {<<a, sent[a]>>}
  BY <1>1 DEF EndBeat
<1>3. up' \in {up, up \ {a}} /\ starts' = starts
  BY DEF PostFails, Stop
<1>4. ServerType'
  BY <1>1, <1>3 DEF IInv, ServerType, EndBeat, Ticks
<1>5. SilenceType'
  BY <1>1, <1>2, <1>3 DEF IInv, ServerType, SilenceType
<1>6. RegType' /\ GetType' /\ ListType' /\ PickType'
  BY DEF IInv, RegType, GetType, ListType, PickType, PostFails, Stop
<1>7. BeatInv'
  BY <1>1 DEF IInv, ServerType, BeatInv, BeatOf, Posting, EndBeat, PostFails, Stop
<1>8. LateInv'
  <2>1. sent[a] \in Nat
    BY DEF IInv, ServerType
  <2> QED
    BY <1>1, <1>2, <2>1 DEF IInv, LateInv
<1>9. SilenceInv'
  BY <1>1 DEF IInv, SilenceInv, PostFails, Stop
<1>10. AnswerInv' /\ StaleBounded'
  BY <1>1, <1>5, SilenceKept DEF PostFails, Stop
<1> QED
  BY <1>4, <1>5, <1>6, <1>7, <1>8, <1>9, <1>10 DEF IInv

------------------------------------------------------------------------------
\* A registry that restarts keeps IInv: it has heard of nobody.
LEMMA RestartStep == IInv /\ RegistryRestarts => IInv'
<1> SUFFICES ASSUME IInv, RegistryRestarts PROVE IInv'
  OBVIOUS
<1>1. ServerType' /\ SilenceType'
  BY DEF IInv, ServerType, SilenceType, RegistryRestarts, Ticks
<1>2. RegType' /\ GetType' /\ ListType' /\ PickType'
  BY DEF IInv, RegType, GetType, ListType, PickType, RegistryRestarts, Zero
<1>3. BeatInv' /\ LateInv' /\ SilenceInv'
  BY DEF IInv, BeatInv, LateInv, SilenceInv, RegistryRestarts
<1>4. AnswerInv' /\ StaleBounded'
  BY <1>1, SilenceKept DEF RegistryRestarts
<1> QED
  BY <1>1, <1>2, <1>3, <1>4 DEF IInv

\* The registry's answer keeps IInv: who is in it is not silent for long.
LEMMA ListsStep == IInv /\ RegistryLists => IInv'
<1> SUFFICES ASSUME IInv, RegistryLists PROVE IInv'
  OBVIOUS
<1>1. Alive \subseteq items /\ \A a \in Alive : a \in Addrs /\ age'[a] = age[a]
  BY DEF Alive, IInv, RegType, RegistryLists
<1>2. ServerType' /\ SilenceType'
  BY DEF IInv, ServerType, SilenceType, RegistryLists, Ticks
<1>3. RegType' /\ GetType' /\ ListType' /\ PickType'
  BY <1>1 DEF IInv, RegType, GetType, ListType, PickType, RegistryLists
<1>4. BeatInv'
  <2> SUFFICES ASSUME NEW a \in heard PROVE BeatOf(a)'
    BY DEF BeatInv, RegistryLists
  <2>1. BeatOf(a) /\ a \in Alive
    BY HeardAlive DEF IInv, BeatInv
  <2> QED
    BY <1>1, <2>1 DEF BeatOf, Posting, RegistryLists
<1>5. LateInv' /\ SilenceInv'
  BY <1>1 DEF IInv, LateInv, SilenceInv, RegistryLists
<1>6. AnswerInv'
  <2> SUFFICES ASSUME NEW a \in Alive, Timeout # 0
               PROVE  gone[a] < Timeout + Latency + asked
    BY DEF AnswerInv, RegistryLists
  <2>1. /\ age[a] \in 0 .. Timeout /\ gone[a] \in Nat /\ asked \in Nat
        /\ age[a] < Timeout
    BY <1>1 DEF IInv, RegType, SilenceType, GetType, Alive, IsAlive
  <2>2. gone[a] <= age[a] + Latency
    BY <1>1, <2>1 DEF IInv, SilenceInv
  <2> QED
    BY <2>1, <2>2
<1>7. StaleBounded'
  BY DEF IInv, StaleBounded, Fresh, RegistryLists
<1> QED
  BY <1>2, <1>3, <1>4, <1>5, <1>6, <1>7 DEF IInv

\* The answer to a GET keeps IInv when its list is stored.
LEMMA StoreStep == IInv /\ RefreshStore => IInv'
<1> SUFFICES ASSUME IInv, RefreshStore PROVE IInv'
  OBVIOUS
<1>1. got \in SUBSET Addrs
  BY DEF IInv, GetType
<1>2. /\ servers' \in Seq(Addrs) /\ Len(servers') <= Cardinality(Addrs)
      /\ ToSet(servers') \subseteq got
  BY <1>1, ListingTyped DEF RefreshStore, Listings
<1>3. ServerType' /\ SilenceType' /\ RegType' /\ GetType'
  BY DEF IInv, ServerType, SilenceType, RegType, GetType, RefreshStore, Ticks
<1>4. ListType'
  <2>1. updated' \in 0 .. TTL
    BY DEF RefreshStore
  <2>2. byUser' \in BOOLEAN
    BY DEF RefreshStore
  <2> QED
    BY <1>2, <2>1, <2>2 DEF ListType
<1>5. PickType'
  BY DEF IInv, PickType, RefreshStore, Recount, Zero
<1>6. BeatInv'
  BY DEF IInv, BeatInv, BeatOf, Posting, RefreshStore
<1>7. LateInv' /\ SilenceInv' /\ AnswerInv'
  BY DEF IInv, LateInv, SilenceInv, AnswerInv, RefreshStore
<1>8. StaleBounded'
  <2> SUFFICES ASSUME NEW a \in ToSet(servers'), Timeout # 0
               PROVE  gone[a] < Timeout + 2 * Latency + 0
    BY DEF StaleBounded, Memory, RefreshStore
  <2>1. /\ gone[a] \in Nat /\ asked \in 0 .. Latency
        /\ gone[a] < Timeout + Latency + asked
    BY <1>1, <1>2 DEF IInv, SilenceType, GetType, AnswerInv, RefreshStore
  <2> QED
    BY <2>1
<1> QED
  BY <1>3, <1>4, <1>5, <1>6, <1>7, <1>8 DEF IInv

\* A list given by the user keeps IInv.
LEMMA UpdateStep ==
  ASSUME IInv, NEW S \in SUBSET Addrs, Update(S) PROVE IInv'
<1>1. servers' \in Seq(Addrs) /\ Len(servers') <= Cardinality(Addrs)
  BY ListingTyped DEF Update
<1>2. ListType'
  <2>1. updated' \in 0 .. TTL
    BY DEF Update
  <2>2. byUser' \in BOOLEAN
    BY DEF Update
  <2> QED
    BY <1>1, <2>1, <2>2 DEF ListType
<1>3. PickType'
  BY DEF IInv, PickType, Update, Zero
<1>4. ServerType' /\ SilenceType' /\ RegType' /\ GetType'
  BY DEF IInv, ServerType, SilenceType, RegType, GetType, Update, Ticks
<1>5. BeatInv' /\ LateInv' /\ SilenceInv'
  BY DEF IInv, BeatInv, BeatOf, Posting, LateInv, SilenceInv, Update
<1>6. AnswerInv' /\ StaleBounded'
  BY DEF IInv, AnswerInv, StaleBounded, Update
<1> QED
  BY <1>2, <1>3, <1>4, <1>5, <1>6 DEF IInv

\* The choice of a server keeps IInv.
LEMMA PickStep == IInv /\ PickRoundRobin => IInv'
<1> SUFFICES ASSUME IInv, PickRoundRobin PROVE IInv'
  OBVIOUS
<1>1. Len(servers) \in Nat \ {0} /\ Len(servers) <= Cardinality(Addrs)
  BY LenProperties, EmptySeq DEF IInv, ListType, PickRoundRobin
<1>2. Cardinality(Addrs) \in Nat /\ index \in Nat
  BY RegistryAssumption, FS_CardinalityType DEF IInv, PickType
<1>3. (index + 1) % Len(servers) \in 0 .. Len(servers) - 1
  BY <1>1, <1>2
<1>4. index' \in 0 .. Cardinality(Addrs)
  BY <1>1, <1>2, <1>3 DEF PickRoundRobin, NextIndex
<1>5. turns' \in [Addrs -> Nat]
  <2>1. turns \in [Addrs -> Nat]
    BY DEF IInv, PickType
  <2>2. (index % Len(servers)) + 1 \in 1 .. Len(servers)
    BY <1>1, <1>2
  <2>3. servers[(index % Len(servers)) + 1] \in Addrs
    BY <2>2, ElementOfSeq DEF IInv, ListType
  <2>4. \A s \in Addrs : [turns EXCEPT ![s] = @ + 1] \in [Addrs -> Nat]
    BY <2>1
  <2> QED
    BY <2>3, <2>4, RelativeTyped DEF PickRoundRobin
<1>6. PickType'
  BY <1>4, <1>5 DEF PickType
<1>7. ServerType' /\ SilenceType' /\ RegType' /\ GetType' /\ ListType'
  BY DEF IInv, ServerType, SilenceType, RegType, GetType, ListType,
    PickRoundRobin, Ticks
<1>8. BeatInv' /\ LateInv' /\ SilenceInv'
  BY DEF IInv, BeatInv, BeatOf, Posting, LateInv, SilenceInv, PickRoundRobin
<1>9. AnswerInv' /\ StaleBounded'
  BY DEF IInv, AnswerInv, StaleBounded, Fresh, PickRoundRobin
<1> QED
  BY <1>6, <1>7, <1>8, <1>9 DEF IInv

\* The steps of a Get that change nothing but where it is keep IInv.
LEMMA GetSteps ==
  ASSUME IInv, RefreshFresh \/ RefreshAsk \/ RefreshFails \/ PickNone
  PROVE  IInv'
<1> USE DEF RefreshFresh, RefreshAsk, RefreshFails, PickNone
<1>1. ServerType' /\ SilenceType' /\ RegType' /\ ListType' /\ PickType'
  BY DEF IInv, ServerType, SilenceType, RegType, ListType, PickType, Ticks
<1>2. BeatInv' /\ LateInv' /\ SilenceInv'
  BY DEF IInv, BeatInv, BeatOf, Posting, LateInv, SilenceInv
<1>3. AnswerInv' /\ StaleBounded'
  BY DEF IInv, AnswerInv, StaleBounded, Fresh
<1>4. GetType'
  BY DEF IInv, GetType
<1> QED
  BY <1>1, <1>2, <1>3, <1>4 DEF IInv

\* The passing of time keeps IInv.
LEMMA TickStep == IInv /\ Tick => IInv'
<1> SUFFICES ASSUME IInv, Tick PROVE IInv'
  OBVIOUS
<1>1. ASSUME NEW a \in Addrs
      PROVE  /\ age[a] \in 0 .. Timeout /\ age'[a] \in 0 .. Timeout
             /\ age'[a] <= age[a] + 1
             /\ a \in items /\ age'[a] < Timeout => age'[a] = age[a] + 1
             /\ gone[a] \in 0 .. GoneMax /\ gone'[a] \in 0 .. GoneMax
             /\ gone'[a] <= gone[a] + 1
  BY DEF IInv, RegType, SilenceType, Tick, Older
<1>2. ServerType'
  <2>1. ASSUME NEW a \in Addrs
        PROVE  /\ due'[a] \in 0 .. Period /\ sent'[a] \in 0 .. Latency
               /\ Ticks(a) => due'[a] \in 1 .. Period
    BY DEF IInv, ServerType, Tick, MayPass
  <2>2. \A a \in Addrs : Ticks(a)' <=> Ticks(a)
    BY DEF Ticks, Tick
  <2> QED
    BY <2>1, <2>2 DEF IInv, ServerType, Tick, Ticks
<1>3. SilenceType' /\ RegType'
  <2>1. late' \subseteq Addrs \X (0 .. Latency)
    <3> SUFFICES ASSUME NEW m \in late, m[2] < Latency
                 PROVE  <<m[1], m[2] + 1>> \in Addrs \X (0 .. Latency)
      BY DEF Tick
    <3>1. m[1] \in Addrs /\ m[2] \in 0 .. Latency
      BY DEF IInv, SilenceType
    <3> QED
      BY <3>1
  <2>2. gone' \in [Addrs -> 0 .. GoneMax] /\ age' \in [Addrs -> 0 .. Timeout]
    <3>1. /\ gone' = [a \in Addrs |-> gone'[a]]
          /\ age' = [a \in Addrs |-> age'[a]]
      BY Zenon DEF Tick
    <3>2. /\ \A a \in Addrs : gone'[a] \in 0 .. GoneMax
          /\ \A a \in Addrs : age'[a] \in 0 .. Timeout
      BY <1>1
    <3> QED
      BY <3>1, <3>2, Zenon
  <2>3. \A a \in up' : gone'[a] = 0
    BY DEF IInv, ServerType, Tick
  <2>4. items' \subseteq Addrs
    BY DEF IInv, RegType, Tick
  <2> QED
    BY <2>1, <2>2, <2>3, <2>4 DEF SilenceType, RegType
<1>4. GetType' /\ ListType' /\ PickType'
  BY DEF IInv, GetType, ListType, PickType, Tick, MayPass, Older
<1>5. BeatInv'
  <2> SUFFICES ASSUME NEW a \in heard PROVE BeatOf(a)'
    BY DEF BeatInv, Tick
  <2>1. BeatOf(a) /\ a \in Addrs /\ beat[a] \in {"first", "wait", "post"}
    BY DEF IInv, BeatInv, BeatOf, ServerType
  <2>2. /\ due[a] \in 0 .. Period /\ sent[a] \in 0 .. Latency
        /\ age[a] \in Nat /\ age'[a] \in Nat /\ age'[a] <= age[a] + 1
    BY <1>1, <2>1 DEF IInv, ServerType
  <2>3. beat' = beat /\ arrived' = arrived /\ items' = items
    BY DEF Tick
  <2>4. CASE beat[a] = "wait"
    <3>1. ~ticked[a] /\ age[a] + due[a] <= Period + Latency /\ due[a] \in 1 .. Period
      BY <2>1, <2>4 DEF IInv, ServerType, BeatOf, Tick, MayPass, Ticks
    <3>2. IF due[a] = 1 THEN ticked'[a] ELSE due'[a] = due[a] - 1
      BY <2>1, <2>4 DEF Tick, Ticks
    <3>3. age'[a] <= Period + Latency
      BY <2>2, <3>1
    <3>4. ~ticked'[a] => age'[a] + due'[a] <= Period + Latency
      BY <2>2, <3>1, <3>2
    <3> QED
      BY <2>1, <2>3, <2>4, <3>3, <3>4 DEF BeatOf, Posting
  <2>5. CASE beat[a] # "wait"
    <3>1. Posting(a) /\ sent'[a] = sent[a] + 1
      BY <2>1, <2>5 DEF Posting, Tick
    <3>2. arrived[a] => age'[a] <= sent'[a]
      BY <2>1, <2>2, <3>1 DEF BeatOf
    <3>3. beat[a] = "post" => age'[a] <= Period + Latency + sent'[a]
      BY <2>1, <2>2, <3>1 DEF BeatOf
    <3> QED
      BY <2>1, <2>3, <2>5, <3>2, <3>3 DEF BeatOf, Posting
  <2> QED
    BY <2>4, <2>5
<1>6. LateInv'
  <2> SUFFICES ASSUME NEW m \in late, m[2] < Latency
               PROVE  gone'[m[1]] <= m[2] + 1
    BY DEF LateInv, Tick
  <2>1. m[1] \in Addrs /\ m[2] \in Nat /\ gone[m[1]] <= m[2]
    BY DEF IInv, SilenceType, LateInv
  <2>2. gone[m[1]] \in Nat /\ gone'[m[1]] \in Nat /\ gone'[m[1]] <= gone[m[1]] + 1
    BY <1>1, <2>1
  <2> QED
    BY <2>1, <2>2
<1>7. SilenceInv'
  <2> SUFFICES ASSUME NEW a \in items, age'[a] < Timeout
               PROVE  gone'[a] <= age'[a] + Latency
    BY DEF SilenceInv, Tick
  <2>1. a \in Addrs
    BY DEF IInv, RegType
  <2>2. age'[a] = age[a] + 1 /\ age[a] \in Nat /\ age[a] < Timeout
    BY <1>1, <2>1
  <2>3. gone[a] <= age[a] + Latency
    BY <2>2 DEF IInv, SilenceInv
  <2> QED
    BY <1>1, <2>1, <2>2, <2>3
<1>8. AnswerInv'
  <2> SUFFICES ASSUME get = "answer", Timeout # 0, NEW a \in got
               PROVE  gone'[a] < Timeout + Latency + asked'
    BY DEF AnswerInv, Tick
  <2>1. a \in Addrs /\ asked \in Nat /\ asked' = asked + 1
    BY DEF IInv, GetType, Tick
  <2>2. gone[a] < Timeout + Latency + asked
    BY DEF IInv, AnswerInv
  <2> QED
    BY <1>1, <2>1, <2>2
<1>9. StaleBounded'
  <2> SUFFICES ASSUME NEW a \in ToSet(servers), ~byUser, Timeout # 0,
                      updated' < TTL
               PROVE  gone'[a] < Timeout + 2 * Latency + updated'
    BY DEF StaleBounded, Fresh, Memory, Tick
  <2>1. a \in Addrs /\ updated \in Nat /\ updated < TTL /\ updated' = updated + 1
    BY ListedAddrs DEF IInv, ListType, Tick, Older
  <2>2. gone[a] < Timeout + 2 * Latency + updated
    BY <2>1 DEF IInv, StaleBounded, Fresh, Memory
  <2> QED
    BY <1>1, <2>1, <2>2
<1> QED
  BY <1>2, <1>3, <1>4, <1>5, <1>6, <1>7, <1>8, <1>9 DEF IInv

\* Every step keeps IInv.
LEMMA IInvStep == IInv /\ [Next]_vars => IInv'
<1> SUFFICES ASSUME IInv, [Next]_vars PROVE IInv'
  OBVIOUS
<1>1. CASE UNCHANGED vars
  <2>1. ServerType' /\ SilenceType' /\ RegType' /\ GetType' /\ ListType' /\ PickType'
    BY <1>1 DEF IInv, ServerType, SilenceType, RegType, GetType, ListType,
      PickType, Ticks
  <2>2. BeatInv' /\ LateInv' /\ SilenceInv'
    BY <1>1 DEF IInv, BeatInv, BeatOf, Posting, LateInv, SilenceInv
  <2>3. AnswerInv' /\ StaleBounded'
    BY <1>1 DEF IInv, AnswerInv, StaleBounded, Fresh
  <2> QED
    BY <2>1, <2>2, <2>3 DEF IInv
<1>2. ASSUME NEW a \in Addrs, Server(a) PROVE IInv'
  BY <1>2, StartStep, ArriveStep, LoopSteps, EndSteps DEF Server
<1>3. CASE Client
  BY <1>3, GetSteps, ListsStep, StoreStep, PickStep DEF Client
<1> QED
  BY <1>1, <1>2, <1>3, LateStep, RestartStep, UpdateStep, TickStep DEF Next

\* IInv is an invariant of the registry, its servers and its client.
THEOREM Invariance == Spec => []IInv
  BY IInvInit, IInvStep, PTL DEF Spec

\* Every variable keeps its type; the index of the next server stays small
\* (discovery.go:55-58).
THEOREM TypeCorrect == Spec => []TypeOK
<1>1. IInv => TypeOK
  BY DEF IInv, TypeOK, ServerType, SilenceType, RegType, GetType, ListType,
    PickType
<1> QED
  BY Invariance, <1>1, PTL

\* For any period that with the time of two POSTs is shorter than the timeout,
\* a server that was heard and beats on is listed (registry.go:53-66, 107-123).
THEOREM NeverDropped == Spec => []BeatingListed
<1>1. IInv => BeatingListed
  BY HeardAlive DEF BeatingListed
<1> QED
  BY Invariance, <1>1, PTL

\* A server that stopped leaves the lists within the two timeouts and the time
\* of a POST and a GET (registry.go:53-66, discovery_aoi.go:43-68).
THEOREM ForgottenInTime == Spec => []StaleBounded
<1>1. IInv => StaleBounded
  BY DEF IInv
<1> QED
  BY Invariance, <1>1, PTL

------------------------------------------------------------------------------
(* Turns are even.                                                         *)

\* A set of natural numbers that is not empty has a least element: of the
\* intervals 0 .. n that end in it, one contains no other.
LEMMA LeastExists ==
  ASSUME NEW S \in SUBSET Nat, S # {}
  PROVE  \E x \in S : \A y \in S : x <= y
<1> DEFINE T == {0 .. n : n \in S}
<1>1. T \subseteq FiniteSubsetsOf(Nat)
  <2>1. \A n \in Nat : IsFiniteSet(0 .. n) /\ 0 .. n \subseteq Nat
    BY FS_Interval
  <2> QED
    BY <2>1 DEF FiniteSubsetsOf
<1>2. T # {}
  OBVIOUS
<1>3. PICK I \in T : \A J \in T : <<J, I>> \notin StrictSubsetOrdering(Nat)
  <2> HIDE DEF T
  <2> QED
    BY <1>1, <1>2, FS_StrictSubsetOrderingWellFounded, WFMin, Zenon
<1>4. PICK x \in S : I = 0 .. x
  OBVIOUS
<1>5. ASSUME NEW y \in S, y < x PROVE FALSE
  <2>1. x \in Nat /\ y \in Nat /\ <<0 .. y, 0 .. x>> \notin StrictSubsetOrdering(Nat)
    BY <1>3, <1>4
  <2>2. 0 .. y \subseteq 0 .. x /\ x \in 0 .. x /\ x \notin 0 .. y
    BY <1>5, <2>1
  <2>3. 0 .. y # 0 .. x
    BY <2>2
  <2> QED
    BY <2>1, <2>2, <2>3 DEF StrictSubsetOrdering
<1> QED
  BY <1>5

\* What is sorted has no two orders: of two lists of the same numbers the
\* shorter one is the beginning of the other ...
LEMMA SortedAgree ==
  ASSUME NEW l \in Seq(Nat), NEW m \in Seq(Nat), InOrder(l), InOrder(m),
         ToSet(l) = ToSet(m), Len(l) <= Len(m)
  PROVE  \A k \in 1 .. Len(l) : l[k] = m[k]
<1>1. /\ Len(l) \in Nat /\ DOMAIN l = 1 .. Len(l) /\ \A k \in 1 .. Len(l) : l[k] \in Nat
      /\ Len(m) \in Nat /\ DOMAIN m = 1 .. Len(m) /\ \A k \in 1 .. Len(m) : m[k] \in Nat
  BY LenProperties, ElementOfSeq
<1> DEFINE D == {k \in 1 .. Len(l) : l[k] # m[k]}
<1>2. SUFFICES ASSUME D # {} PROVE FALSE
  OBVIOUS
<1>3. D \in SUBSET Nat
  BY <1>1
<1>4. PICK k \in D : \A j \in D : k <= j
  <2> HIDE DEF D
  <2> QED
    BY <1>2, <1>3, LeastExists
<1>5. k \in 1 .. Len(l) /\ k \in 1 .. Len(m) /\ l[k] # m[k]
  BY <1>1
<1>6. \A j \in 1 .. Len(l) : j < k => l[j] = m[j]
  <2> SUFFICES ASSUME NEW j \in 1 .. Len(l), j < k, l[j] # m[j] PROVE FALSE
    OBVIOUS
  <2> QED
    BY <1>1, <1>4, <1>5
<1>7. l[k] \in ToSet(m) /\ m[k] \in ToSet(l)
  BY <1>1, <1>5 DEF ToSet
<1>8. PICK j \in 1 .. Len(m) : m[j] = l[k]
  BY <1>1, <1>7 DEF ToSet
<1>9. PICK h \in 1 .. Len(l) : l[h] = m[k]
  BY <1>1, <1>7 DEF ToSet
<1>10. /\ \A x, y \in 1 .. Len(l) : x < y => l[x] < l[y]
       /\ \A x, y \in 1 .. Len(m) : x < y => m[x] < m[y]
  BY <1>1 DEF InOrder
<1> HIDE DEF D
<1>11. ~(l[k] < m[k])
  <2> SUFFICES ASSUME l[k] < m[k] PROVE FALSE
    OBVIOUS
  <2>1. j < k
    <3> SUFFICES ASSUME ~(j < k) PROVE FALSE
      OBVIOUS
    <3>1. m[j] < m[k] /\ m[j] \in Nat /\ m[k] \in Nat
      BY <1>1, <1>5, <1>8
    <3>2. k < j
      BY <1>1, <1>5, <1>8, <3>1
    <3>3. m[k] < m[j]
      BY <1>5, <1>10, <3>2
    <3> QED
      BY <3>1, <3>3
  <2>2. j \in 1 .. Len(l) /\ l[j] = m[j]
    BY <1>1, <1>5, <1>6, <2>1
  <2>3. l[j] < l[k]
    BY <1>5, <1>10, <2>1, <2>2
  <2>4. l[j] = l[k] /\ l[k] \in Nat
    BY <1>1, <1>5, <1>8, <2>2
  <2> QED
    BY <2>3, <2>4
<1>12. ~(m[k] < l[k])
  <2> SUFFICES ASSUME m[k] < l[k] PROVE FALSE
    OBVIOUS
  <2>1. h < k
    <3> SUFFICES ASSUME ~(h < k) PROVE FALSE
      OBVIOUS
    <3>1. l[h] < l[k] /\ l[h] \in Nat /\ l[k] \in Nat
      BY <1>1, <1>5, <1>9
    <3>2. k < h
      BY <1>1, <1>5, <1>9, <3>1
    <3>3. l[k] < l[h]
      BY <1>5, <1>10, <3>2
    <3> QED
      BY <3>1, <3>3
  <2>2. h \in 1 .. Len(m) /\ l[h] = m[h]
    BY <1>1, <1>5, <1>6, <2>1
  <2>3. m[h] < m[k]
    BY <1>5, <1>10, <2>1, <2>2
  <2>4. m[h] = m[k] /\ m[k] \in Nat
    BY <1>1, <1>5, <1>9, <2>2
  <2> QED
    BY <2>3, <2>4
<1>13. l[k] \in Nat /\ m[k] \in Nat
  BY <1>1, <1>5
<1> QED
  BY <1>5, <1>11, <1>12, <1>13

\* ... and not shorter.
LEMMA SortedSameLength ==
  ASSUME NEW l \in Seq(Nat), NEW m \in Seq(Nat), InOrder(l), InOrder(m),
         ToSet(l) = ToSet(m), Len(l) <= Len(m)
  PROVE  Len(m) = Len(l)
<1>1. /\ Len(l) \in Nat /\ DOMAIN l = 1 .. Len(l)
      /\ Len(m) \in Nat /\ DOMAIN m = 1 .. Len(m) /\ \A k \in 1 .. Len(m) : m[k] \in Nat
  BY LenProperties, ElementOfSeq
<1>2. ASSUME Len(l) < Len(m) PROVE FALSE
  <2> DEFINE k == Len(l) + 1
  <2>1. k \in 1 .. Len(m)
    BY <1>1, <1>2
  <2>2. m[k] \in ToSet(l)
    BY <1>1, <2>1 DEF ToSet
  <2>3. PICK j \in 1 .. Len(l) : l[j] = m[k]
    BY <1>1, <2>2 DEF ToSet
  <2>4. m[j] = m[k] /\ j \in 1 .. Len(m) /\ j < k
    BY <1>1, <1>2, <2>3, SortedAgree
  <2>5. m[j] < m[k] /\ m[k] \in Nat
    <3> HIDE DEF k
    <3> QED
      BY <1>1, <2>1, <2>4 DEF InOrder
  <2> QED
    BY <2>4, <2>5
<1>3. Len(l) \in Nat /\ Len(m) \in Nat /\ ~(Len(l) < Len(m))
  BY <1>1, <1>2
<1> QED
  BY <1>3

LEMMA SortedUnique ==
  ASSUME NEW l \in Seq(Nat), NEW m \in Seq(Nat), InOrder(l), InOrder(m),
         ToSet(l) = ToSet(m)
  PROVE  l = m
<1>1. Len(l) \in Nat /\ Len(m) \in Nat
  BY LenProperties
<1>2. CASE Len(l) <= Len(m)
  BY <1>2, SortedAgree, SortedSameLength, SeqEqual
<1>3. CASE Len(m) <= Len(l)
  BY <1>3, SortedAgree, SortedSameLength, SeqEqual
<1> QED
  BY <1>1, <1>2, <1>3

\* The position p has had its turn in the round that began at s, i being next.
Taken(s, i, p) == IF s <= i THEN s <= p /\ p < i ELSE s <= p \/ p < i

\* Lists have no entry twice, those of the registry are sorted, and the counts
\* are those of a round.
TurnInv ==
  /\ \A i, j \in DOMAIN servers : servers[i] = servers[j] => i = j
  /\ ~byUser => InOrder(servers)
  /\ servers # <<>> =>
       \E s \in 0 .. Len(servers) - 1 : \A p \in 0 .. Len(servers) - 1 :
         turns[servers[p + 1]] =
           IF Taken(s, index % Len(servers), p) THEN 1 ELSE 0

\* Quotient and remainder are unique.
LEMMA NextRemainder ==
  ASSUME NEW k \in Nat, NEW n \in Nat \ {0}
  PROVE  /\ k % n \in 0 .. n - 1 /\ (k + 1) % n \in 0 .. n - 1
         /\ (k + 1) % n = IF (k % n) + 1 = n THEN 0 ELSE (k % n) + 1
         /\ ((k + 1) % n) % n = (k + 1) % n
<1> DEFINE q == k \div n
           r == k % n
           t == (k + 1) \div n
           u == (k + 1) % n
<1>1. q \in Int /\ t \in Int /\ r \in 0 .. n - 1 /\ u \in 0 .. n - 1
  OBVIOUS
<1>2. k = n * q + r /\ k + 1 = n * t + u
  OBVIOUS
<1> HIDE DEF q, r, t, u
<1>3. n * (t - q) = r + 1 - u
  BY <1>1, <1>2
<1>4. t - q <= 1
  <2>1. ASSUME t - q >= 2 PROVE FALSE
    <3>1. n * (t - q) >= n * 2
      BY <1>1, <2>1
    <3> QED
      BY <1>1, <1>3, <3>1
  <2> QED
    BY <1>1, <2>1
<1>5. t - q >= 0
  <2>1. ASSUME t - q <= -1 PROVE FALSE
    <3>1. n * (t - q) <= -n
      BY <1>1, <2>1
    <3> QED
      BY <1>1, <1>3, <3>1
  <2> QED
    BY <1>1, <2>1
<1>6. u = IF r + 1 = n THEN 0 ELSE r + 1
  <2>1. CASE t - q = 0
    BY <1>1, <1>3, <2>1
  <2>2. CASE t - q = 1
    BY <1>1, <1>3, <2>2
  <2> QED
    BY <1>1, <1>4, <1>5, <2>1, <2>2
<1>7. u % n = u
  BY <1>1
<1> QED
  BY <1>1, <1>6, <1>7 DEF r, u

\* With a list nobody was chosen from yet, a round begins where the index is.
LEMMA NewRound ==
  ASSUME IInv', turns' = Zero,
         \A i, j \in DOMAIN servers' : servers'[i] = servers'[j] => i = j,
         ~byUser' => InOrder(servers)'
  PROVE  TurnInv'
<1>1. CASE servers' = <<>>
  BY <1>1 DEF TurnInv
<1>2. CASE servers' # <<>>
  <2> DEFINE n == Len(servers')
             i == index' % n
  <2>1. n \in Nat \ {0} /\ index' \in Nat /\ \A p \in 1 .. n : servers'[p] \in Addrs
    BY <1>2, LenProperties, EmptySeq, ElementOfSeq, RegistryAssumption,
      FS_CardinalityType DEF IInv, ListType, PickType
  <2>2. i \in 0 .. n - 1
    BY <2>1, NextRemainder
  <2>3. \A p \in 0 .. n - 1 : ~Taken(i, i, p)
    BY <2>1, <2>2 DEF Taken
  <2>4. \A p \in 0 .. n - 1 : p + 1 \in 1 .. n /\ turns'[servers'[p + 1]] = 0
    BY <2>1 DEF Zero
  <2> QED
    BY <2>2, <2>3, <2>4 DEF TurnInv
<1> QED
  BY <1>1, <1>2

\* An answer starts a new round, but for a list of the same servers: that is
\* the same list.
LEMMA StoreTurns == IInv /\ TurnInv /\ IInv' /\ RefreshStore => TurnInv'
<1> SUFFICES ASSUME IInv, TurnInv, IInv', RefreshStore PROVE TurnInv'
  OBVIOUS
<1>1. servers' \in Seq(Nat) /\ InOrder(servers)' /\ servers \in Seq(Nat)
  BY RegistryAssumption, SeqMonotonic DEF IInv, ListType, RefreshStore, Listings,
    InOrder
<1>2. \A i, j \in DOMAIN servers' : servers'[i] = servers'[j] => i = j
  <2>1. /\ DOMAIN servers' = 1 .. Len(servers') /\ Len(servers') \in Nat
        /\ \A i \in 1 .. Len(servers') : servers'[i] \in Nat
    BY <1>1, LenProperties, ElementOfSeq
  <2> QED
    BY <1>1, <2>1 DEF InOrder
<1>3. CASE ~byUser /\ ToSet(servers') = ToSet(servers)
  <2>1. InOrder(servers)
    BY <1>3 DEF TurnInv
  <2>2. servers' = servers
    BY <1>1, <1>3, <2>1, SortedUnique DEF InOrder
  <2>3. turns' = turns /\ index' = index
    BY <1>3 DEF RefreshStore, Recount
  <2> QED
    BY <1>1, <2>2, <2>3 DEF TurnInv
<1>4. CASE ~(~byUser /\ ToSet(servers') = ToSet(servers))
  <2>1. turns' = Zero
    BY <1>4 DEF RefreshStore, Recount
  <2> QED
    BY <1>1, <1>2, <2>1, NewRound
<1> QED
  BY <1>3, <1>4

\* The choice of a server.
LEMMA PickTurns == IInv /\ TurnInv /\ PickRoundRobin => TurnInv'
<1> SUFFICES ASSUME IInv, TurnInv, PickRoundRobin PROVE TurnInv'
  OBVIOUS
<1> DEFINE n == Len(servers)
           i == index % n
           j == NextIndex
           a == servers[i + 1]
           t == [turns EXCEPT ![a] = @ + 1]
<1>1. /\ n \in Nat \ {0} /\ DOMAIN servers = 1 .. n
      /\ \A p \in 1 .. n : servers[p] \in Addrs
  BY LenProperties, EmptySeq, ElementOfSeq DEF IInv, ListType, PickRoundRobin
<1>2. index \in Nat /\ turns \in [Addrs -> Nat]
  BY RegistryAssumption, FS_CardinalityType DEF IInv, PickType
<1>3. /\ i \in 0 .. n - 1 /\ j = (IF i + 1 = n THEN 0 ELSE i + 1)
      /\ j \in 0 .. n - 1 /\ j % n = j
  BY <1>1, <1>2, NextRemainder DEF NextIndex
<1>4. /\ turns' = Relative(t) /\ index' = j
      /\ servers' = servers /\ byUser' = byUser
  BY DEF PickRoundRobin
<1>5. PICK s \in 0 .. n - 1 : \A p \in 0 .. n - 1 :
        turns[servers[p + 1]] = IF Taken(s, i, p) THEN 1 ELSE 0
  BY <1>1 DEF TurnInv, PickRoundRobin
<1> HIDE DEF n, i, j
\* One more turn: either everybody has had his, or the round goes on.
<1>6. /\ ~Taken(s, i, i)
      /\ j = s => \A p \in 0 .. n - 1 : Taken(s, i, p) \/ p = i
      /\ j # s => /\ \A p \in 0 .. n - 1 : Taken(s, j, p) <=> Taken(s, i, p) \/ p = i
                  /\ ~Taken(s, j, j)
      /\ \A p \in 0 .. n - 1 : ~Taken(j, j, p)
  <2>1. /\ n \in Nat \ {0} /\ s \in 0 .. n - 1 /\ i \in 0 .. n - 1
        /\ j = IF i + 1 = n THEN 0 ELSE i + 1
    BY <1>1, <1>3, <1>5
  <2> QED
    BY <2>1 DEF Taken
<1>7. \A p \in 0 .. n - 1 : p + 1 \in 1 .. n /\ (servers[p + 1] = a <=> p = i)
  BY <1>1, <1>3 DEF TurnInv
<1>8. \A p \in 0 .. n - 1 :
        t[servers[p + 1]] = IF Taken(s, i, p) \/ p = i THEN 1 ELSE 0
  <2>1. ~Taken(s, i, i)
    BY <1>6
  <2>2. TAKE p \in 0 .. n - 1
  <2>3. CASE p = i
    BY <1>1, <1>2, <1>3, <1>5, <1>7, <2>1, <2>3
  <2>4. CASE p # i
    BY <1>1, <1>2, <1>5, <1>7, <2>4
  <2> QED
    BY <2>3, <2>4
<1>9. ToSet(servers) = {servers[p + 1] : p \in 0 .. n - 1}
  <2>1. \A p \in 1 .. n : \E q \in 0 .. n - 1 : servers[p] = servers[q + 1]
    <3> TAKE p \in 1 .. n
    <3>1. p - 1 \in 0 .. n - 1 /\ (p - 1) + 1 = p
      BY <1>1
    <3> QED
      BY <3>1
  <2>2. ToSet(servers) = {servers[p] : p \in 1 .. n}
    BY <1>1 DEF ToSet
  <2> QED
    BY <1>7, <2>1, <2>2
<1> HIDE DEF t, a
<1>10. \A x \in ToSet(servers) : x \in Addrs
  BY <1>1, <1>7, <1>9
<1>11. \E v \in 0 .. n - 1 : \A p \in 0 .. n - 1 :
         turns'[servers[p + 1]] = IF Taken(v, j, p) THEN 1 ELSE 0
  <2>1. CASE j = s
    <3>1. \A p \in 0 .. n - 1 : t[servers[p + 1]] = 1
      <4>1. \A p \in 0 .. n - 1 : Taken(s, i, p) \/ p = i
        BY <1>6, <2>1
      <4> QED
        BY <1>8, <4>1
    <3>2. \A x \in ToSet(servers) : t[x] = 1
      BY <1>9, <3>1
    <3>3. turns' = [x \in Addrs |-> IF x \in ToSet(servers) THEN t[x] - 1 ELSE t[x]]
      BY <1>4, <3>2 DEF Relative
    <3>4. \A x \in ToSet(servers) : turns'[x] = 0
      BY <1>10, <3>2, <3>3
    <3>5. \A p \in 0 .. n - 1 : turns'[servers[p + 1]] = 0 /\ ~Taken(j, j, p)
      BY <1>6, <1>9, <3>4
    <3> QED
      BY <1>3, <3>5
  <2>2. CASE j # s
    <3>1. \A p \in 0 .. n - 1 :
            t[servers[p + 1]] = IF Taken(s, j, p) THEN 1 ELSE 0
      <4>1. \A p \in 0 .. n - 1 : Taken(s, j, p) <=> Taken(s, i, p) \/ p = i
        BY <1>6, <2>2
      <4> QED
        BY <1>8, <4>1
    <3>2. ~Taken(s, j, j)
      BY <1>6, <2>2
    <3>3. t[servers[j + 1]] = 0 /\ servers[j + 1] \in ToSet(servers)
      BY <1>3, <1>9, <3>1, <3>2
    <3>4. turns' = t
      BY <1>4, <3>3 DEF Relative
    <3> QED
      BY <3>1, <3>4
  <2> QED
    BY <2>1, <2>2
<1>12. /\ servers # <<>> /\ n = Len(servers) /\ index' % n = j
       /\ \A x, y \in DOMAIN servers : servers[x] = servers[y] => x = y
       /\ ~byUser => InOrder(servers)
  BY <1>3, <1>4 DEF TurnInv, PickRoundRobin, n
<1>13. \A x, y \in DOMAIN servers' : servers'[x] = servers'[y] => x = y
  BY <1>4, <1>12, Zenon
<1>14. ~byUser' => InOrder(servers')
  BY <1>4, <1>12, Zenon
<1>15. \E v \in 0 .. Len(servers') - 1 : \A p \in 0 .. Len(servers') - 1 :
         turns'[servers'[p + 1]] =
           IF Taken(v, index' % Len(servers'), p) THEN 1 ELSE 0
  <2>1. servers' = servers /\ Len(servers) = n /\ index' % n = j
    BY <1>4, <1>12
  <2> QED
    BY <1>11, <2>1, Zenon
<1>16. InOrder(servers)' <=> InOrder(servers')
  BY DEF InOrder
<1> QED
  BY <1>13, <1>14, <1>15, <1>16, Zenon DEF TurnInv

\* Every step keeps the round.
LEMMA TurnStep == IInv /\ TurnInv /\ IInv' /\ [Next]_vars => TurnInv'
<1> SUFFICES ASSUME IInv, TurnInv, IInv', [Next]_vars PROVE TurnInv'
  OBVIOUS
<1>1. CASE UNCHANGED <<servers, byUser, index, turns>>
  BY <1>1 DEF TurnInv, InOrder
<1>2. ASSUME NEW S \in SUBSET Addrs, Update(S) PROVE TurnInv'
  <2>1. /\ turns' = Zero /\ byUser'
        /\ \A i, j \in DOMAIN servers' : servers'[i] = servers'[j] => i = j
    BY <1>2 DEF Update, IsInjective
  <2> QED
    BY <2>1, NewRound
<1>3. ASSUME NEW a \in Addrs, Server(a)
      PROVE  UNCHANGED <<servers, byUser, index, turns>>
  BY <1>3 DEF Server, Start, Arrive, FirstBack, PostBack, Beat, PostFails, Stop
<1>4. ASSUME \/ RegistryRestarts \/ RefreshFresh \/ RefreshAsk \/ RegistryLists
             \/ RefreshFails \/ PickNone \/ Tick \/ UNCHANGED vars
             \/ \E m \in late : ArriveLate(m)
      PROVE  UNCHANGED <<servers, byUser, index, turns>>
  BY <1>4 DEF RegistryRestarts, RefreshFresh, RefreshAsk, RegistryLists,
    RefreshFails, PickNone, Tick, ArriveLate
<1> QED
  BY <1>1, <1>2, <1>3, <1>4, StoreTurns, PickTurns DEF Next, Client

\* Round robin chooses the servers of a list evenly, however many there are
\* and wherever the index began (discovery.go:55-58).
THEOREM TurnsAreEven == Spec => []EvenTurns
<1>1. Init => TurnInv
  BY EmptySeq DEF Init, TurnInv, InOrder
<1>2. IInv /\ TurnInv => EvenTurns
  <2> SUFFICES ASSUME IInv, TurnInv, NEW a \in ToSet(servers), NEW b \in ToSet(servers)
               PROVE  turns[a] <= turns[b] + 1
    BY DEF EvenTurns
  <2>1. Len(servers) \in Nat /\ DOMAIN servers = 1 .. Len(servers) /\ servers # <<>>
    BY LenProperties DEF IInv, ListType, ToSet
  <2>2. \A x \in ToSet(servers) : \E p \in 0 .. Len(servers) - 1 : x = servers[p + 1]
    <3> SUFFICES ASSUME NEW k \in 1 .. Len(servers)
                 PROVE  \E p \in 0 .. Len(servers) - 1 : servers[k] = servers[p + 1]
      BY <2>1 DEF ToSet
    <3>1. k - 1 \in 0 .. Len(servers) - 1 /\ (k - 1) + 1 = k
      BY <2>1
    <3> QED
      BY <3>1
  <2>3. \A p \in 0 .. Len(servers) - 1 :
          turns[servers[p + 1]] = 0 \/ turns[servers[p + 1]] = 1
    <3>1. PICK s \in 0 .. Len(servers) - 1 : \A p \in 0 .. Len(servers) - 1 :
            turns[servers[p + 1]] =
              IF Taken(s, index % Len(servers), p) THEN 1 ELSE 0
      BY <2>1 DEF TurnInv
    <3> QED
      BY <3>1
  <2>4. \A x \in ToSet(servers) : turns[x] = 0 \/ turns[x] = 1
    BY <2>2, <2>3
  <2> QED
    BY <2>4
<1> QED
  BY Invariance, <1>1, <1>2, TurnStep, PTL DEF Spec

==============================================================================
