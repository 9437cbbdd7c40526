---------------------------- MODULE XClientProofs ----------------------------
(***************************************************************************)
(* Theorems about XClient for any servers, callers and number of dials.    *)
(* No connection is lost sight of because whoever dials holds XClient.mu,  *)
(* so that nobody touches the pool between the moment the old client is    *)
(* taken out and the moment the new one goes in.                           *)
(***************************************************************************)
EXTENDS XClient, TLAPS

\* What connects mu, the pool and the connections.
PoolInv ==
  /\ \A a \in Addrs : pool[a] # 0 => conns[pool[a]].addr = a
  /\ \A p \in Procs : pc[p] \in {"lock", "dial", "await", "call"} => tgt[p] # None
  /\ \A p \in Procs : pc[p] \in {"dial", "await"} => pool[tgt[p]] = 0
  /\ \A p \in Procs : pc[p] = "await" => cl[p] # 0 /\ conns[cl[p]].addr = tgt[p]
  /\ \A p \in Procs : pc[p] = "call" => cl[p] # 0

\* What Broadcast's lock protects.
ReplyInv ==
  /\ \A w \in Addrs : pc[w] \in {"collect", "done"} => res[w] # "none"
  /\ reply # None => pc[reply] = "done" /\ res[reply] = "ok"
  /\ reply = None => \A w \in Addrs : pc[w] = "done" => res[w] = "error"
  /\ returned => \A w \in Addrs : pc[w] = "done"

\* That of the types and the pool together is inductive.
IInv == TypeOK /\ PoolInv /\ NoLeak /\ ReplyInv

LEMMA ConnFacts ==
  ASSUME TypeOK
  PROVE  /\ Len(conns) \in Nat /\ DOMAIN conns = 1 .. Len(conns)
         /\ \A i \in DOMAIN conns : conns[i] \in Conn
         /\ \A a \in Addrs : pool[a] # 0 => pool[a] \in DOMAIN conns
         /\ \A p \in Procs : cl[p] # 0 => cl[p] \in DOMAIN conns
BY DEF TypeOK, DialTypeOK

\* Whoever dials alone does so.
LEMMA OneDialler ==
  ASSUME TypeOK, NEW p \in Procs, pc[p] \in {"dial", "await"}
  PROVE  /\ mu = p /\ mu # None
         /\ \A q \in Procs : pc[q] \in {"dial", "await"} => q = p
BY XClientAssumption DEF TypeOK

LEMMA AddrFacts == Addrs \subseteq Procs /\ None \notin Procs /\ None \notin Addrs
BY XClientAssumption DEF Procs

\* Closing keeps the connections otherwise as they are.
LEMMA ClosedConns ==
  ASSUME TypeOK, NEW C
  PROVE  /\ Closed(C) \in Seq(Conn) /\ Len(Closed(C)) = Len(conns)
         /\ \A i \in DOMAIN conns :
              /\ Closed(C)[i].addr = conns[i].addr
              /\ Closed(C)[i].maker = conns[i].maker
              /\ Closed(C)[i].client = conns[i].client
              /\ Closed(C)[i].sock = IF i \in C THEN "closed" ELSE conns[i].sock
<1>1. /\ Len(conns) \in Nat /\ DOMAIN conns = 1 .. Len(conns)
      /\ \A i \in DOMAIN conns : conns[i] \in Conn
  BY ConnFacts
<1>2. DOMAIN Closed(C) = 1 .. Len(conns) BY <1>1 DEF Closed
<1>3. ASSUME NEW i \in DOMAIN conns
      PROVE  /\ Closed(C)[i] \in Conn
             /\ Closed(C)[i].addr = conns[i].addr
             /\ Closed(C)[i].maker = conns[i].maker
             /\ Closed(C)[i].client = conns[i].client
             /\ Closed(C)[i].sock = IF i \in C THEN "closed" ELSE conns[i].sock
  <2>1. conns[i] \in Conn BY <1>1
  <2>2. Closed(C)[i] = IF i \in C THEN [conns[i] EXCEPT !.sock = "closed"]
                                  ELSE conns[i]
    BY DEF Closed
  <2>3. QED BY <2>1, <2>2 DEF Conn
<1>4. Closed(C) \in Seq(Conn) /\ Len(Closed(C)) = Len(conns)
  <2>1. Closed(C) = [i \in 1 .. Len(conns) |-> Closed(C)[i]]
    BY <1>1 DEF Closed
  <2>2. \A i \in 1 .. Len(conns) : Closed(C)[i] \in Conn BY <1>1, <1>3
  <2> HIDE DEF Closed
  <2>3. QED BY <1>1, <1>2, <2>1, <2>2
<1>5. QED BY <1>3, <1>4

\* A function on the connections is a sequence of as many.
LEMMA SameLength ==
  ASSUME TypeOK, NEW f, f = [j \in DOMAIN conns |-> f[j]],
         \A j \in DOMAIN conns : f[j] \in Conn
  PROVE  f \in Seq(Conn) /\ Len(f) = Len(conns) /\ DOMAIN f = DOMAIN conns
<1>1. DOMAIN conns = 1 .. Len(conns) /\ Len(conns) \in Nat BY ConnFacts
<1>2. f \in [1 .. Len(conns) -> Conn] BY <1>1
<1>3. QED BY <1>1, <1>2

\* Connections are added but not removed; they keep their address, and a
\* closed one stays closed.
Grown(s) ==
  /\ s \in Seq(Conn) /\ Len(s) <= MaxDials /\ Len(conns) <= Len(s)
  /\ DOMAIN conns \subseteq DOMAIN s
  /\ \A i \in DOMAIN conns :
       /\ s[i].addr = conns[i].addr
       /\ conns[i].sock = "closed" => s[i].sock = "closed"

\* Every step.
LEMMA StepGrown ==
  ASSUME TypeOK, PoolInv, [Next]_vars
  PROVE  Grown(conns')
<1>1. CASE UNCHANGED vars
  BY <1>1, ConnFacts DEF vars, poolVars, bcVars, Grown, TypeOK, DialTypeOK
<1>2. ASSUME NEW p \in Procs, NEW a \in Addrs, Pick(p, a) PROVE Grown(conns')
  BY <1>2, ConnFacts DEF Pick, poolVars, bcVars, Grown, TypeOK, DialTypeOK
<1>3. ASSUME NEW p \in Procs, PickFails(p) PROVE Grown(conns')
  BY <1>3, ConnFacts
   DEF PickFails, End, poolVars, bcVars, Grown, TypeOK, DialTypeOK
<1>4. ASSUME NEW p \in Procs, UsePooled(p) PROVE Grown(conns')
  BY <1>4, ConnFacts DEF UsePooled, poolVars, bcVars, Grown, TypeOK, DialTypeOK
<1>5. ASSUME NEW p \in Procs, StartDial(p) PROVE Grown(conns')
  BY <1>5, ConnFacts, ClosedConns
   DEF StartDial, CanLock, poolVars, bcVars, Grown, TypeOK, DialTypeOK
<1>6. ASSUME NEW p \in Procs, DialFails(p) PROVE Grown(conns')
  BY <1>6, ConnFacts
   DEF DialFails, End, Released, poolVars, bcVars, Grown, TypeOK, DialTypeOK
<1>7. ASSUME NEW p \in Procs, DialConnects(p) PROVE Grown(conns')
  <2>1. [addr |-> tgt[p], sock |-> "open", maker |-> "making", client |-> "none"] \in Conn
    BY <1>7 DEF DialConnects, PoolInv, TypeOK, Conn
  <2>2. /\ conns' \in Seq(Conn) /\ Len(conns') = Len(conns) + 1
        /\ \A i \in DOMAIN conns : conns'[i] = conns[i]
    BY <1>7, <2>1, ConnFacts DEF DialConnects, Connect, TypeOK, DialTypeOK
  <2>3. Len(conns) < MaxDials BY <1>7 DEF DialConnects, Connect
  <2>4. DOMAIN conns' = 1 .. Len(conns') BY <2>2
  <2>5. QED BY <2>2, <2>3, <2>4, ConnFacts, DialAssumption DEF Grown
<1>8. ASSUME NEW p \in Procs, DialReturns(p) PROVE Grown(conns')
  <2>0. cl[p] \in DOMAIN conns BY <1>8, ConnFacts DEF DialReturns, PoolInv
  <2>1. /\ conns' = [j \in DOMAIN conns |-> conns'[j]]
        /\ \A j \in DOMAIN conns :
             /\ conns'[j] \in Conn /\ conns'[j].addr = conns[j].addr
             /\ conns[j].sock = "closed" => conns'[j].sock = "closed"
    BY <1>8, <2>0, ConnFacts DEF DialReturns, Handed, Conn
  <2>2. QED BY <2>1, SameLength, ConnFacts DEF Grown, TypeOK, DialTypeOK
<1>9. ASSUME NEW p \in Procs, DialTimesOut(p) PROVE Grown(conns')
  BY <1>9, ConnFacts, ClosedConns
   DEF DialTimesOut, End, Released, TimedOut, poolVars, bcVars, Grown, TypeOK,
      DialTypeOK
<1>10. ASSUME NEW p \in Procs, CallEnds(p) PROVE Grown(conns')
  BY <1>10, ConnFacts
   DEF CallEnds, End, Counted, poolVars, bcVars, Grown, TypeOK, DialTypeOK
<1>11. ASSUME NEW w \in Addrs, Collect(w) PROVE Grown(conns')
  BY <1>11, ConnFacts
   DEF Collect, ReplyOpen, poolVars, bcVars, Grown, TypeOK, DialTypeOK
<1>12. CASE Return
  BY <1>12, ConnFacts
   DEF Return, WorkersDone, poolVars, bcVars, Grown, TypeOK, DialTypeOK
<1>13. CASE Close
  BY <1>13, ConnFacts, ClosedConns
   DEF Close, poolVars, bcVars, Grown, TypeOK, DialTypeOK
<1>14. ASSUME NEW i \in DOMAIN conns, Maker(i) PROVE Grown(conns')
  <2>1. /\ conns' = [j \in DOMAIN conns |-> conns'[j]]
        /\ \A j \in DOMAIN conns :
             /\ conns'[j] \in Conn /\ conns'[j].addr = conns[j].addr
             /\ conns[j].sock = "closed" => conns'[j].sock = "closed"
    BY <1>14, ConnFacts DEF Maker, Made, Conn
  <2>2. QED BY <2>1, SameLength, ConnFacts DEF Grown, TypeOK, DialTypeOK
<1>15. ASSUME NEW i \in DOMAIN conns, MakerEnds(i) PROVE Grown(conns')
  <2>1. /\ conns' = [j \in DOMAIN conns |-> conns'[j]]
        /\ \A j \in DOMAIN conns :
             /\ conns'[j] \in Conn /\ conns'[j].addr = conns[j].addr
             /\ conns[j].sock = "closed" => conns'[j].sock = "closed"
    BY <1>15, ConnFacts DEF MakerEnds, Late, Conn
  <2>2. QED BY <2>1, SameLength, ConnFacts DEF Grown, TypeOK, DialTypeOK
<1>16. ASSUME NEW i \in DOMAIN conns, Receive(i) PROVE Grown(conns')
  <2>1. /\ conns' = [j \in DOMAIN conns |-> conns'[j]]
        /\ \A j \in DOMAIN conns :
             /\ conns'[j] \in Conn /\ conns'[j].addr = conns[j].addr
             /\ conns[j].sock = "closed" => conns'[j].sock = "closed"
    BY <1>16, ConnFacts DEF Receive, ReceiveEnds, Conn
  <2>2. QED BY <2>1, SameLength, ConnFacts DEF Grown, TypeOK, DialTypeOK
<1>17. ASSUME NEW i \in DOMAIN conns, Lose(i) PROVE Grown(conns')
  <2>1. /\ conns' = [j \in DOMAIN conns |-> conns'[j]]
        /\ \A j \in DOMAIN conns :
             /\ conns'[j] \in Conn /\ conns'[j].addr = conns[j].addr
             /\ conns[j].sock = "closed" => conns'[j].sock = "closed"
    BY <1>17, ConnFacts DEF Lose, Lost, Conn
  <2>2. QED BY <2>1, SameLength, ConnFacts DEF Grown, TypeOK, DialTypeOK
<1> QED
  BY <1>1, <1>2, <1>3, <1>4, <1>5, <1>6, <1>7, <1>8, <1>9, <1>10, <1>11,
      <1>12, <1>13, <1>14, <1>15, <1>16, <1>17
  DEF Next, Step

LEMMA GrownFacts ==
  ASSUME TypeOK, [Next]_vars, PoolInv
  PROVE  /\ DialTypeOK' /\ Len(conns) \in Nat /\ Len(conns') \in Nat
         /\ Len(conns) <= Len(conns')
         /\ pool \in [Addrs -> 0 .. Len(conns')] /\ cl \in [Procs -> 0 .. Len(conns')]
         /\ \A i \in DOMAIN conns : i \in DOMAIN conns'
<1>1. /\ DialTypeOK' /\ Len(conns) \in Nat /\ Len(conns') \in Nat
      /\ Len(conns) <= Len(conns') /\ DOMAIN conns \subseteq DOMAIN conns'
  BY StepGrown, ConnFacts DEF Grown, DialTypeOK
<1>2. \A n \in 0 .. Len(conns) : n \in 0 .. Len(conns') BY <1>1
<1>3. QED BY <1>1, <1>2 DEF TypeOK

\* Every step keeps the types.
LEMMA StepTypes ==
  ASSUME TypeOK, PoolInv, [Next]_vars
  PROVE  TypeOK'
<1>1. CASE UNCHANGED vars
  BY <1>1, GrownFacts, AddrFacts DEF vars, poolVars, bcVars, TypeOK
<1>2. ASSUME NEW p \in Procs, NEW a \in Addrs, Pick(p, a) PROVE TypeOK'
  BY <1>2, GrownFacts, AddrFacts DEF Pick, poolVars, bcVars, TypeOK
<1>3. ASSUME NEW p \in Procs, PickFails(p) PROVE TypeOK'
  BY <1>3, GrownFacts, AddrFacts DEF PickFails, End, poolVars, bcVars, TypeOK
<1>4. ASSUME NEW p \in Procs, UsePooled(p) PROVE TypeOK'
  BY <1>4, GrownFacts, AddrFacts DEF UsePooled, poolVars, bcVars, TypeOK, PoolInv
<1>5. ASSUME NEW p \in Procs, StartDial(p) PROVE TypeOK'
  <2>1. tgt[p] \in Addrs /\ \A q \in Procs : pc[q] \notin {"dial", "await"}
    BY <1>5, AddrFacts DEF StartDial, CanLock, TypeOK, PoolInv
  <2>2. /\ pool' = [pool EXCEPT ![tgt[p]] = 0] /\ mu' = p
        /\ pc' = [pc EXCEPT ![p] = "dial"]
        /\ UNCHANGED <<tgt, cl, res, reply, e, returned, ran>>
    BY <1>5 DEF StartDial, bcVars
  <2>3. 0 \in 0 .. Len(conns') BY GrownFacts
  <2>4. pool' \in [Addrs -> 0 .. Len(conns')] BY <2>2, <2>3, GrownFacts
  <2>5. QED BY <2>1, <2>2, <2>4, GrownFacts, AddrFacts DEF TypeOK
<1>6. ASSUME NEW p \in Procs, DialFails(p) PROVE TypeOK'
  <2>1. mu = p /\ mu # None /\ \A q \in Procs : pc[q] \in {"dial", "await"} => q = p
    BY <1>6, OneDialler DEF DialFails
  <2>2. tgt[p] \in Addrs BY <1>6 DEF DialFails, TypeOK, PoolInv
  <2>3. QED BY <1>6, <2>1, <2>2, GrownFacts, AddrFacts, ConnFacts
    DEF DialFails, End, Released, bcVars, TypeOK
<1>7. ASSUME NEW p \in Procs, DialConnects(p) PROVE TypeOK'
  <2>1. mu = p /\ mu # None /\ \A q \in Procs : pc[q] \in {"dial", "await"} => q = p
    BY <1>7, OneDialler DEF DialConnects
  <2>2. cl' \in [Procs -> 0 .. Len(conns')]
    <3>1. Len(conns') = Len(conns) + 1
      BY <1>7, ConnFacts DEF DialConnects, Connect, TypeOK, DialTypeOK
    <3>2. Len(conns) + 1 \in 0 .. Len(conns') BY <3>1, ConnFacts
    <3>3. QED BY <1>7, <3>2, GrownFacts DEF DialConnects
  <2>3. QED
    BY <1>7, <2>1, <2>2, GrownFacts, AddrFacts
     DEF DialConnects, bcVars, TypeOK
<1>8. ASSUME NEW p \in Procs, DialReturns(p) PROVE TypeOK'
  <2>1. mu = p /\ mu # None /\ \A q \in Procs : pc[q] \in {"dial", "await"} => q = p
    BY <1>8, OneDialler DEF DialReturns
  <2>2. tgt[p] \in Addrs BY <1>8 DEF DialReturns, TypeOK, PoolInv
  <2>3. pool' \in [Addrs -> 0 .. Len(conns')]
    BY <1>8, <2>2, GrownFacts DEF DialReturns, TypeOK
  <2>4. /\ pc' \in [Procs -> {"pick", "lock", "dial", "await", "call", "collect", "done"}]
        /\ pc'[p] \notin {"dial", "await"} /\ mu' = None
        /\ \A q \in Procs : q # p => pc'[q] = pc[q]
        /\ res' \in [Procs -> {"none", "ok", "error"}]
    BY <1>8 DEF DialReturns, End, Released, TypeOK
  <2>5. UNCHANGED <<tgt, cl, reply, e, returned, ran>>
    BY <1>8 DEF DialReturns, bcVars
  <2>6. QED BY <2>1, <2>3, <2>4, <2>5, GrownFacts, AddrFacts DEF TypeOK
<1>9. ASSUME NEW p \in Procs, DialTimesOut(p) PROVE TypeOK'
  <2>1. mu = p /\ mu # None /\ \A q \in Procs : pc[q] \in {"dial", "await"} => q = p
    BY <1>9, OneDialler DEF DialTimesOut
  <2>2. tgt[p] \in Addrs BY <1>9 DEF DialTimesOut, TypeOK, PoolInv
  <2>3. QED BY <1>9, <2>1, <2>2, GrownFacts, AddrFacts, ConnFacts
    DEF DialTimesOut, End, Released, bcVars, TypeOK
<1>10. ASSUME NEW p \in Procs, CallEnds(p) PROVE TypeOK'
  BY <1>10, GrownFacts, AddrFacts
   DEF CallEnds, End, Counted, poolVars, bcVars, TypeOK
<1>11. ASSUME NEW w \in Addrs, Collect(w) PROVE TypeOK'
  BY <1>11, GrownFacts, AddrFacts DEF Collect, ReplyOpen, poolVars, bcVars, TypeOK
<1>12. CASE Return
  BY <1>12, GrownFacts, AddrFacts
   DEF Return, WorkersDone, poolVars, bcVars, TypeOK
<1>13. CASE Close
  <2>1. /\ pool' = [b \in Addrs |-> 0]
        /\ UNCHANGED <<mu, pc, tgt, cl, res, reply, e, returned, ran>>
    BY <1>13 DEF Close, bcVars
  <2>2. 0 \in 0 .. Len(conns') BY GrownFacts
  <2>3. pool' \in [Addrs -> 0 .. Len(conns')] BY <2>1, <2>2
  <2>4. QED BY <2>1, <2>3, GrownFacts, AddrFacts DEF TypeOK
<1>14. ASSUME NEW i \in DOMAIN conns, Maker(i) PROVE TypeOK'
  BY <1>14, GrownFacts, AddrFacts DEF Maker, dialVars, bcVars, TypeOK
<1>15. ASSUME NEW i \in DOMAIN conns, MakerEnds(i) PROVE TypeOK'
  BY <1>15, GrownFacts, AddrFacts DEF MakerEnds, dialVars, bcVars, TypeOK
<1>16. ASSUME NEW i \in DOMAIN conns, Receive(i) PROVE TypeOK'
  BY <1>16, GrownFacts, AddrFacts DEF Receive, dialVars, bcVars, TypeOK
<1>17. ASSUME NEW i \in DOMAIN conns, Lose(i) PROVE TypeOK'
  BY <1>17, GrownFacts, AddrFacts DEF Lose, dialVars, bcVars, TypeOK
<1> QED
  BY <1>1, <1>2, <1>3, <1>4, <1>5, <1>6, <1>7, <1>8, <1>9, <1>10, <1>11,
      <1>12, <1>13, <1>14, <1>15, <1>16, <1>17
  DEF Next, Step

\* Every step keeps the pool and the connections together.
LEMMA StepPool ==
  ASSUME TypeOK, PoolInv, [Next]_vars
  PROVE  PoolInv'
<1>1. CASE UNCHANGED vars
  BY <1>1, StepGrown, ConnFacts, AddrFacts
   DEF vars, poolVars, bcVars, Grown, TypeOK, PoolInv
<1>2. ASSUME NEW p \in Procs, NEW a \in Addrs, Pick(p, a) PROVE PoolInv'
  BY <1>2, StepGrown, ConnFacts, AddrFacts
   DEF Pick, poolVars, bcVars, Grown, TypeOK, PoolInv
<1>3. ASSUME NEW p \in Procs, PickFails(p) PROVE PoolInv'
  BY <1>3, StepGrown, ConnFacts, AddrFacts
   DEF PickFails, End, poolVars, bcVars, Grown, TypeOK, PoolInv
<1>4. ASSUME NEW p \in Procs, UsePooled(p) PROVE PoolInv'
  BY <1>4, StepGrown, ConnFacts, AddrFacts
   DEF UsePooled, poolVars, bcVars, Grown, TypeOK, PoolInv
<1>5. ASSUME NEW p \in Procs, StartDial(p) PROVE PoolInv'
  <2>1. tgt[p] \in Addrs /\ \A q \in Procs : pc[q] \notin {"dial", "await"}
    BY <1>5, AddrFacts DEF StartDial, CanLock, TypeOK, PoolInv
  <2>2. /\ pool' = [pool EXCEPT ![tgt[p]] = 0] /\ pc[p] = "lock"
        /\ pc' = [pc EXCEPT ![p] = "dial"] /\ UNCHANGED <<tgt, cl>>
    BY <1>5 DEF StartDial
  <2>3. QED BY <2>1, <2>2, StepGrown, ConnFacts DEF Grown, TypeOK, PoolInv
<1>6. ASSUME NEW p \in Procs, DialFails(p) PROVE PoolInv'
  BY <1>6, StepGrown, ConnFacts, AddrFacts
   DEF DialFails, End, Released, poolVars, bcVars, Grown, TypeOK, PoolInv
<1>7. ASSUME NEW p \in Procs, DialConnects(p) PROVE PoolInv'
  <2>1. \A q \in Procs : pc[q] \in {"dial", "await"} => q = p
    BY <1>7, OneDialler DEF DialConnects
  <2>2. /\ pc[p] = "dial" /\ pc' = [pc EXCEPT ![p] = "await"]
        /\ cl' = [cl EXCEPT ![p] = Len(conns) + 1] /\ UNCHANGED <<pool, tgt>>
    BY <1>7 DEF DialConnects
  <2>3. Len(conns) + 1 # 0 /\ conns'[Len(conns) + 1].addr = tgt[p]
    BY <1>7, ConnFacts DEF DialConnects, Connect, TypeOK, DialTypeOK
  <2>4. QED BY <2>1, <2>2, <2>3, StepGrown, ConnFacts DEF Grown, TypeOK, PoolInv
<1>8. ASSUME NEW p \in Procs, DialReturns(p) PROVE PoolInv'
  <2>1. \A q \in Procs : pc[q] \in {"dial", "await"} => q = p
    BY <1>8, OneDialler DEF DialReturns
  <2>2. pc[p] = "await" /\ cl[p] # 0 /\ conns[cl[p]].addr = tgt[p] /\ tgt[p] \in Addrs
    BY <1>8 DEF DialReturns, TypeOK, PoolInv
  <2>3. /\ pool' = pool \/ pool' = [pool EXCEPT ![tgt[p]] = cl[p]]
        /\ pc'[p] \in {"call", "collect", "done"}
        /\ \A q \in Procs : q # p => pc'[q] = pc[q]
        /\ UNCHANGED <<tgt, cl>>
    BY <1>8 DEF DialReturns, End, TypeOK
  <2>4. QED BY <2>1, <2>2, <2>3, StepGrown, ConnFacts DEF Grown, TypeOK, PoolInv
<1>9. ASSUME NEW p \in Procs, DialTimesOut(p) PROVE PoolInv'
  BY <1>9, StepGrown, ConnFacts, AddrFacts
   DEF DialTimesOut, End, Released, bcVars, Grown, TypeOK, PoolInv
<1>10. ASSUME NEW p \in Procs, CallEnds(p) PROVE PoolInv'
  BY <1>10, StepGrown, ConnFacts, AddrFacts
   DEF CallEnds, End, Counted, poolVars, bcVars, Grown, TypeOK, PoolInv
<1>11. ASSUME NEW w \in Addrs, Collect(w) PROVE PoolInv'
  BY <1>11, StepGrown, ConnFacts, AddrFacts
   DEF Collect, ReplyOpen, poolVars, bcVars, Grown, TypeOK, PoolInv
<1>12. CASE Return
  BY <1>12, StepGrown, ConnFacts, AddrFacts
   DEF Return, WorkersDone, poolVars, bcVars, Grown, TypeOK, PoolInv
<1>13. CASE Close
  <2>1. \A q \in Procs : pc[q] \notin {"dial", "await"}
    BY <1>13, AddrFacts DEF Close, TypeOK
  <2>2. pool' = [a \in Addrs |-> 0] /\ UNCHANGED <<pc, tgt, cl>>
    BY <1>13
     DEF Close
  <2>3. QED BY <2>1, <2>2 DEF PoolInv
<1>14. ASSUME NEW i \in DOMAIN conns, Maker(i) PROVE PoolInv'
  <2>1. UNCHANGED <<pool, pc, tgt, cl>> BY <1>14 DEF Maker, dialVars
  <2>2. QED BY <2>1, StepGrown, ConnFacts DEF Grown, PoolInv
<1>15. ASSUME NEW i \in DOMAIN conns, MakerEnds(i) PROVE PoolInv'
  <2>1. UNCHANGED <<pool, pc, tgt, cl>> BY <1>15 DEF MakerEnds, dialVars
  <2>2. QED BY <2>1, StepGrown, ConnFacts DEF Grown, PoolInv
<1>16. ASSUME NEW i \in DOMAIN conns, Receive(i) PROVE PoolInv'
  <2>1. UNCHANGED <<pool, pc, tgt, cl>> BY <1>16 DEF Receive, dialVars
  <2>2. QED BY <2>1, StepGrown, ConnFacts DEF Grown, PoolInv
<1>17. ASSUME NEW i \in DOMAIN conns, Lose(i) PROVE PoolInv'
  <2>1. UNCHANGED <<pool, pc, tgt, cl>> BY <1>17 DEF Lose, dialVars
  <2>2. QED BY <2>1, StepGrown, ConnFacts DEF Grown, PoolInv
<1> QED
  BY <1>1, <1>2, <1>3, <1>4, <1>5, <1>6, <1>7, <1>8, <1>9, <1>10, <1>11,
      <1>12, <1>13, <1>14, <1>15, <1>16, <1>17
  DEF Next, Step

\* Every step keeps sight of every connection.
LEMMA StepLeak ==
  ASSUME TypeOK, PoolInv, NoLeak, [Next]_vars
  PROVE  NoLeak'
<1>1. CASE UNCHANGED vars
  BY <1>1, AddrFacts DEF vars, poolVars, bcVars, NoLeak, Finished, TypeOK
<1>2. ASSUME NEW p \in Procs, NEW a \in Addrs, Pick(p, a) PROVE NoLeak'
  BY <1>2, AddrFacts DEF Pick, poolVars, bcVars, NoLeak, Finished, TypeOK
<1>3. ASSUME NEW p \in Procs, PickFails(p) PROVE NoLeak'
  BY <1>3, AddrFacts
   DEF PickFails, End, poolVars, bcVars, NoLeak, Finished, TypeOK
<1>4. ASSUME NEW p \in Procs, UsePooled(p) PROVE NoLeak'
  <2>1. /\ UNCHANGED <<pool, conns>> /\ pc[p] = "lock" /\ pc'[p] = "call"
        /\ \A q \in Procs : q # p => pc'[q] = pc[q] /\ cl'[q] = cl[q]
    BY <1>4 DEF UsePooled, poolVars, TypeOK
  <2>2. QED BY <2>1 DEF NoLeak, Finished
<1>5. ASSUME NEW p \in Procs, StartDial(p) PROVE NoLeak'
  <2>1. tgt[p] \in Addrs /\ \A q \in Procs : pc[q] # "await"
    BY <1>5, AddrFacts DEF StartDial, CanLock, TypeOK, PoolInv
  <2>2. \A i \in DOMAIN conns : conns[i].sock = "closed" \/ pool[conns[i].addr] = i
    BY <2>1 DEF NoLeak, Finished
  <2>3. /\ conns' = Closed({pool[tgt[p]]}) /\ pool' = [pool EXCEPT ![tgt[p]] = 0]
        /\ DOMAIN conns' = DOMAIN conns
    BY <1>5, ConnFacts, ClosedConns DEF StartDial, Closed
  <2>4. \A i \in DOMAIN conns :
          conns'[i].sock = "closed" \/ pool'[conns'[i].addr] = i
    BY <2>1, <2>2, <2>3, ClosedConns, ConnFacts DEF TypeOK, Conn
  <2>5. QED BY <2>3, <2>4 DEF NoLeak
<1>6. ASSUME NEW p \in Procs, DialFails(p) PROVE NoLeak'
  <2>1. /\ UNCHANGED <<pool, conns, cl>> /\ pc[p] # "await" /\ pc'[p] # "await"
        /\ \A q \in Procs : q # p => pc'[q] = pc[q]
    BY <1>6 DEF DialFails, End, TypeOK
  <2>2. QED BY <2>1 DEF NoLeak, Finished
<1>7. ASSUME NEW p \in Procs, DialConnects(p) PROVE NoLeak'
  <2>1. /\ pc'[p] = "await" /\ cl'[p] = Len(conns) + 1 /\ pc[p] = "dial"
        /\ \A q \in Procs : q # p => pc'[q] = pc[q] /\ cl'[q] = cl[q]
        /\ UNCHANGED pool
    BY <1>7 DEF DialConnects, TypeOK
  <2>2. /\ DOMAIN conns' = DOMAIN conns \cup {Len(conns) + 1}
        /\ \A i \in DOMAIN conns : conns'[i] = conns[i]
    BY <1>7, ConnFacts DEF DialConnects, Connect, TypeOK, DialTypeOK
  <2>3. QED BY <2>1, <2>2 DEF NoLeak, Finished
<1>8. ASSUME NEW p \in Procs, DialReturns(p) PROVE NoLeak'
  <2>1. \A q \in Procs : pc[q] = "await" => q = p
    BY <1>8, OneDialler DEF DialReturns
  <2>2. /\ pc[p] = "await" /\ cl[p] \in DOMAIN conns
        /\ conns[cl[p]].addr = tgt[p] /\ tgt[p] \in Addrs /\ pool[tgt[p]] = 0
    BY <1>8, ConnFacts DEF DialReturns, TypeOK, PoolInv
  <2>3. /\ DOMAIN conns' = DOMAIN conns
        /\ \A i \in DOMAIN conns : i # cl[p] => conns'[i] = conns[i]
        /\ conns'[cl[p]].addr = tgt[p]
        /\ conns[cl[p]].maker = "failed" => conns'[cl[p]].sock = "closed"
    BY <1>8, <2>2, ConnFacts DEF DialReturns, Handed, Conn
  <2>4. \/ conns[cl[p]].maker = "made" /\ pool' = [pool EXCEPT ![tgt[p]] = cl[p]]
        \/ conns[cl[p]].maker = "failed" /\ pool' = pool
    BY <1>8 DEF DialReturns
  <2>5. \A i \in DOMAIN conns : i # cl[p] =>
          conns[i].sock = "closed" \/ pool[conns[i].addr] = i
    BY <2>1 DEF NoLeak, Finished
  <2>6. ASSUME NEW i \in DOMAIN conns
        PROVE  conns'[i].sock = "closed" \/ pool'[conns'[i].addr] = i
    <3>1. CASE i = cl[p] BY <2>2, <2>3, <2>4, <3>1 DEF TypeOK
    <3>2. CASE i # cl[p]
      <4>1. conns[i].addr \in Addrs /\ i # 0 BY ConnFacts DEF Conn
      <4>2. QED BY <2>2, <2>3, <2>4, <2>5, <3>2, <4>1 DEF TypeOK
    <3>3. QED BY <3>1, <3>2
  <2>7. QED BY <2>3, <2>6 DEF NoLeak
<1>9. ASSUME NEW p \in Procs, DialTimesOut(p) PROVE NoLeak'
  <2>1. \A q \in Procs : pc[q] = "await" => q = p
    BY <1>9, OneDialler DEF DialTimesOut
  <2>2. /\ conns' = Closed({cl[p]}) /\ pool' = pool
        /\ DOMAIN conns' = DOMAIN conns
    BY <1>9, ConnFacts, ClosedConns DEF DialTimesOut, TimedOut, Closed
  <2>3. \A i \in DOMAIN conns :
          conns'[i].sock = "closed" \/ pool'[conns'[i].addr] = i
    BY <2>1, <2>2, ClosedConns DEF NoLeak, Finished
  <2>4. QED BY <2>2, <2>3 DEF NoLeak
<1>10. ASSUME NEW p \in Procs, CallEnds(p) PROVE NoLeak'
  <2>1. /\ UNCHANGED <<pool, conns, cl>>
        /\ pc[p] # "await" /\ pc'[p] # "await"
        /\ \A q \in Procs : q # p => pc'[q] = pc[q]
    BY <1>10 DEF CallEnds, End, poolVars, TypeOK
  <2>2. QED BY <2>1 DEF NoLeak, Finished
<1>11. ASSUME NEW w \in Addrs, Collect(w) PROVE NoLeak'
  <2>1. /\ UNCHANGED <<pool, conns, cl>>
        /\ \A q \in Procs : pc[q] = "await" => pc'[q] = "await"
    BY <1>11 DEF Collect, poolVars, TypeOK
  <2>2. QED BY <2>1 DEF NoLeak, Finished
<1>12. CASE Return
  BY <1>12, AddrFacts
   DEF Return, WorkersDone, poolVars, bcVars, NoLeak, Finished, TypeOK
<1>13. CASE Close
  <2>1. \A q \in Procs : pc[q] # "await"
    BY <1>13, AddrFacts DEF Close, TypeOK
  <2>2. /\ conns' = Closed({pool[a] : a \in Addrs})
        /\ DOMAIN conns' = DOMAIN conns
    BY <1>13, ConnFacts, ClosedConns DEF Close, Closed
  <2>3. \A i \in DOMAIN conns : conns[i].sock = "closed" \/ pool[conns[i].addr] = i
    BY <2>1 DEF NoLeak, Finished
  <2>4. \A i \in DOMAIN conns : conns'[i].sock = "closed"
    BY <2>2, <2>3, ClosedConns, ConnFacts DEF Conn
  <2>5. QED BY <2>2, <2>4 DEF NoLeak
<1>14. ASSUME NEW i \in DOMAIN conns, Maker(i) PROVE NoLeak'
  <2>1. UNCHANGED <<pool, pc, cl>> /\ DOMAIN conns' = DOMAIN conns
    BY <1>14 DEF Maker, dialVars, Made
  <2>2. QED BY <2>1, StepGrown DEF Grown, NoLeak, Finished
<1>15. ASSUME NEW i \in DOMAIN conns, MakerEnds(i) PROVE NoLeak'
  <2>1. UNCHANGED <<pool, pc, cl>> /\ DOMAIN conns' = DOMAIN conns
    BY <1>15 DEF MakerEnds, dialVars, Late
  <2>2. QED BY <2>1, StepGrown DEF Grown, NoLeak, Finished
<1>16. ASSUME NEW i \in DOMAIN conns, Receive(i) PROVE NoLeak'
  <2>1. UNCHANGED <<pool, pc, cl>> /\ DOMAIN conns' = DOMAIN conns
    BY <1>16 DEF Receive, dialVars, ReceiveEnds
  <2>2. QED BY <2>1, StepGrown DEF Grown, NoLeak, Finished
<1>17. ASSUME NEW i \in DOMAIN conns, Lose(i) PROVE NoLeak'
  <2>1. UNCHANGED <<pool, pc, cl>> /\ DOMAIN conns' = DOMAIN conns
    BY <1>17 DEF Lose, dialVars, Lost
  <2>2. QED BY <2>1, StepGrown DEF Grown, NoLeak, Finished
<1> QED
  BY <1>1, <1>2, <1>3, <1>4, <1>5, <1>6, <1>7, <1>8, <1>9, <1>10, <1>11,
      <1>12, <1>13, <1>14, <1>15, <1>16, <1>17
  DEF Next, Step

\* Every step keeps what Broadcast has put together.
LEMMA StepReply ==
  ASSUME TypeOK, ReplyInv, [Next]_vars
  PROVE  ReplyInv'
<1>1. CASE UNCHANGED vars
  BY <1>1, AddrFacts DEF vars, poolVars, bcVars, ReplyInv, TypeOK
<1>2. ASSUME NEW p \in Procs, NEW a \in Addrs, Pick(p, a) PROVE ReplyInv'
  BY <1>2, AddrFacts DEF Pick, poolVars, bcVars, ReplyInv, TypeOK
<1>3. ASSUME NEW p \in Procs, PickFails(p) PROVE ReplyInv'
  <2>1. /\ pc[p] \notin {"collect", "done"} /\ UNCHANGED <<reply, returned>>
        /\ \A q \in Procs : q # p => pc'[q] = pc[q] /\ res'[q] = res[q]
        /\ pc'[p] = "done" => p \notin Addrs
        /\ pc'[p] \in {"collect", "done"} => res'[p] # "none"
    BY <1>3 DEF PickFails, End, bcVars, TypeOK
  <2>2. QED BY <2>1, AddrFacts DEF ReplyInv, TypeOK
<1>4. ASSUME NEW p \in Procs, UsePooled(p) PROVE ReplyInv'
  BY <1>4, AddrFacts DEF UsePooled, poolVars, bcVars, ReplyInv, TypeOK
<1>5. ASSUME NEW p \in Procs, StartDial(p) PROVE ReplyInv'
  BY <1>5, AddrFacts DEF StartDial, CanLock, poolVars, bcVars, ReplyInv, TypeOK
<1>6. ASSUME NEW p \in Procs, DialFails(p) PROVE ReplyInv'
  <2>1. /\ pc[p] \notin {"collect", "done"} /\ UNCHANGED <<reply, returned>>
        /\ \A q \in Procs : q # p => pc'[q] = pc[q] /\ res'[q] = res[q]
        /\ pc'[p] = "done" => p \notin Addrs
        /\ pc'[p] \in {"collect", "done"} => res'[p] # "none"
    BY <1>6 DEF DialFails, End, bcVars, TypeOK
  <2>2. QED BY <2>1, AddrFacts DEF ReplyInv, TypeOK
<1>7. ASSUME NEW p \in Procs, DialConnects(p) PROVE ReplyInv'
  BY <1>7, AddrFacts DEF DialConnects, bcVars, ReplyInv, TypeOK
<1>8. ASSUME NEW p \in Procs, DialReturns(p) PROVE ReplyInv'
  <2>1. /\ pc[p] \notin {"collect", "done"} /\ UNCHANGED <<reply, returned>>
        /\ \A q \in Procs : q # p => pc'[q] = pc[q] /\ res'[q] = res[q]
        /\ pc'[p] = "done" => p \notin Addrs
        /\ pc'[p] \in {"collect", "done"} => res'[p] # "none"
    BY <1>8 DEF DialReturns, End, bcVars, TypeOK
  <2>2. QED BY <2>1, AddrFacts DEF ReplyInv, TypeOK
<1>9. ASSUME NEW p \in Procs, DialTimesOut(p) PROVE ReplyInv'
  <2>1. /\ pc[p] \notin {"collect", "done"} /\ UNCHANGED <<reply, returned>>
        /\ \A q \in Procs : q # p => pc'[q] = pc[q] /\ res'[q] = res[q]
        /\ pc'[p] = "done" => p \notin Addrs
        /\ pc'[p] \in {"collect", "done"} => res'[p] # "none"
    BY <1>9 DEF DialTimesOut, End, bcVars, TypeOK
  <2>2. QED BY <2>1, AddrFacts DEF ReplyInv, TypeOK
<1>10. ASSUME NEW p \in Procs, CallEnds(p) PROVE ReplyInv'
  <2>1. /\ pc[p] \notin {"collect", "done"} /\ UNCHANGED <<reply, returned>>
        /\ \A q \in Procs : q # p => pc'[q] = pc[q] /\ res'[q] = res[q]
        /\ pc'[p] = "done" => p \notin Addrs
        /\ pc'[p] \in {"collect", "done"} => res'[p] # "none"
    BY <1>10 DEF CallEnds, End, bcVars, TypeOK
  <2>2. QED BY <2>1, AddrFacts DEF ReplyInv, TypeOK
<1>11. ASSUME NEW w \in Addrs, Collect(w) PROVE ReplyInv'
  BY <1>11, AddrFacts DEF Collect, ReplyOpen, poolVars, bcVars, ReplyInv, TypeOK
<1>12. CASE Return
  BY <1>12, AddrFacts DEF Return, WorkersDone, poolVars, bcVars, ReplyInv, TypeOK
<1>13. CASE Close
  BY <1>13, AddrFacts DEF Close, poolVars, bcVars, ReplyInv, TypeOK
<1>14. ASSUME NEW i \in DOMAIN conns, Maker(i) PROVE ReplyInv'
  BY <1>14, AddrFacts DEF Maker, dialVars, bcVars, ReplyInv, TypeOK
<1>15. ASSUME NEW i \in DOMAIN conns, MakerEnds(i) PROVE ReplyInv'
  BY <1>15, AddrFacts DEF MakerEnds, dialVars, bcVars, ReplyInv, TypeOK
<1>16. ASSUME NEW i \in DOMAIN conns, Receive(i) PROVE ReplyInv'
  BY <1>16, AddrFacts DEF Receive, dialVars, bcVars, ReplyInv, TypeOK
<1>17. ASSUME NEW i \in DOMAIN conns, Lose(i) PROVE ReplyInv'
  BY <1>17, AddrFacts DEF Lose, dialVars, bcVars, ReplyInv, TypeOK
<1> QED
  BY <1>1, <1>2, <1>3, <1>4, <1>5, <1>6, <1>7, <1>8, <1>9, <1>10, <1>11,
      <1>12, <1>13, <1>14, <1>15, <1>16, <1>17
  DEF Next, Step

LEMMA InitInv == Init => IInv
<1> SUFFICES ASSUME Init PROVE IInv OBVIOUS
<1>1. conns = <<>> /\ Len(conns) = 0 /\ DOMAIN conns = {} /\ conns \in Seq(Conn)
  BY DEF Init, DialInit
<1>2. TypeOK
  <2>1. DialTypeOK BY <1>1, DialAssumption DEF DialTypeOK
  <2>2. /\ pool \in [Addrs -> 0 .. Len(conns)] /\ cl \in [Procs -> 0 .. Len(conns)]
    BY <1>1 DEF Init
  <2>3. QED BY <2>1, <2>2, AddrFacts DEF Init, TypeOK
<1>3. PoolInv /\ NoLeak
  BY <1>1, AddrFacts DEF Init, PoolInv, NoLeak
<1>4. ReplyInv BY AddrFacts DEF Init, ReplyInv
<1>5. QED BY <1>2, <1>3, <1>4 DEF IInv

LEMMA StepInv == IInv /\ [Next]_vars => IInv'
BY StepTypes, StepPool, StepLeak, StepReply DEF IInv

\* xclient.go:14-27: mu is held exactly while somebody dials, and the pool
\* holds connections that were made.
THEOREM TypeCorrect == Spec => []TypeOK
<1>1. IInv => TypeOK BY DEF IInv
<1>2. QED BY InitInv, StepInv, <1>1, PTL DEF Spec

\* xclient.go:19-27, 52-71; client.go:216-239: every connection that is not
\* closed is in the pool or being dialled, however many callers dial, time out
\* and close at once.
THEOREM NothingLeaks == Spec => []NoLeak
<1>1. IInv => NoLeak BY DEF IInv
<1>2. QED BY InitInv, StepInv, <1>1, PTL DEF Spec

\* xclient.go:84-108: the reply of a broadcast that has returned is that of
\* one worker that succeeded, if one did.
THEOREM BroadcastSettles == Spec => []ReplySettled
<1>1. IInv => ReplySettled
  BY AddrFacts DEF IInv, ReplyInv, TypeOK, ReplySettled
<1>2. QED BY InitInv, StepInv, <1>1, PTL DEF Spec

------------------------------------------------------------------------------
(* The lock of XClient comes free.                                         *)

\* The maker of a connection that is waited for has still to hand over, and
\* what it hands over, and what the pool and the callers hold, is a Client.
MakerInv ==
  /\ \A p \in Procs : pc[p] = "await" => conns[cl[p]].maker # "gone"
  /\ \A p \in Procs : pc[p] = "call" => conns[cl[p]].client # "none"
  /\ \A a \in Addrs : pool[a] # 0 => conns[pool[a]].client # "none"
  /\ \A i \in DOMAIN conns : conns[i].maker = "made" => conns[i].client # "none"

\* What no step undoes: a Client stays one, and what a maker has made is one.
ClientsKept(s) ==
  \A i \in DOMAIN conns :
    /\ i \in DOMAIN s
    /\ conns[i].client # "none" => s[i].client # "none"
    /\ s[i].maker = "made" => s[i].client # "none"
    /\ s[i].maker = "gone" => conns[i].maker = "gone"

\* A step that moves nobody to where something is asked of a connection.
LEMMA StepAside ==
  ASSUME TypeOK, PoolInv, MakerInv, ClientsKept(conns'), DOMAIN conns' = DOMAIN conns,
         UNCHANGED cl,
         \A p \in Procs : pc'[p] \in {"await", "call"} => pc'[p] = pc[p],
         \A a \in Addrs : pool'[a] # 0 => pool'[a] = pool[a]
  PROVE  MakerInv'
<1>1. \A p \in Procs : pc[p] \in {"await", "call"} => cl[p] \in DOMAIN conns
  BY ConnFacts DEF PoolInv
<1>2. \A a \in Addrs : pool[a] # 0 => pool[a] \in DOMAIN conns BY ConnFacts
<1>3. \A p \in Procs : pc'[p] = "await" => conns'[cl'[p]].maker # "gone"
  BY <1>1 DEF MakerInv, ClientsKept
<1>4. \A p \in Procs : pc'[p] = "call" => conns'[cl'[p]].client # "none"
  BY <1>1 DEF MakerInv, ClientsKept
<1>5. \A a \in Addrs : pool'[a] # 0 => conns'[pool'[a]].client # "none"
  BY <1>2 DEF MakerInv, ClientsKept
<1>6. \A i \in DOMAIN conns' : conns'[i].maker = "made" => conns'[i].client # "none"
  BY DEF ClientsKept
<1>7. QED BY <1>3, <1>4, <1>5, <1>6 DEF MakerInv

\* The same connections.
LEMMA SameClients ==
  ASSUME MakerInv, NEW s, s = conns
  PROVE  ClientsKept(s)
BY DEF MakerInv, ClientsKept

LEMMA ClosedClients ==
  ASSUME TypeOK, MakerInv, NEW C
  PROVE  ClientsKept(Closed(C)) /\ DOMAIN Closed(C) = DOMAIN conns
<1>1. DOMAIN Closed(C) = DOMAIN conns BY DEF Closed
<1>2. QED BY <1>1, ClosedConns DEF MakerInv, ClientsKept

\* Every step keeps the makers to their word.
LEMMA StepMaker ==
  ASSUME TypeOK, PoolInv, MakerInv, [Next]_vars
  PROVE  MakerInv'
<1>1. CASE UNCHANGED vars
  BY <1>1, StepAside, SameClients DEF vars, poolVars
<1>2. ASSUME NEW p \in Procs, NEW a \in Addrs, Pick(p, a) PROVE MakerInv'
  BY <1>2, StepAside, SameClients DEF Pick, poolVars, TypeOK
<1>3. ASSUME NEW p \in Procs, PickFails(p) PROVE MakerInv'
  BY <1>3, StepAside, SameClients DEF PickFails, End, poolVars, TypeOK
<1>4. ASSUME NEW p \in Procs, UsePooled(p) PROVE MakerInv'
  <2>1. /\ UNCHANGED <<conns, pool>> /\ pc'[p] = "call" /\ cl'[p] = pool[tgt[p]]
        /\ \A q \in Procs : q # p => pc'[q] = pc[q] /\ cl'[q] = cl[q]
    BY <1>4 DEF UsePooled, poolVars, TypeOK
  <2>2. conns[pool[tgt[p]]].client = "up" BY <1>4 DEF UsePooled, Available
  <2>3. QED BY <2>1, <2>2 DEF MakerInv
<1>5. ASSUME NEW p \in Procs, StartDial(p) PROVE MakerInv'
  <2>1. conns' = Closed({pool[tgt[p]]}) /\ pool' = [pool EXCEPT ![tgt[p]] = 0]
    BY <1>5 DEF StartDial
  <2>2. UNCHANGED cl /\ pc' = [pc EXCEPT ![p] = "dial"] BY <1>5 DEF StartDial
  <2>3. ClientsKept(conns') /\ DOMAIN conns' = DOMAIN conns
    BY <2>1, ClosedClients
  <2>4. \A q \in Procs : pc'[q] \in {"await", "call"} => pc'[q] = pc[q]
    BY <2>2 DEF TypeOK
  <2>5. \A a \in Addrs : pool'[a] # 0 => pool'[a] = pool[a]
    BY <2>1 DEF TypeOK
  <2>6. QED BY <2>2, <2>3, <2>4, <2>5, StepAside
<1>6. ASSUME NEW p \in Procs, DialFails(p) PROVE MakerInv'
  BY <1>6, StepAside, SameClients DEF DialFails, End, TypeOK
<1>7. ASSUME NEW p \in Procs, DialConnects(p) PROVE MakerInv'
  <2>1. /\ cl'[p] = Len(conns) + 1 /\ pc'[p] = "await" /\ UNCHANGED pool
        /\ \A q \in Procs : q # p => pc'[q] = pc[q] /\ cl'[q] = cl[q]
    BY <1>7 DEF DialConnects, TypeOK
  <2>2. /\ DOMAIN conns' = DOMAIN conns \cup {Len(conns) + 1}
        /\ \A i \in DOMAIN conns : conns'[i] = conns[i]
        /\ conns'[Len(conns) + 1].maker = "making"
    BY <1>7, ConnFacts DEF DialConnects, Connect, TypeOK, DialTypeOK
  <2>3. \A q \in Procs : pc[q] \in {"await", "call"} => cl[q] \in DOMAIN conns
    BY ConnFacts DEF PoolInv
  <2>4. \A a \in Addrs : pool[a] # 0 => pool[a] \in DOMAIN conns BY ConnFacts
  <2>5. QED BY <2>1, <2>2, <2>3, <2>4 DEF MakerInv
<1>8. ASSUME NEW p \in Procs, DialReturns(p) PROVE MakerInv'
  <2>1. \A q \in Procs : pc[q] = "await" => q = p
    BY <1>8, OneDialler DEF DialReturns
  <2>2. pc[p] = "await" /\ cl[p] \in DOMAIN conns /\ tgt[p] \in Addrs
    BY <1>8, ConnFacts DEF DialReturns, TypeOK, PoolInv
  <2>3. /\ DOMAIN conns' = DOMAIN conns
        /\ \A i \in DOMAIN conns :
             /\ conns'[i].client = conns[i].client
             /\ conns'[i].maker = IF i = cl[p] THEN "gone" ELSE conns[i].maker
    BY <1>8, <2>2, ConnFacts DEF DialReturns, Handed, Conn
  <2>4. /\ UNCHANGED cl /\ pc'[p] \in {"call", "collect", "done"}
        /\ \A q \in Procs : q # p => pc'[q] = pc[q]
    BY <1>8 DEF DialReturns, End, TypeOK
  <2>5. \/ /\ conns[cl[p]].maker = "made"
           /\ pool' = [pool EXCEPT ![tgt[p]] = cl[p]]
        \/ pool' = pool /\ pc'[p] # "call"
    BY <1>8 DEF DialReturns, End, TypeOK
  <2>6. \A q \in Procs : pc[q] \in {"await", "call"} => cl[q] \in DOMAIN conns
    BY ConnFacts DEF PoolInv
  <2>7. \A a \in Addrs : pool[a] # 0 => pool[a] \in DOMAIN conns BY ConnFacts
  <2>8. \A q \in Procs : pc'[q] # "await" BY <2>1, <2>4
  <2>9. \A q \in Procs : pc'[q] = "call" => conns'[cl'[q]].client # "none"
    BY <2>2, <2>3, <2>4, <2>5, <2>6 DEF MakerInv
  <2>10. \A a \in Addrs : pool'[a] # 0 => conns'[pool'[a]].client # "none"
    BY <2>2, <2>3, <2>5, <2>7 DEF MakerInv, TypeOK
  <2>11. \A i \in DOMAIN conns' : conns'[i].maker = "made" => conns'[i].client # "none"
    BY <2>3 DEF MakerInv
  <2>12. QED BY <2>8, <2>9, <2>10, <2>11 DEF MakerInv
<1>9. ASSUME NEW p \in Procs, DialTimesOut(p) PROVE MakerInv'
  BY <1>9, StepAside, ClosedClients DEF DialTimesOut, TimedOut, End, TypeOK
<1>10. ASSUME NEW p \in Procs, CallEnds(p) PROVE MakerInv'
  BY <1>10, StepAside, SameClients DEF CallEnds, End, poolVars, TypeOK
<1>11. ASSUME NEW w \in Addrs, Collect(w) PROVE MakerInv'
  BY <1>11, StepAside, SameClients, AddrFacts DEF Collect, poolVars, TypeOK
<1>12. CASE Return
  BY <1>12, StepAside, SameClients DEF Return, poolVars
<1>13. CASE Close
  <2>1. conns' = Closed({pool[a] : a \in Addrs}) /\ UNCHANGED <<pc, cl>>
    BY <1>13 DEF Close
  <2>2. \A a \in Addrs : pool'[a] = 0 BY <1>13 DEF Close
  <2>3. ClientsKept(conns') /\ DOMAIN conns' = DOMAIN conns
    BY <2>1, ClosedClients
  <2>4. QED BY <2>1, <2>2, <2>3, StepAside
<1>14. ASSUME NEW i \in DOMAIN conns, Maker(i) PROVE MakerInv'
  <2>1. UNCHANGED <<pool, pc, cl>> /\ DOMAIN conns' = DOMAIN conns
    BY <1>14 DEF Maker, dialVars, Made
  <2>2. \A j \in DOMAIN conns : j # i => conns'[j] = conns[j]
    BY <1>14, ConnFacts DEF Maker, Made
  <2>3. /\ conns[i].maker = "making"
        /\ conns[i].client # "none" => conns'[i].client # "none"
        /\ conns'[i].maker = "made" => conns'[i].client # "none"
        /\ conns'[i].maker # "gone"
    <3>1. conns[i] \in Conn /\ conns[i].maker = "making"
      BY <1>14, ConnFacts DEF Maker, Made
    <3>2. \/ conns'[i] = [conns[i] EXCEPT !.maker = "made", !.client = "up"]
          \/ conns'[i] = [conns[i] EXCEPT !.maker = "failed"]
          \/ conns'[i] = [conns[i] EXCEPT !.maker = "failed", !.sock = "closed"]
      BY <1>14 DEF Maker, Made
    <3>3. QED BY <3>1, <3>2 DEF Conn
  <2>4. ClientsKept(conns')
    BY <2>1, <2>2, <2>3 DEF ClientsKept, MakerInv
  <2>5. QED BY <2>1, <2>4, StepAside
<1>15. ASSUME NEW i \in DOMAIN conns, MakerEnds(i) PROVE MakerInv'
  <2>1. UNCHANGED <<pool, pc, cl>> /\ DOMAIN conns' = DOMAIN conns
    BY <1>15 DEF MakerEnds, dialVars, Late
  <2>2. \A j \in DOMAIN conns :
          /\ conns'[j].client = conns[j].client
          /\ conns'[j].maker = IF j = i THEN "gone" ELSE conns[j].maker
    BY <1>15, ConnFacts DEF MakerEnds, Late, Conn
  <2>3. \A q \in Procs : pc[q] = "await" => cl[q] # i
    BY <1>15 DEF MakerEnds, Finished
  <2>4. \A q \in Procs : pc[q] \in {"await", "call"} => cl[q] \in DOMAIN conns
    BY ConnFacts DEF PoolInv
  <2>5. \A a \in Addrs : pool[a] # 0 => pool[a] \in DOMAIN conns BY ConnFacts
  <2>6. QED BY <2>1, <2>2, <2>3, <2>4, <2>5 DEF MakerInv
<1>16. ASSUME NEW i \in DOMAIN conns, Receive(i) PROVE MakerInv'
  <2>1. UNCHANGED <<pool, pc, cl>> /\ DOMAIN conns' = DOMAIN conns
    BY <1>16 DEF Receive, dialVars, ReceiveEnds
  <2>2. ClientsKept(conns')
    BY <1>16, ConnFacts DEF Receive, ReceiveEnds, Conn, ClientsKept, MakerInv
  <2>3. QED BY <2>1, <2>2, StepAside
<1>17. ASSUME NEW i \in DOMAIN conns, Lose(i) PROVE MakerInv'
  <2>1. UNCHANGED <<pool, pc, cl>> /\ DOMAIN conns' = DOMAIN conns
    BY <1>17 DEF Lose, dialVars, Lost
  <2>2. ClientsKept(conns')
    BY <1>17, ConnFacts DEF Lose, Lost, Conn, ClientsKept, MakerInv
  <2>3. QED BY <2>1, <2>2, StepAside
<1> QED
  BY <1>1, <1>2, <1>3, <1>4, <1>5, <1>6, <1>7, <1>8, <1>9, <1>10, <1>11,
      <1>12, <1>13, <1>14, <1>15, <1>16, <1>17
  DEF Next, Step

\* Whoever holds XClient.mu is on its way to give it back: it is connecting,
\* or its maker, which has not ended, has an answer for it or gets one.  No
\* caller is given a client that was never made.
DialAnswered ==
  /\ \A p \in Procs : mu = p =>
       \/ pc[p] = "dial"
       \/ pc[p] = "await" /\ conns[cl[p]].maker \in {"making", "made", "failed"}
  /\ \A p \in Procs : pc[p] = "call" => conns[cl[p]].client # "none"

\* xclient.go:52-71; client.go:214-239: the lock of XClient is never held for
\* a channel nobody sends on, however the dials, their time limits and Close
\* follow each other, and no nil client is called.
THEOREM DialIsAnswered == Spec => []DialAnswered
<1>1. Init => MakerInv
  BY AddrFacts DEF Init, DialInit, MakerInv
<1>2. IInv /\ MakerInv /\ [Next]_vars => MakerInv' BY StepMaker DEF IInv
<1>3. IInv /\ MakerInv => DialAnswered
  <2> SUFFICES ASSUME IInv, MakerInv PROVE DialAnswered OBVIOUS
  <2>1. \A p \in Procs : pc[p] = "await" => cl[p] \in DOMAIN conns
    BY ConnFacts DEF IInv, PoolInv
  <2>2. \A p \in Procs : pc[p] = "await" => conns[cl[p]] \in Conn
    BY <2>1, ConnFacts DEF IInv
  <2>3. \A p \in Procs : mu = p => pc[p] \in {"dial", "await"}
    BY DEF IInv, TypeOK
  <2>4. QED BY <2>2, <2>3 DEF MakerInv, Conn, DialAnswered
<1>4. QED BY InitInv, StepInv, <1>1, <1>2, <1>3, PTL DEF Spec

==============================================================================
