------------------------------- MODULE XClient -------------------------------
(***************************************************************************)
(* aoirpc/xclient/xclient.go: the pool of clients of an XClient, goroutines *)
(* that call through it, one Broadcast and Close.  The discovery lists     *)
(* the servers Addrs and chooses at random; it fails when the registry is  *)
(* down.  Dial has XDial, which blocks while XClient.mu is held.           *)
(***************************************************************************)
EXTENDS Dial

CONSTANTS
  Callers,    \* goroutines that use XClient.Call
  None

\* Broadcast runs one worker for each server.

Procs == Addrs \cup Callers

ASSUME XClientAssumption ==
  Addrs \cap Callers = {} /\ None \notin Procs

VARIABLES
  mu,         \* the holder of XClient.mu while it dials
  pool,       \* XClient.clients: the connection of the client of each address, 0 for none
  pc,         \* where each goroutine is
  tgt,        \* the address it was given by the discovery
  cl,         \* the connection it dials or calls through
  res,        \* what its call returned
  reply,      \* whose answer was copied into Broadcast's reply
  e,          \* Broadcast's local error
  ran,        \* the servers that executed a call of the broadcast (history)
  returned    \* Broadcast has returned

poolVars == <<mu, pool, conns>>
bcVars   == <<reply, e, returned>>
vars == <<poolVars, pc, tgt, cl, res, bcVars, ran>>

TypeOK ==
  /\ mu \in Procs \cup {None}
  /\ DialTypeOK
  /\ pool \in [Addrs -> 0 .. Len(conns)]
  /\ pc \in [Procs -> {"pick", "lock", "dial", "await", "call", "collect", "done"}]
  /\ \A p \in Procs : pc[p] \in {"dial", "await"} <=> mu = p
  /\ tgt \in [Procs -> Addrs \cup {None}] /\ cl \in [Procs -> 0 .. Len(conns)]
  /\ res \in [Procs -> {"none", "ok", "error"}]
  /\ reply \in Addrs \cup {None} /\ e \in {"none", "error"}
  /\ ran \subseteq Addrs /\ returned \in BOOLEAN

Init ==
  /\ mu = None /\ pool = [a \in Addrs |-> 0] /\ DialInit
  /\ pc = [p \in Procs |-> "pick"]
  /\ tgt = [p \in Procs |-> None] /\ cl = [p \in Procs |-> 0]
  /\ res = [p \in Procs |-> "none"]
  /\ reply = None /\ e = "none" /\ ran = {} /\ returned = FALSE

------------------------------------------------------------------------------
\* A worker goes on to Broadcast's own lock, a caller returns.
End(p, r) ==
  /\ res' = [res EXCEPT ![p] = r]
  /\ pc' = [pc EXCEPT ![p] = IF p \in Addrs THEN "collect" ELSE "done"]

\* The servers whose executions count for the broadcast.
Counted(p) == IF p \in Addrs THEN Addrs ELSE {}

\* XClient.Call: the worker for an address asks the discovery, too.
Pick(p, a) ==
  /\ pc[p] = "pick"
  /\ tgt' = [tgt EXCEPT ![p] = a] /\ pc' = [pc EXCEPT ![p] = "lock"]
  /\ UNCHANGED <<poolVars, cl, res, bcVars, ran>>

PickFails(p) ==
  /\ pc[p] = "pick" /\ End(p, "error")
  /\ UNCHANGED <<poolVars, tgt, cl, bcVars, ran>>

\* Fault: dial does not lock.
NoLock(p) == TRUE

\* xc.mu.Lock() does not block.
CanLock(p) == mu = None

\* dial finds a client that is available.
UsePooled(p) ==
  /\ pc[p] = "lock" /\ CanLock(p)
  /\ pool[tgt[p]] # 0 /\ Available(pool[tgt[p]])
  /\ cl' = [cl EXCEPT ![p] = pool[tgt[p]]]
  /\ pc' = [pc EXCEPT ![p] = "call"]
  /\ UNCHANGED <<poolVars, tgt, res, bcVars, ran>>

\* dial closes and forgets one that is not, and dials.
StartDial(p) ==
  /\ pc[p] = "lock" /\ CanLock(p)
  /\ pool[tgt[p]] # 0 => ~Available(pool[tgt[p]])
  /\ conns' = Closed({pool[tgt[p]]})
  /\ pool' = [pool EXCEPT ![tgt[p]] = 0]
  /\ mu' = p /\ pc' = [pc EXCEPT ![p] = "dial"]
  /\ UNCHANGED <<tgt, cl, res, bcVars, ran>>

\* Fault: dial returns its error with the lock held.
StillHeld(p) == p

\* The deferred Unlock of dial.
Released(p) == None

\* The address or the Option is refused, or there is no connection.
DialFails(p) ==
  /\ pc[p] = "dial" /\ mu' = Released(p)
  /\ End(p, "error")
  /\ UNCHANGED <<pool, conns, tgt, cl, bcVars, ran>>

DialConnects(p) ==
  /\ pc[p] = "dial" /\ Connect(tgt[p])
  /\ cl' = [cl EXCEPT ![p] = Len(conns) + 1]
  /\ pc' = [pc EXCEPT ![p] = "await"]
  /\ UNCHANGED <<mu, pool, tgt, res, bcVars, ran>>

DialReturns(p) ==
  /\ pc[p] = "await" /\ Ready(cl[p])
  /\ conns' = Handed(cl[p]) /\ mu' = Released(p)
  /\ \/ /\ conns[cl[p]].maker = "made"
        /\ pool' = [pool EXCEPT ![tgt[p]] = cl[p]]
        /\ pc' = [pc EXCEPT ![p] = "call"] /\ UNCHANGED res
     \/ /\ conns[cl[p]].maker = "failed"
        /\ End(p, "error") /\ UNCHANGED pool
  /\ UNCHANGED <<tgt, cl, bcVars, ran>>

DialTimesOut(p) ==
  /\ pc[p] = "await" /\ Limited
  /\ conns' = TimedOut(cl[p]) /\ mu' = Released(p)
  /\ End(p, "error")
  /\ UNCHANGED <<pool, tgt, cl, bcVars, ran>>

\* Fault: finish is not closed.
NeverFinished(i) == FALSE

\* The dial of a connection has returned, and closed finish.
Finished(i) == \A p \in Procs : ~(pc[p] = "await" /\ cl[p] = i)

\* client.Call: it fails on a client that was closed since, and a call that
\* fails on the way may have been executed all the same.
CallEnds(p) ==
  /\ pc[p] = "call"
  /\ \/ /\ Available(cl[p]) /\ End(p, "ok")
        /\ ran' = ran \cup ({tgt[p]} \cap Counted(p))
     \/ /\ End(p, "error")
        /\ \E S \in SUBSET ({tgt[p]} \cap Counted(p)) : ran' = ran \cup S
  /\ UNCHANGED <<poolVars, tgt, cl, bcVars>>

\* No answer was copied yet.
ReplyOpen == reply = None

\* A worker ends under Broadcast's lock: an error is kept only when there is
\* one already, and cancels the context then.
Collect(w) ==
  /\ pc[w] = "collect"
  /\ e' = IF res[w] = "error" /\ e # "none" THEN "error" ELSE e
  /\ reply' = IF res[w] = "ok" /\ ReplyOpen THEN w ELSE reply
  /\ pc' = [pc EXCEPT ![w] = "done"]
  /\ UNCHANGED <<poolVars, tgt, cl, res, ran, returned>>

\* Fault: Broadcast does not wait for its workers.
NoWait == TRUE

\* wg.Wait() returns.
WorkersDone == \A w \in Addrs : pc[w] = "done"

Return ==
  /\ ~returned /\ WorkersDone
  /\ returned' = TRUE
  /\ UNCHANGED <<poolVars, pc, tgt, cl, res, reply, e, ran>>

\* XClient.Close, at any time and any number of times: later calls dial anew.
Close ==
  /\ mu = None
  /\ conns' = Closed({pool[a] : a \in Addrs})
  /\ pool' = [a \in Addrs |-> 0]
  /\ UNCHANGED <<mu, pc, tgt, cl, res, bcVars, ran>>

dialVars == <<mu, pool, pc, tgt, cl, res, bcVars, ran>>

\* The makers and the receive goroutines.
Maker(i) == Made(i) /\ UNCHANGED dialVars
MakerEnds(i) == Finished(i) /\ Late(i) /\ UNCHANGED dialVars
Receive(i) == ReceiveEnds(i) /\ UNCHANGED dialVars

Lose(i) == Lost(i) /\ UNCHANGED dialVars

------------------------------------------------------------------------------
Step(p) ==
  \/ \E a \in Addrs : Pick(p, a)
  \/ PickFails(p) \/ UsePooled(p) \/ StartDial(p) \/ DialFails(p)
  \/ DialConnects(p) \/ DialReturns(p) \/ DialTimesOut(p) \/ CallEnds(p)

Next ==
  \/ \E p \in Procs : Step(p)
  \/ \E w \in Addrs : Collect(w)
  \/ Return \/ Close
  \/ \E i \in DOMAIN conns : Maker(i) \/ MakerEnds(i) \/ Receive(i) \/ Lose(i)

Spec == Init /\ [][Next]_vars

\* A maker waits for the other end only as long as the connection is open.
Unblocked(i) == i \in DOMAIN conns /\ conns[i].sock # "open" /\ Maker(i)

\* Goroutines that can run do run; net.DialTimeout and Client.Call return, the
\* former by its time limit, the latter by its context or its connection.
FairSpec ==
  /\ Spec
  /\ \A p \in Procs : WF_vars(Step(p))
  /\ \A w \in Addrs : WF_vars(Collect(w))
  /\ WF_vars(Return)
  /\ \A i \in 1 .. MaxDials :
       /\ WF_vars(Unblocked(i))
       /\ WF_vars(i \in DOMAIN conns /\ MakerEnds(i))
       /\ WF_vars(i \in DOMAIN conns /\ Receive(i))

------------------------------------------------------------------------------
(* Properties.                                                             *)

\* xclient.go:19-27, 52-71; client.go:216-220: no connection is lost sight of:
\* one that is not closed is that of the client in the pool, where Close will
\* find it, or is being dialled.
NoLeak ==
  \A i \in DOMAIN conns :
    \/ conns[i].sock = "closed" \/ pool[conns[i].addr] = i
    \/ ~Finished(i)

\* client.go:214-239: no goroutine stays behind on a closed connection: the
\* maker ends, however late its client comes, and so does receive.
DialersEnd ==
  \A i \in 1 .. MaxDials :
    (i \in DOMAIN conns /\ conns[i].sock = "closed")
      ~> (i \in DOMAIN conns /\ conns[i].maker = "gone" /\ conns[i].client # "up")

\* xclient.go:100-103, 107: when Broadcast returns, reply holds the answer of
\* one worker that succeeded, if one did, and nobody writes to it any more.
ReplySettled ==
  returned =>
    /\ \A w \in Addrs : res[w] # "none"
    /\ IF reply = None THEN \A w \in Addrs : res[w] = "error"
                       ELSE res[reply] = "ok"

\* xclient.go:84-108: Broadcast returns, whatever fails or is closed.
BroadcastReturns == <>returned

\* xclient.go:73, "every server has to execute it": all servers of the list
\* ran the call when Broadcast returns without an error.
AllServersRan == returned /\ e = "none" => ran = Addrs

==============================================================================
