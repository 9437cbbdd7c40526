------------------------------ MODULE RpcClient ------------------------------
(***************************************************************************)
(* aoirpc/client.go: one Client, the goroutines that call through it and   *)
(* its receive goroutine.                                                  *)
(*                                                                         *)
(* A call is made either by Client.Call (SyncCalls: a Done channel of its  *)
(* own, of capacity 1, and a context) or by Client.Go (AsyncCalls: one     *)
(* Done channel of capacity DoneCap that the user shares between them).    *)
(* Client.mu is only ever held across a blocking operation by              *)
(* terminateCalls, so every other critical section under mu is one action  *)
(* guarded by MuFree.  Client.sending is held across several steps and is  *)
(* a variable.  The connection and the server behind it are external: the  *)
(* server answers each request it received at most once, in any order.     *)
(***************************************************************************)
EXTENDS Naturals, FiniteSets, Functions

CONSTANTS
  SyncCalls,    \* calls made by Client.Call
  AsyncCalls,   \* calls made by Client.Go on one shared Done channel
  CtxCalls,     \* the calls of SyncCalls whose context may end
  DoneCap,      \* capacity of the shared Done channel
  Receiver,     \* the receive goroutine, as a holder of Client.sending
  Nobody        \* no holder, no call (Go's nil)

Calls == SyncCalls \cup AsyncCalls

ASSUME ClientAssumption ==
  /\ SyncCalls \cap AsyncCalls = {}
  /\ CtxCalls \subseteq SyncCalls
  /\ DoneCap \in Nat \ {0}        \* Go panics when the channel is unbuffered
  /\ Receiver \notin Calls
  /\ Nobody \notin Calls \cup {Receiver}

VARIABLES
  sending,    \* the holder of Client.sending
  closing,    \* Client.closing
  shutdown,   \* Client.shutdown
  seq,        \* Client.seq, the next sequence number
  pending,    \* Client.pending, from sequence numbers to calls
  callSeq,    \* Call.Seq of each call, 0 until it is registered
  callErr,    \* Call.Error of each call, "none" for nil
  reply,      \* the call whose answer was decoded into Call.Reply
  inbox,      \* the calls lying in their Done channel
  strobes,    \* how often each call was put into its Done channel (history)
  pc,         \* where the goroutine of each call is
  result,     \* the error the user got from each call
  rpc,        \* where the receive goroutine is
  cur,        \* its local variable call
  msg,        \* the answer it is reading
  rerr,       \* its local variable err is not nil
  todo,       \* calls terminateCalls has still to notify
  conn,       \* the codec's connection
  wire        \* requests the server got and whose answer was not read yet

callerVars == <<callSeq, pc, result>>
recvVars   == <<rpc, cur, msg, rerr, todo>>
netVars    == <<conn, wire>>
lockVars   == <<sending, closing, shutdown, seq, pending>>
doneVars   == <<inbox, strobes>>
vars == <<lockVars, callerVars, callErr, reply, doneVars, recvVars, netVars>>

CallErrors == {"none", "shutdown", "write", "server", "body", "eof"}
Answer == [seq : Nat, call : Calls]
NoAnswer == [seq |-> 0, call |-> Nobody, failed |-> FALSE]

------------------------------------------------------------------------------
(* Helpers.                                                                *)

\* Client.mu is not held across steps by terminateCalls.
MuFree == rpc # "notify"

\* The call registered under n, nil when there is none.
Lookup(n) == IF n \in DOMAIN pending THEN pending[n] ELSE Nobody

\* delete(c.pending, n)
Without(n) == Restrict(pending, DOMAIN pending \ {n})

\* removeCall: the caller keeps Lookup(n).
RemoveCall(n) == pending' = Without(n)

\* c.pending[c.seq] = call
Registered(c) ==
  [n \in DOMAIN pending \cup {seq} |-> IF n = seq THEN c ELSE pending[n]]

\* Fault: the number is not advanced.
NextSeqStuck == seq

\* c.seq++
NextSeq == seq + 1

\* call.Done has no room: a send on it blocks.
Full(c) ==
  IF c \in SyncCalls THEN c \in inbox
  ELSE Cardinality(inbox \cap AsyncCalls) >= DoneCap

\* call.done() of call c.
Strobe(c) ==
  /\ ~Full(c)
  /\ inbox' = inbox \cup {c}
  /\ strobes' = [strobes EXCEPT ![c] = @ + 1]

IsAvailable == ~closing /\ ~shutdown

------------------------------------------------------------------------------
Init ==
  /\ sending = Nobody /\ closing = FALSE /\ shutdown = FALSE
  /\ seq = 0 /\ pending = [n \in {} |-> Nobody]
  /\ callSeq = [c \in Calls |-> 0]
  /\ callErr = [c \in Calls |-> "none"]
  /\ reply = [c \in Calls |-> Nobody]
  /\ inbox = {} /\ strobes = [c \in Calls |-> 0]
  /\ pc = [c \in Calls |-> "idle"]
  /\ result = [c \in Calls |-> "pending"]
  /\ rpc = "header" /\ cur = Nobody /\ msg = NoAnswer /\ rerr = FALSE
  /\ todo = {}
  /\ conn = "open" /\ wire = {}

------------------------------------------------------------------------------
(* Client.Call and Client.Go up to the return of Client.send.              *)

Goto(c, from, to) == pc[c] = from /\ pc' = [pc EXCEPT ![c] = to]

Lock(c) ==
  /\ Goto(c, "idle", "register")
  /\ sending = Nobody
  /\ sending' = c
  /\ UNCHANGED <<closing, shutdown, seq, pending, callSeq, result, callErr,
                 reply, doneVars, recvVars, netVars>>

\* Fault: registerCall does not look at closing and shutdown.
RegisterAnyway(c) == TRUE

\* The connection still takes calls.
RegisterGuard(c) == IsAvailable

RegisterCall(c) ==
  /\ MuFree /\ RegisterGuard(c)
  /\ Goto(c, "register", "write")
  /\ callSeq' = [callSeq EXCEPT ![c] = seq]
  /\ pending' = Registered(c)
  /\ seq' = NextSeq
  /\ UNCHANGED <<sending, closing, shutdown, result, callErr, reply, doneVars,
                 recvVars, netVars>>

\* registerCall returns ErrShutdown and leaves Call.Seq at 0.
RegisterRefused(c) ==
  /\ MuFree /\ ~RegisterGuard(c)
  /\ Goto(c, "register", "strobe")
  /\ callErr' = [callErr EXCEPT ![c] = "shutdown"]
  /\ UNCHANGED <<lockVars, callSeq, result, reply, doneVars, recvVars,
                 netVars>>

\* codec.Write reports success.  GobCodec.Write drops the error of Flush, so
\* on a closed connection it may still succeed, with the request lost.
Write(c) ==
  /\ Goto(c, "write", "sent")
  /\ wire' = IF conn = "open"
             THEN wire \cup {[seq |-> callSeq[c], call |-> c]} ELSE wire
  /\ sending' = Nobody
  /\ UNCHANGED <<closing, shutdown, seq, pending, callSeq, result, callErr,
                 reply, doneVars, recvVars, conn>>

\* codec.Write fails (arguments that cannot be encoded, a broken connection).
\* GobCodec.Write flushes what it has before it closes the connection: the
\* server may have got the header, which is all it needs to answer a request
\* it refuses, while send is still on its way to take the call back.
WriteFails(c) ==
  /\ Goto(c, "write", "undo")
  /\ conn' = "closed"
  /\ \/ UNCHANGED wire
     \/ conn = "open" /\ wire' = wire \cup {[seq |-> callSeq[c], call |-> c]}
  /\ UNCHANGED <<lockVars, callSeq, result, callErr, reply, doneVars,
                 recvVars>>

\* Fault: send does not look at what removeCall returned.
TakenByNobody(c) == FALSE

\* removeCall returned nil: receive has the call.
TakenElsewhere(c) == Lookup(callSeq[c]) = Nobody

\* send takes its call out of pending again, unless somebody else did.
Undo(c) ==
  /\ MuFree
  /\ RemoveCall(callSeq[c])
  /\ IF TakenElsewhere(c)
     THEN /\ Goto(c, "undo", "sent")
          /\ sending' = Nobody
          /\ UNCHANGED callErr
     ELSE /\ Goto(c, "undo", "strobe")
          /\ callErr' = [callErr EXCEPT ![c] = "write"]
          /\ UNCHANGED sending
  /\ UNCHANGED <<closing, shutdown, seq, callSeq, result, reply, doneVars,
                 recvVars, netVars>>

\* call.done() inside send, under Client.sending.
StrobeOwn(c) ==
  /\ Goto(c, "strobe", "sent")
  /\ Strobe(c)
  /\ sending' = Nobody
  /\ UNCHANGED <<closing, shutdown, seq, pending, callSeq, result, callErr,
                 reply, recvVars, netVars>>

------------------------------------------------------------------------------
(* Waiting for the call: the select of Client.Call, the user of Client.Go. *)

TakeDone(c) ==
  /\ Goto(c, "sent", "returned")
  /\ c \in inbox
  /\ inbox' = inbox \ {c}
  /\ result' = [result EXCEPT ![c] = callErr[c]]
  /\ UNCHANGED <<lockVars, callSeq, callErr, reply, strobes, recvVars, netVars>>

\* The context ends; select may choose it even when call.Done is ready.
CtxDone(c) ==
  /\ c \in CtxCalls
  /\ Goto(c, "sent", "cancel")
  /\ UNCHANGED <<lockVars, callSeq, result, callErr, reply, doneVars,
                 recvVars, netVars>>

\* removeCall(call.Seq) whatever call.Seq is: a refused call holds 0.
Cancel(c) ==
  /\ MuFree
  /\ Goto(c, "cancel", "returned")
  /\ RemoveCall(callSeq[c])
  /\ result' = [result EXCEPT ![c] = "ctx"]
  /\ UNCHANGED <<sending, closing, shutdown, seq, callSeq, callErr, reply,
                 doneVars, recvVars, netVars>>

------------------------------------------------------------------------------
(* Client.receive and Client.terminateCalls.                               *)

\* Fault: the channel is strobed before the body of the answer is decoded.
SignalFirst(c) == Strobe(c)

\* The channel is left alone until the body was decoded.
SignalLater(c) == UNCHANGED doneVars

\* ReadHeader returns an answer and removeCall takes its call.
RecvHeader ==
  /\ rpc = "header"
  /\ \E w \in wire, failed \in BOOLEAN :
       /\ wire' = wire \ {w}
       /\ msg' = [seq |-> w.seq, call |-> w.call, failed |-> failed]
       /\ cur' = Lookup(w.seq)
       /\ RemoveCall(w.seq)
       /\ SignalLater(Lookup(w.seq))
  /\ rpc' = "body"
  /\ UNCHANGED <<sending, closing, shutdown, seq, callerVars, callErr, reply,
                 rerr, todo, conn>>

\* ReadHeader fails: the connection was closed at either end.
RecvFails ==
  /\ rpc = "header" /\ conn = "closed"
  /\ rpc' = "lock" /\ rerr' = TRUE
  /\ UNCHANGED <<lockVars, callerVars, callErr, reply, doneVars, cur, msg,
                 todo, netVars>>

\* The body is discarded for an unknown call and for an answer that carries
\* an error; it is decoded into Call.Reply otherwise.  ok is ReadBody's.
ReadBody(ok) ==
  /\ rpc = "body"
  /\ rerr' = ~ok
  /\ IF cur = Nobody
     THEN /\ rpc' = IF ok THEN "header" ELSE "lock"
          /\ UNCHANGED <<callErr, reply>>
     ELSE /\ rpc' = "deliver"
          /\ callErr' = [callErr EXCEPT ![cur] =
               IF msg.failed THEN "server" ELSE IF ok THEN @ ELSE "body"]
          /\ reply' = [reply EXCEPT ![cur] =
               IF ~msg.failed /\ ok THEN msg.call ELSE @]
  /\ UNCHANGED <<lockVars, callerVars, doneVars, cur, msg, todo, netVars>>

\* call.done() inside receive; the loop goes on while err is nil.
Deliver ==
  /\ rpc = "deliver"
  /\ Strobe(cur)
  /\ rpc' = IF rerr THEN "lock" ELSE "header"
  /\ cur' = Nobody
  /\ UNCHANGED <<lockVars, callerVars, callErr, reply, msg, rerr, todo, netVars>>

\* terminateCalls waits for Client.sending before Client.mu.
Terminate ==
  /\ rpc = "lock" /\ sending = Nobody
  /\ rpc' = "notify"
  /\ sending' = Receiver /\ shutdown' = TRUE
  /\ cur' = Nobody
  /\ todo' = Range(pending)
  /\ UNCHANGED <<closing, seq, pending, callerVars, callErr, reply, doneVars,
                 msg, rerr, netVars>>

\* One turn of the loop over pending, up to the send on call.Done.
NotifyPick ==
  /\ rpc = "notify" /\ cur = Nobody
  /\ \E c \in todo :
       /\ cur' = c
       /\ callErr' = [callErr EXCEPT ![c] = "eof"]
  /\ UNCHANGED <<lockVars, callerVars, reply, doneVars, rpc, msg, rerr, todo,
                 netVars>>

NotifyStrobe ==
  /\ rpc = "notify" /\ cur # Nobody
  /\ Strobe(cur)
  /\ todo' = todo \ {cur}
  /\ cur' = Nobody
  /\ UNCHANGED <<lockVars, callerVars, callErr, reply, rpc, msg, rerr, netVars>>

\* The locks are released; pending keeps the calls that were notified.
RecvExit ==
  /\ rpc = "notify" /\ cur = Nobody /\ todo = {}
  /\ rpc' = "exit" /\ sending' = Nobody
  /\ UNCHANGED <<closing, shutdown, seq, pending, callerVars, callErr, reply,
                 doneVars, cur, msg, rerr, todo, netVars>>

------------------------------------------------------------------------------
(* Client.Close and the other end of the connection.                       *)

Close ==
  /\ MuFree /\ ~closing
  /\ closing' = TRUE /\ conn' = "closed"
  /\ UNCHANGED <<sending, shutdown, seq, pending, callerVars, callErr, reply,
                 doneVars, recvVars, wire>>

PeerCloses ==
  /\ conn = "open" /\ conn' = "closed"
  /\ UNCHANGED <<lockVars, callerVars, callErr, reply, doneVars, recvVars, wire>>

------------------------------------------------------------------------------
Send(c) ==
  \/ Lock(c) \/ RegisterCall(c) \/ RegisterRefused(c)
  \/ Write(c) \/ WriteFails(c) \/ Undo(c) \/ StrobeOwn(c)

Caller(c) == Send(c) \/ TakeDone(c) \/ CtxDone(c) \/ Cancel(c)

Receive ==
  \/ RecvHeader \/ RecvFails \/ (\E ok \in BOOLEAN : ReadBody(ok)) \/ Deliver
  \/ Terminate \/ NotifyPick \/ NotifyStrobe \/ RecvExit

Next ==
  \/ \E c \in Calls : Caller(c)
  \/ Receive
  \/ Close \/ PeerCloses

\* The Go scheduler runs every goroutine that can run, and the user drains
\* the channel given to Go.  Nobody has to close a connection, a context does
\* not have to end and the server does not have to answer.
Fairness ==
  /\ \A c \in Calls : WF_vars(Send(c)) /\ WF_vars(TakeDone(c) \/ Cancel(c))
  /\ WF_vars(Receive)

Spec == Init /\ [][Next]_vars
FairSpec == Spec /\ Fairness

------------------------------------------------------------------------------
(* Properties.                                                             *)

TypeOK ==
  /\ sending \in Calls \cup {Receiver, Nobody}
  /\ closing \in BOOLEAN /\ shutdown \in BOOLEAN
  /\ seq \in Nat
  /\ DOMAIN pending \subseteq 0 .. seq - 1
  /\ pending \in [DOMAIN pending -> Calls]
  /\ callSeq \in [Calls -> Nat]
  /\ callErr \in [Calls -> CallErrors]
  /\ reply \in [Calls -> Calls \cup {Nobody}]
  /\ inbox \subseteq Calls
  /\ strobes \in [Calls -> Nat]
  /\ pc \in [Calls -> {"idle", "register", "write", "undo", "strobe", "sent",
                       "cancel", "returned"}]
  /\ result \in [Calls -> CallErrors \cup {"pending", "ctx"}]
  /\ rpc \in {"header", "body", "deliver", "lock", "notify", "exit"}
  /\ cur \in Calls \cup {Nobody}
  /\ msg \in [seq : Nat, call : Calls \cup {Nobody}, failed : BOOLEAN]
  /\ rerr \in BOOLEAN
  /\ todo \subseteq Calls
  /\ conn \in {"open", "closed"}
  /\ wire \subseteq Answer

\* client.go:36 "call.Done <- call" runs at most once for a call, although
\* send, receive and terminateCalls all may run it: each first takes the call
\* out of pending, or keeps the others from doing so.
SignalledAtMostOnce == \A c \in Calls : strobes[c] <= 1

\* client.go:119-135: a call that ends without an error has the answer to its
\* own request in Reply, whatever the order of the answers and however many
\* calls were cancelled in between.
ReplyToOwnRequest ==
  \A c \in Calls : result[c] = "none" => reply[c] = c

\* The entry under sequence number 0 was removed by a call that was refused
\* (Call.Seq still 0) and whose context then ended: client.go:261.
LostToRefusedCall(c) ==
  /\ callSeq[c] = 0
  /\ \E d \in CtxCalls : callErr[d] = "shutdown" /\ result[d] = "ctx"

\* Somebody still has to signal call c.
Tracked(c) ==
  \/ cur = c
  \/ /\ c \in Range(pending) /\ rpc # "exit"
     /\ rpc = "notify" => c \in todo

\* client.go:302-306, 119-135, 97-106: a call that was sent and not signalled
\* is in pending or in the hands of the receive goroutine, which has not
\* finished.  The one exception is LostToRefusedCall.
NoStrandedCall ==
  \A c \in Calls :
    pc[c] = "sent" /\ strobes[c] = 0 => Tracked(c) \/ LostToRefusedCall(c)

\* client.go:95 (notify all the error messages) and client.go:32 (Done strobes
\* when the call is complete): when terminateCalls is over, every call that
\* is still waited for has been signalled.
AllCallsNotified ==
  rpc = "exit" => \A c \in Calls : pc[c] = "sent" => strobes[c] = 1

\* client.go:131: once the user has the outcome of a call from its Done
\* channel, the receive goroutine does not write Call.Reply any more.
SettledReplyStable ==
  [][\A c \in Calls : result[c] \in CallErrors => reply'[c] = reply[c]]_vars

\* client.go:97-106, 263: once the connection is gone, every call under way
\* returns to its user, other than by the loss LostToRefusedCall describes.
DisconnectReturnsCalls ==
  \A c \in Calls :
    (conn = "closed" /\ pc[c] # "idle")
      ~> (pc[c] = "returned" \/ LostToRefusedCall(c))

==============================================================================
