------------------------------ MODULE RpcServer ------------------------------
(***************************************************************************)
(* aoirpc/server.go: the goroutines that serve the connections of one      *)
(* Server.  Each connection has a reader (ServeConn, serveCode); each      *)
(* request it accepts has a handler (handleReq) and a worker (the          *)
(* goroutine inside handleReq that runs the service method).  The clients  *)
(* and their ends of the connections are external: a client has sent its   *)
(* Option when the connection is accepted, sends its requests one by one   *)
(* and may close its end at any time.                                      *)
(*                                                                         *)
(* A message is a header part and a body part.  A decoded time limit is    *)
(* abstracted to whether there is one (handleTimeout # 0).                 *)
(***************************************************************************)
EXTENDS Service, Sequences

CONSTANTS
  Conns,      \* connections
  Reqs,       \* requests
  ConnOf,     \* the connection a request is sent on
  Target,     \* the service and the method a request names
  Limited,    \* connections whose Option sets a HandleTimeout
  Leaving,    \* connections whose client may close its end
  NoReq       \* no request; also the request decoded at the end of a stream

ASSUME ServerAssumption ==
  /\ ConnOf \in [Reqs -> Conns]
  /\ Target \in [Reqs -> Targets]
  /\ Limited \subseteq Conns /\ Leaving \subseteq Conns
  /\ NoReq \notin Reqs

VARIABLES
  handleTimeout,  \* the package variable: whether it holds a limit
  rd,             \* where the reader of each connection is
  cur,            \* the request the reader holds
  inp,            \* message parts the reader has not consumed
  lost,           \* the JSON decoder of the Option kept some of the stream
  net,            \* each connection, seen from the server
  out,            \* message parts written to each connection
  lock,           \* the holder of the response lock of each connection
  hd,             \* where the handler of each request is
  wk,             \* where the worker of each request is
  lim,            \* handleReq's parameter handleTimeout
  sent,           \* requests the clients have sent
  known           \* those whose service and method could be found (history)

reqVars == <<hd, wk, lim>>
given == <<sent, known, serviceMap>>
vars == <<handleTimeout, rd, cur, inp, lost, net, out, lock, reqVars, given>>

Parts == [req : Reqs \cup {NoReq}, part : {"header", "body"}]
Writers == {"reader", "handler", "worker"} \X (Reqs \cup {NoReq})
Free == <<"free", NoReq>>

TypeOK ==
  /\ handleTimeout \in BOOLEAN
  /\ rd \in [Conns -> {"options", "header", "body", "invalid", "ended"}]
  /\ cur \in [Conns -> Reqs \cup {NoReq}]
  /\ inp \in [Conns -> Seq(Parts)] /\ out \in [Conns -> Seq(Parts)]
  /\ lost \in [Conns -> BOOLEAN]
  /\ net \in [Conns -> {"open", "fin", "reset", "closed"}]
  /\ lock \in [Conns -> Writers \cup {Free}]
  /\ hd \in [Reqs -> {"none", "select", "timeout", "wait", "done"}]
  /\ wk \in [Reqs -> {"none", "calling", "select", "write", "written", "done"}]
  /\ \A r \in Reqs : wk[r] \in {"write", "written"} <=> hd[r] = "wait"
  /\ lim \in [Reqs -> BOOLEAN]
  /\ known \subseteq sent /\ sent \subseteq Reqs
  /\ serviceMap \subseteq Receivers
  /\ \A u, v \in serviceMap : u.name = v.name => u = v

Init ==
  /\ handleTimeout = FALSE
  /\ rd = [c \in Conns |-> "options"] /\ cur = [c \in Conns |-> NoReq]
  /\ inp = [c \in Conns |-> <<>>] /\ out = [c \in Conns |-> <<>>]
  /\ lost = [c \in Conns |-> FALSE]
  /\ net = [c \in Conns |-> "open"]
  /\ lock = [c \in Conns |-> Free]
  /\ hd = [r \in Reqs |-> "none"] /\ wk = [r \in Reqs |-> "none"]
  /\ lim = [r \in Reqs |-> FALSE]
  /\ sent = {} /\ known = {} /\ serviceMap = {}

------------------------------------------------------------------------------
(* The client's end of a connection.                                       *)

Message(r) == <<[req |-> r, part |-> "header"], [req |-> r, part |-> "body"]>>

ClientSend(r) ==
  /\ r \notin sent /\ net[ConnOf[r]] = "open"
  /\ sent' = sent \cup {r}
  /\ inp' = [inp EXCEPT ![ConnOf[r]] = @ \o Message(r)]
  /\ known' = IF Found(Target[r]) THEN known \cup {r} ELSE known
  /\ UNCHANGED <<handleTimeout, rd, cur, lost, net, out, lock, reqVars, serviceMap>>

ClientClose(c) ==
  /\ c \in Leaving /\ net[c] = "open"
  /\ net' = [net EXCEPT ![c] = "fin"]
  /\ UNCHANGED <<handleTimeout, rd, cur, inp, lost, out, lock, reqVars, given>>

\* A closed client answers the responses still written to it with a reset.
PeerReset(c) ==
  /\ net[c] = "fin"
  /\ net' = [net EXCEPT ![c] = "reset"]
  /\ UNCHANGED <<handleTimeout, rd, cur, inp, lost, out, lock, reqVars, given>>

------------------------------------------------------------------------------
(* ServeConn and serveCode.                                                *)

\* The program registers a value, before or while connections are served.
RegisterService(v) ==
  /\ Register(v)
  /\ UNCHANGED <<handleTimeout, rd, cur, inp, lost, net, out, lock, reqVars,
                 sent, known>>

\* Decode(&opt) leaves what it buffered behind the Option in its own buffer:
\* the codec, which reads from the connection, never sees those parts.
ReadOptions(c) ==
  /\ rd[c] = "options" /\ net[c] \in {"open", "fin"}
  /\ \E kept \in 0 .. Len(inp[c]) :
       /\ inp' = [inp EXCEPT ![c] = SubSeq(@, kept + 1, Len(@))]
       /\ lost' = [lost EXCEPT ![c] = kept > 0]
  /\ handleTimeout' = (c \in Limited)
  /\ rd' = [rd EXCEPT ![c] = "header"]
  /\ UNCHANGED <<cur, net, out, lock, reqVars, given>>

\* The deferred conn.Close of ServeConn; nobody waits for the handlers.
EndConn(c) ==
  /\ rd' = [rd EXCEPT ![c] = "ended"]
  /\ net' = [net EXCEPT ![c] = "closed"]

\* An Option that cannot be read ends the connection, and so does one with
\* another magic number or codec, which has left its limit behind by then.
OptionsFail(c) ==
  /\ rd[c] = "options"
  /\ \/ UNCHANGED handleTimeout
     \/ net[c] \in {"open", "fin"} /\ handleTimeout' = (c \in Limited)
  /\ EndConn(c)
  /\ UNCHANGED <<cur, inp, lost, out, lock, reqVars, given>>

\* The next part of the stream is a header the decoder can read.
HeaderNext(c) == ~lost[c] /\ inp[c] # <<>> /\ Head(inp[c]).part = "header"

\* readReqHeader and findService: an unknown method leaves its body unread.
\* What the decoder has buffered is read even when the connection is gone.
ReadHeader(c) ==
  /\ rd[c] = "header" /\ HeaderNext(c)
  /\ LET r == Head(inp[c]).req IN
       /\ cur' = [cur EXCEPT ![c] = r]
       /\ rd' = [rd EXCEPT ![c] = IF Found(Target[r]) THEN "body" ELSE "invalid"]
  /\ inp' = [inp EXCEPT ![c] = Tail(@)]
  /\ UNCHANGED <<handleTimeout, lost, net, out, lock, reqVars, given>>

\* Fault: readReqHeader hides every error.
NeverBroken(c) == FALSE

\* A read fails with an error other than an end of file.
Broken(c) == net[c] \in {"reset", "closed"}

\* An error other than an end of file: a part that is not a header, a stream
\* whose beginning is lost, a reset connection, one the codec has closed.
ReadHeaderFails(c) ==
  /\ rd[c] = "header"
  /\ \/ Broken(c)
     \/ inp[c] # <<>> /\ ~HeaderNext(c)
  /\ EndConn(c)
  /\ UNCHANGED <<handleTimeout, cur, inp, lost, out, lock, reqVars, given>>

\* readReqHeader hides the end of the stream: an empty header is handled like
\* a request for an unknown method.
ReadEof(c) ==
  /\ rd[c] = "header" /\ net[c] = "fin" /\ inp[c] = <<>>
  /\ cur' = [cur EXCEPT ![c] = NoReq]
  /\ rd' = [rd EXCEPT ![c] = "invalid"]
  /\ UNCHANGED <<handleTimeout, inp, lost, net, out, lock, reqVars, given>>

\* ReadBody succeeds (ok) and handleReq is started with the current value of
\* the package variable, or the arguments are not of the method's type.
ReadBody(c, ok) ==
  /\ rd[c] = "body"
  /\ inp' = [inp EXCEPT ![c] = Tail(@)]
  /\ IF ok
     THEN /\ hd' = [hd EXCEPT ![cur[c]] = "select"]
          /\ wk' = [wk EXCEPT ![cur[c]] = "calling"]
          /\ lim' = [lim EXCEPT ![cur[c]] = handleTimeout]
          /\ rd' = [rd EXCEPT ![c] = "header"]
     ELSE rd' = [rd EXCEPT ![c] = "invalid"] /\ UNCHANGED reqVars
  /\ UNCHANGED <<handleTimeout, cur, lost, net, out, lock, given>>

------------------------------------------------------------------------------
(* sendResponse: the two encodings of GobCodec.Write, under the lock.      *)

\* A client that is gone gets nothing.
Emit(c, r, part) ==
  out' = [out EXCEPT ![c] = IF net[c] # "open" THEN @
                            ELSE Append(@, [req |-> r, part |-> part])]

\* Fault: sendResponse does not take the lock.
NoLock(c) == TRUE

\* lock.Lock() does not block.
CanLock(c) == lock[c] = Free

WriteHeader(c, w) ==
  /\ CanLock(c)
  /\ lock' = [lock EXCEPT ![c] = w]
  /\ Emit(c, w[2], "header")
  /\ UNCHANGED <<handleTimeout, rd, cur, inp, lost, net, hd, wk, lim, given>>

\* Fault: the lock is not released.
StillLocked(w) == w

\* The deferred lock.Unlock().
Unlocked(w) == Free

\* An encoding error makes the codec close the connection.
WriteBody(c, w) ==
  /\ lock[c] = w
  /\ lock' = [lock EXCEPT ![c] = Unlocked(w)]
  /\ \/ Emit(c, w[2], "body") /\ UNCHANGED net
     \/ net' = [net EXCEPT ![c] = "closed"] /\ UNCHANGED out
  /\ UNCHANGED <<handleTimeout, cur, inp, lost, lim, given>>

Reader(c) == <<"reader", cur[c]>>
Handler(r) == <<"handler", r>>
Worker(r) == <<"worker", r>>

\* The answer to a request that is not valid, then on to the next one.
RefuseHeader(c) == rd[c] = "invalid" /\ lock[c] # Reader(c) /\ WriteHeader(c, Reader(c))
RefuseBody(c) ==
  /\ rd[c] = "invalid" /\ WriteBody(c, Reader(c))
  /\ rd' = [rd EXCEPT ![c] = "header"]
  /\ UNCHANGED <<hd, wk>>

------------------------------------------------------------------------------
(* handleReq and the goroutine it starts.                                  *)

MethodReturns(r) ==
  /\ wk[r] = "calling"
  /\ wk' = [wk EXCEPT ![r] = "select"]
  /\ UNCHANGED <<handleTimeout, rd, cur, inp, lost, net, out, lock, hd, lim, given>>

\* Fault: a channel with a buffer takes the value without a receiver.
CalledBuffered(r) == hd[r] \in {"select", "timeout", "done"}

\* The handler receives from called, which has no buffer.
CalledReceived(r) == hd[r] = "select"

\* called <- struct{}{} meets <-called.
Called(r) ==
  /\ wk[r] = "select" /\ CalledReceived(r)
  /\ wk' = [wk EXCEPT ![r] = "write"]
  /\ hd' = [hd EXCEPT ![r] = IF @ = "select" THEN "wait" ELSE @]
  /\ UNCHANGED <<handleTimeout, rd, cur, inp, lost, net, out, lock, lim, given>>

ReplyHeader(r) ==
  /\ wk[r] = "write" /\ lock[ConnOf[r]] # Worker(r)
  /\ WriteHeader(ConnOf[r], Worker(r))
ReplyBody(r) ==
  /\ wk[r] = "write" /\ WriteBody(ConnOf[r], Worker(r))
  /\ wk' = [wk EXCEPT ![r] = "written"]
  /\ UNCHANGED <<rd, hd>>

\* sent <- struct{}{} meets <-sent; handleReq returns.
Sent(r) ==
  /\ wk[r] = "written" /\ hd[r] = "wait"
  /\ wk' = [wk EXCEPT ![r] = "done"] /\ hd' = [hd EXCEPT ![r] = "done"]
  /\ UNCHANGED <<handleTimeout, rd, cur, inp, lost, net, out, lock, lim, given>>

\* time.After wins the select of the handler.
Timeout(r) ==
  /\ hd[r] = "select" /\ lim[r]
  /\ hd' = [hd EXCEPT ![r] = "timeout"]
  /\ UNCHANGED <<handleTimeout, rd, cur, inp, lost, net, out, lock, wk, lim, given>>

TimeoutHeader(r) ==
  /\ hd[r] = "timeout" /\ lock[ConnOf[r]] # Handler(r)
  /\ WriteHeader(ConnOf[r], Handler(r))
TimeoutBody(r) ==
  /\ hd[r] = "timeout" /\ WriteBody(ConnOf[r], Handler(r))
  /\ hd' = [hd EXCEPT ![r] = "done"]
  /\ UNCHANGED <<rd, wk>>

\* Fault: finish is not closed when the handler returns.
FinishOpen(r) == FALSE

\* The deferred close(finish) has run.
FinishClosed(r) == hd[r] = "done"

\* <-finish: the method came back after the time-out was answered.
Abandon(r) ==
  /\ wk[r] = "select" /\ FinishClosed(r)
  /\ wk' = [wk EXCEPT ![r] = "done"]
  /\ UNCHANGED <<handleTimeout, rd, cur, inp, lost, net, out, lock, hd, lim, given>>

------------------------------------------------------------------------------
ReaderStep(c) ==
  \/ ReadOptions(c) \/ OptionsFail(c)
  \/ ReadHeader(c) \/ ReadHeaderFails(c) \/ ReadEof(c)
  \/ (\E ok \in BOOLEAN : ReadBody(c, ok))
  \/ RefuseHeader(c) \/ RefuseBody(c)

HandlerStep(r) == Timeout(r) \/ TimeoutHeader(r) \/ TimeoutBody(r)

WorkerStep(r) ==
  Called(r) \/ ReplyHeader(r) \/ ReplyBody(r) \/ Sent(r) \/ Abandon(r)

Client ==
  \/ \E r \in Reqs : ClientSend(r)
  \/ \E c \in Conns : ClientClose(c) \/ PeerReset(c)

Next ==
  \/ Client
  \/ \E v \in Receivers : RegisterService(v)
  \/ \E c \in Conns : ReaderStep(c)
  \/ \E r \in Reqs : HandlerStep(r) \/ MethodReturns(r) \/ WorkerStep(r)

\* Goroutines that can run do run, the timer of a limit fires and the host of
\* a closed client sends resets.  A
\* service method need not return and a client need not do anything.
Fairness ==
  /\ \A c \in Conns : WF_vars(ReaderStep(c)) /\ WF_vars(PeerReset(c))
  /\ \A r \in Reqs : WF_vars(HandlerStep(r)) /\ WF_vars(WorkerStep(r))

Spec == Init /\ [][Next]_vars
FairSpec == Spec /\ Fairness

------------------------------------------------------------------------------
(* Properties.                                                             *)

Answered(r) == \E i \in DOMAIN out[ConnOf[r]] :
                 out[ConnOf[r]][i] = [req |-> r, part |-> "body"]

\* server.go:174-215: the time-out and the result race for the right to
\* answer, and one response to a request is all the client ever gets.
AnsweredOnce ==
  \A c \in Conns : \A i, j \in DOMAIN out[c] :
    out[c][i] = out[c][j] => i = j

\* server.go:166-172: the responses of a connection come from its reader, its
\* handlers and its workers, and yet every body follows its own header.
ResponsesWhole ==
  \A c \in Conns : \A i \in DOMAIN out[c] :
    /\ out[c][i].part = IF i % 2 = 1 THEN "header" ELSE "body"
    /\ i % 2 = 0 => out[c][i].req = out[c][i - 1].req

\* server.go:217-223, 229-248: once a request could be found, its service stays
\* what it was, whatever is registered later: the request is not refused for
\* naming no service or method.
StaysKnown ==
  [][\A c \in Conns : rd[c] = "header" /\ rd'[c] = "invalid" => cur'[c] \notin known]_vars

\* server.go:180-214: once the method has come back, its goroutine ends, also
\* when the handler has given up on it and receives from no channel any more.
WorkerFreed == \A r \in Reqs : wk[r] = "select" ~> wk[r] = "done"

\* server.go:208-214: a request handled under a limit is answered even when
\* its method never returns, unless its connection is gone.
LimitedAnswered ==
  \A r \in Reqs : lim[r] ~> (Answered(r) \/ net[ConnOf[r]] # "open")

\* server.go:96-108, 121-131: the reader of a connection that its client has
\* left ends, although the end of the stream is answered like a request.
ReaderEnds == \A c \in Conns : net[c] # "open" ~> rd[c] = "ended"

\* service_test.go:106-113: a client that asks for a HandleTimeout has its
\* requests handled under it.
OwnLimit ==
  \A r \in Reqs : hd[r] # "none" => lim[r] = (ConnOf[r] \in Limited)

==============================================================================
