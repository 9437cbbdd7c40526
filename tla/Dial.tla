-------------------------------- MODULE Dial --------------------------------
(***************************************************************************)
(* aoirpc/client.go, dialTimeout: a connection is made, a goroutine of its *)
(* own (the maker) turns it into a Client, for HTTP after it has read the  *)
(* answer to CONNECT, which may never come, and hands the result over an   *)
(* unbuffered channel to the goroutine that dials, or ends when that one   *)
(* has returned and finish is closed.  A Client is abstracted to its       *)
(* receive goroutine and its connection (RpcClient has the rest).          *)
(***************************************************************************)
EXTENDS Naturals, Sequences

CONSTANTS
  Addrs,      \* the servers
  MaxDials,   \* bound: connections that are explored
  Limited     \* Option.ConnectionTimeout is not 0

ASSUME DialAssumption ==
  /\ MaxDials \in Nat /\ Addrs # {} /\ Limited \in BOOLEAN

VARIABLE
  conns   \* the connections that were made

\* sock: lost when the other end has closed it and the descriptor is still
\* ours; maker: where the goroutine of dialTimeout is, made and failed at its
\* select; client: whether the receive goroutine of a Client runs.
Conn ==
  [addr : Addrs, sock : {"open", "lost", "closed"},
   maker : {"making", "made", "failed", "gone"},
   client : {"none", "up", "down"}]

DialTypeOK == conns \in Seq(Conn) /\ Len(conns) <= MaxDials

DialInit == conns = <<>>

\* Client.IsAvailable, of a Client that dialTimeout has returned.
Available(i) == conns[i].client = "up" /\ conns[i].sock # "closed"

\* conn.Close() of the connections C.
Closed(C) ==
  [i \in DOMAIN conns |->
    IF i \in C THEN [conns[i] EXCEPT !.sock = "closed"] ELSE conns[i]]

\* net.DialTimeout succeeds and the maker starts.
Connect(a) ==
  /\ Len(conns) < MaxDials
  /\ conns' = Append(conns, [addr |-> a, sock |-> "open",
                             maker |-> "making", client |-> "none"])

\* f returns: NewClient wrote the Option and started receive, or it failed,
\* and closes the connection when it could not write.
Made(i) ==
  /\ conns[i].maker = "making"
  /\ \/ conns' = [conns EXCEPT ![i].maker = "made", ![i].client = "up"]
     \/ conns' = [conns EXCEPT ![i].maker = "failed"]
     \/ conns' = [conns EXCEPT ![i].maker = "failed", ![i].sock = "closed"]

\* The maker is at its select.
Ready(i) == conns[i].maker \in {"made", "failed"}

\* The dialler receives the result and returns it; the deferred function
\* closes the connection when that is an error.
Handed(i) ==
  [conns EXCEPT ![i].maker = "gone",
                ![i].sock = IF conns[i].maker = "failed" THEN "closed" ELSE @]

\* Fault: dialTimeout leaves the connection open when its time is up.
KeptOpen(i) == conns

\* The time limit returns an error, and the connection is closed.
TimedOut(i) == Closed({i})

\* The maker finds finish closed.
Late(i) == Ready(i) /\ conns' = [conns EXCEPT ![i].maker = "gone"]

\* receive gets an error from its connection and ends.
ReceiveEnds(i) ==
  /\ conns[i].client = "up" /\ conns[i].sock # "open"
  /\ conns' = [conns EXCEPT ![i].client = "down"]

\* The other end closes the connection.
Lost(i) ==
  /\ conns[i].sock = "open"
  /\ conns' = [conns EXCEPT ![i].sock = "lost"]
==============================================================================
