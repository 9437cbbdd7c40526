--------------------------- MODULE RpcClientProofs ---------------------------
(***************************************************************************)
(* Theorems about RpcClient, for any sets of calls and any capacity of the *)
(* shared Done channel.                                                    *)
(*                                                                         *)
(* The right to signal a call is a token: it is with the sender until the  *)
(* call is registered, then with pending, then with whoever takes the call *)
(* out of pending.  Once says that the holder of the token has not used    *)
(* it; the other parts say that there is one holder.                       *)
(***************************************************************************)
EXTENDS RpcClient, FiniteSetTheorems, TLAPS

\* Client.sending is held exactly in the steps of send and terminateCalls.
LockInv ==
  /\ \A c \in Calls :
       pc[c] \in {"register", "write", "undo", "strobe"} <=> sending = c
  /\ rpc = "notify" <=> sending = Receiver

\* pending files each call under its own number, after it was registered.
PendingInv ==
  /\ \A n \in DOMAIN pending :
       /\ callSeq[pending[n]] = n
       /\ pc[pending[n]] \notin {"idle", "register", "strobe"}
  /\ \A c \in Calls : pc[c] \in {"write", "undo"} =>
       /\ callSeq[c] < seq
       /\ callSeq[c] \in DOMAIN pending => pending[callSeq[c]] = c

\* Where the receive goroutine is with its local variables.
ReceiverInv ==
  /\ cur # Nobody => rpc \in {"body", "deliver", "notify"}
  /\ rpc = "deliver" => cur # Nobody
  /\ rpc = "notify" => todo \subseteq Range(pending) /\ cur \in todo \cup {Nobody}
  /\ rpc \in {"notify", "exit"} =>
       shutdown /\ \A c \in Calls : pc[c] \notin {"write", "undo"}
  /\ rpc \in {"body", "deliver"} /\ cur # Nobody =>
       cur \notin Range(pending) /\ pc[cur] \notin {"idle", "register", "strobe"}

\* The holder of the token of a call has not signalled it yet.
Once ==
  /\ \A c \in Calls : pc[c] \in {"idle", "register", "strobe"} => strobes[c] = 0
  /\ rpc \notin {"notify", "exit"} => \A c \in Range(pending) : strobes[c] = 0
  /\ rpc = "notify" => \A c \in todo : strobes[c] = 0
  /\ rpc \in {"body", "deliver"} /\ cur # Nobody => strobes[cur] = 0
  /\ SignalledAtMostOnce

\* A request under way carries the number its call is filed under, and only
\* a call that was signalled is in its channel or has been returned from it.
AnswerInv ==
  /\ \A w \in wire :
       w.seq < seq /\ (w.seq \in DOMAIN pending => pending[w.seq] = w.call)
  /\ rpc = "body" /\ cur # Nobody => msg.call = cur
  /\ rpc = "deliver" /\ callErr[cur] = "none" => reply[cur] = cur
  /\ rpc = "notify" /\ cur # Nobody => callErr[cur] # "none"
  /\ \A c \in Calls :
       /\ pc[c] = "strobe" => callErr[c] # "none"
       /\ c \in inbox \/ result[c] \in CallErrors => strobes[c] = 1
       /\ c \in inbox /\ callErr[c] = "none" => reply[c] = c
  /\ ReplyToOwnRequest

IInv == TypeOK /\ LockInv /\ PendingInv /\ ReceiverInv /\ Once /\ AnswerInv

------------------------------------------------------------------------------
(* The step lemmas unfold an action and these tuples of unchanged variables. *)
USE ClientAssumption DEF vars, lockVars, callerVars, recvVars, netVars, doneVars,
  Goto, MuFree, TakenElsewhere

\* Init satisfies the type invariant.
LEMMA TypeInit == Init => TypeOK
  <1> SUFFICES ASSUME Init PROVE TypeOK
  OBVIOUS
<1>1. pending \in [DOMAIN pending -> Calls] /\ DOMAIN pending \subseteq 0 .. seq - 1
  BY DEF Init
<1> QED
  BY <1>1 DEF Init, TypeOK, CallErrors, NoAnswer, Answer

\* The calls in pending are calls.
LEMMA RangeCalls == TypeOK => Range(pending) \subseteq Calls
  BY DEF TypeOK, Range

\* registerCall adds one call to pending.
LEMMA RangeRegistered ==
  \A c \in Calls : Range(Registered(c)) \subseteq Range(pending) \cup {c}
  BY DEF Registered, Range

\* removeCall adds none, and what it returns is a call that is gone from
\* pending, because no call is filed twice.
LEMMA RangeWithout ==
  ASSUME TypeOK, PendingInv, NEW n
  PROVE  /\ Range(Without(n)) \subseteq Range(pending)
         /\ Lookup(n) # Nobody =>
              /\ Lookup(n) \in Range(pending)
              /\ Lookup(n) \notin Range(Without(n))
<1>1. Range(Without(n)) \subseteq Range(pending)
  BY DEF Without, Restrict, Range
<1>2. Lookup(n) # Nobody => n \in DOMAIN pending /\ Lookup(n) = pending[n]
  BY DEF Lookup
<1>3. ASSUME NEW m \in DOMAIN pending, m # n, n \in DOMAIN pending
      PROVE  pending[m] # pending[n]
  BY <1>3 DEF PendingInv
<1> QED
  BY <1>1, <1>2, <1>3 DEF Without, Restrict, Range

\* No step leaves the types: the receive goroutine only signals a call it has.
LEMMA TypeStep ==
  TypeOK /\ ReceiverInv /\ [Next]_vars => TypeOK'
<1> SUFFICES ASSUME TypeOK, ReceiverInv, [Next]_vars PROVE TypeOK'
  OBVIOUS
<1>1. ASSUME NEW c \in Calls, Lock(c) \/ RegisterCall(c) \/ RegisterRefused(c)
      PROVE  TypeOK'
  BY <1>1 DEF TypeOK, CallErrors, Answer, ReceiverInv, Lock, RegisterCall,
    Registered, NextSeq, RegisterGuard, IsAvailable, RegisterRefused
<1>2. ASSUME NEW c \in Calls, Write(c) \/ WriteFails(c) \/ CtxDone(c)
      PROVE  TypeOK'
  BY <1>2 DEF TypeOK, CallErrors, Answer, ReceiverInv, Write, WriteFails,
    CtxDone
<1>3. ASSUME NEW c \in Calls, Undo(c)
      PROVE  TypeOK'
  BY <1>3 DEF TypeOK, CallErrors, Answer, ReceiverInv, Undo, RemoveCall,
    Without, Restrict, Lookup
<1>4. ASSUME NEW c \in Calls, StrobeOwn(c) \/ TakeDone(c)
      PROVE  TypeOK'
  BY <1>4 DEF TypeOK, CallErrors, Answer, ReceiverInv, StrobeOwn, Strobe,
    TakeDone
<1>5. ASSUME NEW c \in Calls, Cancel(c)
      PROVE  TypeOK'
  BY <1>5 DEF TypeOK, CallErrors, Answer, ReceiverInv, Cancel, RemoveCall,
    Without, Restrict
<1>6. ASSUME NEW ok \in BOOLEAN, ReadBody(ok) PROVE TypeOK'
  BY <1>6 DEF TypeOK, CallErrors, Answer, ReceiverInv, ReadBody
<1>7. CASE RecvHeader
  BY <1>7 DEF TypeOK, CallErrors, Answer, ReceiverInv, RecvHeader,
    RemoveCall, Without, Restrict, Lookup, SignalLater
<1>8. CASE RecvFails \/ RecvExit
  BY <1>8 DEF TypeOK, CallErrors, Answer, ReceiverInv, RecvFails, RecvExit
<1>9. CASE Deliver \/ NotifyStrobe
  BY <1>9 DEF TypeOK, CallErrors, Answer, ReceiverInv, Deliver, Strobe,
    NotifyStrobe
<1>10. CASE Terminate
  BY <1>10 DEF TypeOK, CallErrors, Answer, ReceiverInv, Terminate, Range
<1>11. CASE NotifyPick
  BY <1>11 DEF TypeOK, CallErrors, Answer, ReceiverInv, NotifyPick
<1>12. CASE Close \/ PeerCloses \/ UNCHANGED vars
  BY <1>12 DEF TypeOK, CallErrors, Answer, ReceiverInv, Close, PeerCloses
<1> QED
  BY <1>1, <1>2, <1>3, <1>4, <1>5, <1>6, <1>7, <1>8, <1>9, <1>10, <1>11,
    <1>12
  DEF Next, Caller, Send, Receive

\* Client.sending changes hands as its holder moves in and out of send.
LEMMA LockStep ==
  TypeOK /\ LockInv /\ [Next]_vars => LockInv'
<1> SUFFICES ASSUME TypeOK, LockInv, [Next]_vars PROVE LockInv'
  OBVIOUS
<1>1. ASSUME NEW c \in Calls, Lock(c)
      PROVE  LockInv'
  BY <1>1 DEF TypeOK, LockInv, Lock
<1>2. ASSUME NEW c \in Calls, RegisterCall(c)
      PROVE  LockInv'
  BY <1>2 DEF TypeOK, LockInv, RegisterCall, Registered, NextSeq,
    RegisterGuard, IsAvailable
<1>3. ASSUME NEW c \in Calls, RegisterRefused(c)
      PROVE  LockInv'
  BY <1>3 DEF TypeOK, LockInv, RegisterRefused, RegisterGuard, IsAvailable
<1>4. ASSUME NEW c \in Calls, Write(c)
      PROVE  LockInv'
  BY <1>4 DEF TypeOK, LockInv, Write
<1>5. ASSUME NEW c \in Calls, WriteFails(c)
      PROVE  LockInv'
  BY <1>5 DEF TypeOK, LockInv, WriteFails
<1>6. ASSUME NEW c \in Calls, Undo(c)
      PROVE  LockInv'
  BY <1>6 DEF TypeOK, LockInv, Undo, RemoveCall, Without, Restrict, Lookup
<1>7. ASSUME NEW c \in Calls, StrobeOwn(c)
      PROVE  LockInv'
  BY <1>7 DEF TypeOK, LockInv, StrobeOwn, Strobe
<1>8. ASSUME NEW c \in Calls, TakeDone(c)
      PROVE  LockInv'
  BY <1>8 DEF TypeOK, LockInv, TakeDone
<1>9. ASSUME NEW c \in Calls, CtxDone(c)
      PROVE  LockInv'
  BY <1>9 DEF TypeOK, LockInv, CtxDone
<1>10. ASSUME NEW c \in Calls, Cancel(c)
      PROVE  LockInv'
  BY <1>10 DEF TypeOK, LockInv, Cancel, RemoveCall, Without, Restrict
<1>11. ASSUME NEW ok \in BOOLEAN, ReadBody(ok) PROVE LockInv'
  BY <1>11 DEF TypeOK, LockInv, ReadBody
<1>12. CASE RecvHeader
  BY <1>12 DEF TypeOK, LockInv, RecvHeader, RemoveCall, Without, Restrict,
    Lookup, SignalLater
<1>13. CASE RecvFails
  BY <1>13 DEF TypeOK, LockInv, RecvFails
<1>14. CASE Deliver
  BY <1>14 DEF TypeOK, LockInv, Deliver, Strobe
<1>15. CASE Terminate
  BY <1>15 DEF TypeOK, LockInv, Terminate, Range
<1>16. CASE NotifyPick
  BY <1>16 DEF TypeOK, LockInv, NotifyPick
<1>17. CASE NotifyStrobe
  BY <1>17 DEF TypeOK, LockInv, NotifyStrobe, Strobe
<1>18. CASE RecvExit
  BY <1>18 DEF TypeOK, LockInv, RecvExit
<1>19. CASE Close \/ PeerCloses \/ UNCHANGED vars
  BY <1>19 DEF TypeOK, LockInv, Close, PeerCloses
<1> QED
  BY <1>1, <1>2, <1>3, <1>4, <1>5, <1>6, <1>7, <1>8, <1>9, <1>10, <1>11,
    <1>12, <1>13, <1>14, <1>15, <1>16, <1>17, <1>18, <1>19
  DEF Next, Caller, Send, Receive

\* Entries of pending keep their numbers.
LEMMA PendingStep ==
  TypeOK /\ LockInv /\ PendingInv /\ [Next]_vars => PendingInv'
<1> SUFFICES ASSUME TypeOK, LockInv, PendingInv, [Next]_vars PROVE PendingInv'
  OBVIOUS
<1>1. ASSUME NEW c \in Calls, Lock(c)
      PROVE  PendingInv'
  BY <1>1 DEF TypeOK, LockInv, PendingInv, Lock
<1>2. ASSUME NEW c \in Calls, RegisterCall(c)
      PROVE  PendingInv'
  BY <1>2 DEF TypeOK, LockInv, PendingInv, RegisterCall, Registered, NextSeq,
    RegisterGuard, IsAvailable
<1>3. ASSUME NEW c \in Calls, RegisterRefused(c)
      PROVE  PendingInv'
  BY <1>3 DEF TypeOK, LockInv, PendingInv, RegisterRefused, RegisterGuard,
    IsAvailable
<1>4. ASSUME NEW c \in Calls, Write(c)
      PROVE  PendingInv'
  BY <1>4 DEF TypeOK, LockInv, PendingInv, Write
<1>5. ASSUME NEW c \in Calls, WriteFails(c)
      PROVE  PendingInv'
  BY <1>5 DEF TypeOK, LockInv, PendingInv, WriteFails
<1>6. ASSUME NEW c \in Calls, Undo(c)
      PROVE  PendingInv'
  BY <1>6 DEF TypeOK, LockInv, PendingInv, Undo, RemoveCall, Without,
    Restrict, Lookup
<1>7. ASSUME NEW c \in Calls, StrobeOwn(c)
      PROVE  PendingInv'
  BY <1>7 DEF TypeOK, LockInv, PendingInv, StrobeOwn, Strobe
<1>8. ASSUME NEW c \in Calls, TakeDone(c)
      PROVE  PendingInv'
  BY <1>8 DEF TypeOK, LockInv, PendingInv, TakeDone
<1>9. ASSUME NEW c \in Calls, CtxDone(c)
      PROVE  PendingInv'
  BY <1>9 DEF TypeOK, LockInv, PendingInv, CtxDone
<1>10. ASSUME NEW c \in Calls, Cancel(c)
      PROVE  PendingInv'
  BY <1>10 DEF TypeOK, LockInv, PendingInv, Cancel, RemoveCall, Without,
    Restrict
<1>11. ASSUME NEW ok \in BOOLEAN, ReadBody(ok) PROVE PendingInv'
  BY <1>11 DEF TypeOK, LockInv, PendingInv, ReadBody
<1>12. CASE RecvHeader
  BY <1>12 DEF TypeOK, LockInv, PendingInv, RecvHeader, RemoveCall, Without,
    Restrict, Lookup, SignalLater
<1>13. CASE RecvFails
  BY <1>13 DEF TypeOK, LockInv, PendingInv, RecvFails
<1>14. CASE Deliver
  BY <1>14 DEF TypeOK, LockInv, PendingInv, Deliver, Strobe
<1>15. CASE Terminate
  BY <1>15 DEF TypeOK, LockInv, PendingInv, Terminate, Range
<1>16. CASE NotifyPick
  BY <1>16 DEF TypeOK, LockInv, PendingInv, NotifyPick
<1>17. CASE NotifyStrobe
  BY <1>17 DEF TypeOK, LockInv, PendingInv, NotifyStrobe, Strobe
<1>18. CASE RecvExit
  BY <1>18 DEF TypeOK, LockInv, PendingInv, RecvExit
<1>19. CASE Close \/ PeerCloses \/ UNCHANGED vars
  BY <1>19 DEF TypeOK, LockInv, PendingInv, Close, PeerCloses
<1> QED
  BY <1>1, <1>2, <1>3, <1>4, <1>5, <1>6, <1>7, <1>8, <1>9, <1>10, <1>11,
    <1>12, <1>13, <1>14, <1>15, <1>16, <1>17, <1>18, <1>19
  DEF Next, Caller, Send, Receive

\* The receive goroutine owns what it took out of pending.
LEMMA ReceiverStep ==
  TypeOK /\ LockInv /\ PendingInv /\ ReceiverInv /\ [Next]_vars => ReceiverInv'
<1> SUFFICES ASSUME TypeOK, LockInv, PendingInv, ReceiverInv, [Next]_vars PROVE ReceiverInv'
  OBVIOUS
<1>1. ASSUME NEW c \in Calls, Lock(c)
      PROVE  ReceiverInv'
  BY <1>1 DEF TypeOK, LockInv, PendingInv, ReceiverInv, Range, Lock
<1>2. ASSUME NEW c \in Calls, RegisterCall(c)
      PROVE  ReceiverInv'
  <2>1. Range(pending') \subseteq Range(pending) \cup {c}
    BY <1>2, RangeRegistered DEF RegisterCall
  <2> QED
    BY <1>2, <2>1, RangeCalls DEF TypeOK, LockInv, PendingInv, ReceiverInv,
      RegisterCall, RegisterGuard, IsAvailable
<1>3. ASSUME NEW c \in Calls, RegisterRefused(c)
      PROVE  ReceiverInv'
  BY <1>3 DEF TypeOK, LockInv, PendingInv, ReceiverInv, Range,
    RegisterRefused, RegisterGuard, IsAvailable
<1>4. ASSUME NEW c \in Calls, Write(c)
      PROVE  ReceiverInv'
  BY <1>4 DEF TypeOK, LockInv, PendingInv, ReceiverInv, Range, Write
<1>5. ASSUME NEW c \in Calls, WriteFails(c)
      PROVE  ReceiverInv'
  BY <1>5 DEF TypeOK, LockInv, PendingInv, ReceiverInv, Range, WriteFails
<1>6. ASSUME NEW c \in Calls, Undo(c)
      PROVE  ReceiverInv'
  <2>1. Range(pending') \subseteq Range(pending)
    BY <1>6, RangeWithout DEF Undo, RemoveCall
  <2>2. Lookup(callSeq[c]) # Nobody => c \in Range(pending)
    BY <1>6 DEF TypeOK, PendingInv, Undo, Goto, Lookup, Range
  <2> QED
    BY <1>6, <2>1, <2>2, RangeCalls DEF TypeOK, LockInv, PendingInv,
      ReceiverInv, Undo
<1>7. ASSUME NEW c \in Calls, StrobeOwn(c)
      PROVE  ReceiverInv'
  BY <1>7 DEF TypeOK, LockInv, PendingInv, ReceiverInv, Range, StrobeOwn,
    Strobe
<1>8. ASSUME NEW c \in Calls, TakeDone(c)
      PROVE  ReceiverInv'
  BY <1>8 DEF TypeOK, LockInv, PendingInv, ReceiverInv, Range, TakeDone
<1>9. ASSUME NEW c \in Calls, CtxDone(c)
      PROVE  ReceiverInv'
  BY <1>9 DEF TypeOK, LockInv, PendingInv, ReceiverInv, Range, CtxDone
<1>10. ASSUME NEW c \in Calls, Cancel(c)
      PROVE  ReceiverInv'
  <2>1. Range(pending') \subseteq Range(pending)
    BY <1>10, RangeWithout DEF Cancel, RemoveCall
  <2> QED
    BY <1>10, <2>1, RangeCalls DEF TypeOK, LockInv, PendingInv, ReceiverInv,
      Cancel
<1>11. ASSUME NEW ok \in BOOLEAN, ReadBody(ok) PROVE ReceiverInv'
  BY <1>11 DEF TypeOK, LockInv, PendingInv, ReceiverInv, Range, ReadBody
<1>12. CASE RecvHeader
  <2>1. Range(pending') \subseteq Range(pending)
    BY <1>12, RangeWithout DEF RecvHeader, RemoveCall
  <2>2. cur' # Nobody => cur' \in Range(pending) /\ cur' \notin Range(pending')
    BY <1>12, RangeWithout DEF RecvHeader, RemoveCall
  <2>3. \A c \in Range(pending) : pc[c] \notin {"idle", "register", "strobe"}
    BY DEF PendingInv, Range
  <2> QED
    BY <1>12, <2>1, <2>2, <2>3, RangeCalls DEF TypeOK, LockInv, PendingInv,
      ReceiverInv, RecvHeader, SignalLater
<1>13. CASE RecvFails
  BY <1>13 DEF TypeOK, LockInv, PendingInv, ReceiverInv, Range, RecvFails
<1>14. CASE Deliver
  BY <1>14 DEF TypeOK, LockInv, PendingInv, ReceiverInv, Range, Deliver,
    Strobe
<1>15. CASE Terminate
  BY <1>15 DEF TypeOK, LockInv, PendingInv, ReceiverInv, Range, Terminate,
    Range
<1>16. CASE NotifyPick
  BY <1>16 DEF TypeOK, LockInv, PendingInv, ReceiverInv, Range, NotifyPick
<1>17. CASE NotifyStrobe
  BY <1>17 DEF TypeOK, LockInv, PendingInv, ReceiverInv, Range, NotifyStrobe,
    Strobe
<1>18. CASE RecvExit
  BY <1>18 DEF TypeOK, LockInv, PendingInv, ReceiverInv, Range, RecvExit
<1>19. CASE Close \/ PeerCloses \/ UNCHANGED vars
  BY <1>19 DEF TypeOK, LockInv, PendingInv, ReceiverInv, Range, Close,
    PeerCloses
<1> QED
  BY <1>1, <1>2, <1>3, <1>4, <1>5, <1>6, <1>7, <1>8, <1>9, <1>10, <1>11,
    <1>12, <1>13, <1>14, <1>15, <1>16, <1>17, <1>18, <1>19
  DEF Next, Caller, Send, Receive

\* The right to signal is handed on unused.
LEMMA OnceStep ==
  TypeOK /\ LockInv /\ PendingInv /\ ReceiverInv /\ Once /\ [Next]_vars => Once'
<1> SUFFICES ASSUME TypeOK, LockInv, PendingInv, ReceiverInv, Once, [Next]_vars PROVE Once'
  OBVIOUS
<1>1. ASSUME NEW c \in Calls, Lock(c)
      PROVE  Once'
  BY <1>1 DEF TypeOK, LockInv, PendingInv, ReceiverInv, Once,
    SignalledAtMostOnce, Range, Lock
<1>2. ASSUME NEW c \in Calls, RegisterCall(c)
      PROVE  Once'
  <2>1. Range(pending') \subseteq Range(pending) \cup {c}
    BY <1>2, RangeRegistered DEF RegisterCall
  <2> QED
    BY <1>2, <2>1, RangeCalls DEF TypeOK, LockInv, PendingInv, ReceiverInv,
      Once, SignalledAtMostOnce, RegisterCall, RegisterGuard, IsAvailable
<1>3. ASSUME NEW c \in Calls, RegisterRefused(c)
      PROVE  Once'
  BY <1>3 DEF TypeOK, LockInv, PendingInv, ReceiverInv, Once,
    SignalledAtMostOnce, Range, RegisterRefused, RegisterGuard, IsAvailable
<1>4. ASSUME NEW c \in Calls, Write(c)
      PROVE  Once'
  BY <1>4 DEF TypeOK, LockInv, PendingInv, ReceiverInv, Once,
    SignalledAtMostOnce, Range, Write
<1>5. ASSUME NEW c \in Calls, WriteFails(c)
      PROVE  Once'
  BY <1>5 DEF TypeOK, LockInv, PendingInv, ReceiverInv, Once,
    SignalledAtMostOnce, Range, WriteFails
<1>6. ASSUME NEW c \in Calls, Undo(c)
      PROVE  Once'
  <2>1. Range(pending') \subseteq Range(pending)
    BY <1>6, RangeWithout DEF Undo, RemoveCall
  <2>2. Lookup(callSeq[c]) # Nobody => c \in Range(pending)
    BY <1>6 DEF TypeOK, PendingInv, Undo, Goto, Lookup, Range
  <2> QED
    BY <1>6, <2>1, <2>2, RangeCalls DEF TypeOK, LockInv, PendingInv,
      ReceiverInv, Once, SignalledAtMostOnce, Undo
<1>7. ASSUME NEW c \in Calls, StrobeOwn(c)
      PROVE  Once'
  BY <1>7 DEF TypeOK, LockInv, PendingInv, ReceiverInv, Once,
    SignalledAtMostOnce, Range, StrobeOwn, Strobe
<1>8. ASSUME NEW c \in Calls, TakeDone(c)
      PROVE  Once'
  BY <1>8 DEF TypeOK, LockInv, PendingInv, ReceiverInv, Once,
    SignalledAtMostOnce, Range, TakeDone
<1>9. ASSUME NEW c \in Calls, CtxDone(c)
      PROVE  Once'
  BY <1>9 DEF TypeOK, LockInv, PendingInv, ReceiverInv, Once,
    SignalledAtMostOnce, Range, CtxDone
<1>10. ASSUME NEW c \in Calls, Cancel(c)
      PROVE  Once'
  <2>1. Range(pending') \subseteq Range(pending)
    BY <1>10, RangeWithout DEF Cancel, RemoveCall
  <2> QED
    BY <1>10, <2>1, RangeCalls DEF TypeOK, LockInv, PendingInv, ReceiverInv,
      Once, SignalledAtMostOnce, Cancel
<1>11. ASSUME NEW ok \in BOOLEAN, ReadBody(ok) PROVE Once'
  BY <1>11 DEF TypeOK, LockInv, PendingInv, ReceiverInv, Once,
    SignalledAtMostOnce, Range, ReadBody
<1>12. CASE RecvHeader
  <2>1. Range(pending') \subseteq Range(pending)
    BY <1>12, RangeWithout DEF RecvHeader, RemoveCall
  <2>2. cur' # Nobody => cur' \in Range(pending) /\ cur' \notin Range(pending')
    BY <1>12, RangeWithout DEF RecvHeader, RemoveCall
  <2>3. \A c \in Range(pending) : pc[c] \notin {"idle", "register", "strobe"}
    BY DEF PendingInv, Range
  <2> QED
    BY <1>12, <2>1, <2>2, <2>3, RangeCalls DEF TypeOK, LockInv, PendingInv,
      ReceiverInv, Once, SignalledAtMostOnce, RecvHeader, SignalLater
<1>13. CASE RecvFails
  BY <1>13 DEF TypeOK, LockInv, PendingInv, ReceiverInv, Once,
    SignalledAtMostOnce, Range, RecvFails
<1>14. CASE Deliver
  BY <1>14 DEF TypeOK, LockInv, PendingInv, ReceiverInv, Once,
    SignalledAtMostOnce, Range, Deliver, Strobe
<1>15. CASE Terminate
  BY <1>15 DEF TypeOK, LockInv, PendingInv, ReceiverInv, Once,
    SignalledAtMostOnce, Range, Terminate, Range
<1>16. CASE NotifyPick
  BY <1>16 DEF TypeOK, LockInv, PendingInv, ReceiverInv, Once,
    SignalledAtMostOnce, Range, NotifyPick
<1>17. CASE NotifyStrobe
  BY <1>17 DEF TypeOK, LockInv, PendingInv, ReceiverInv, Once,
    SignalledAtMostOnce, Range, NotifyStrobe, Strobe
<1>18. CASE RecvExit
  BY <1>18 DEF TypeOK, LockInv, PendingInv, ReceiverInv, Once,
    SignalledAtMostOnce, Range, RecvExit
<1>19. CASE Close \/ PeerCloses \/ UNCHANGED vars
  BY <1>19 DEF TypeOK, LockInv, PendingInv, ReceiverInv, Once,
    SignalledAtMostOnce, Range, Close, PeerCloses
<1> QED
  BY <1>1, <1>2, <1>3, <1>4, <1>5, <1>6, <1>7, <1>8, <1>9, <1>10, <1>11,
    <1>12, <1>13, <1>14, <1>15, <1>16, <1>17, <1>18, <1>19
  DEF Next, Caller, Send, Receive

\* Answers reach the call whose number they carry.
LEMMA AnswerStep ==
  IInv /\ [Next]_vars => AnswerInv'
<1> SUFFICES ASSUME IInv, [Next]_vars PROVE AnswerInv'
  OBVIOUS
<1>1. ASSUME NEW c \in Calls, Lock(c)
      PROVE  AnswerInv'
  BY <1>1 DEF IInv, TypeOK, LockInv, PendingInv, ReceiverInv, Once,
    SignalledAtMostOnce, AnswerInv, ReplyToOwnRequest, CallErrors, Answer,
    Range, Lock
<1>2. ASSUME NEW c \in Calls, RegisterCall(c)
      PROVE  AnswerInv'
  BY <1>2 DEF IInv, TypeOK, LockInv, PendingInv, ReceiverInv, Once,
    SignalledAtMostOnce, AnswerInv, ReplyToOwnRequest, CallErrors, Answer,
    Range, RegisterCall, Registered, NextSeq, RegisterGuard, IsAvailable
<1>3. ASSUME NEW c \in Calls, RegisterRefused(c)
      PROVE  AnswerInv'
  BY <1>3 DEF IInv, TypeOK, LockInv, PendingInv, ReceiverInv, Once,
    SignalledAtMostOnce, AnswerInv, ReplyToOwnRequest, CallErrors, Answer,
    Range, RegisterRefused, RegisterGuard, IsAvailable
<1>4. ASSUME NEW c \in Calls, Write(c)
      PROVE  AnswerInv'
  BY <1>4 DEF IInv, TypeOK, LockInv, PendingInv, ReceiverInv, Once,
    SignalledAtMostOnce, AnswerInv, ReplyToOwnRequest, CallErrors, Answer,
    Range, Write
<1>5. ASSUME NEW c \in Calls, WriteFails(c)
      PROVE  AnswerInv'
  BY <1>5 DEF IInv, TypeOK, LockInv, PendingInv, ReceiverInv, Once,
    SignalledAtMostOnce, AnswerInv, ReplyToOwnRequest, CallErrors, Answer,
    Range, WriteFails
<1>6. ASSUME NEW c \in Calls, Undo(c)
      PROVE  AnswerInv'
  BY <1>6 DEF IInv, TypeOK, LockInv, PendingInv, ReceiverInv, Once,
    SignalledAtMostOnce, AnswerInv, ReplyToOwnRequest, CallErrors, Answer,
    Range, Undo, RemoveCall, Without, Restrict, Lookup
<1>7. ASSUME NEW c \in Calls, StrobeOwn(c)
      PROVE  AnswerInv'
  BY <1>7 DEF IInv, TypeOK, LockInv, PendingInv, ReceiverInv, Once,
    SignalledAtMostOnce, AnswerInv, ReplyToOwnRequest, CallErrors, Answer,
    Range, StrobeOwn, Strobe
<1>8. ASSUME NEW c \in Calls, TakeDone(c)
      PROVE  AnswerInv'
  BY <1>8 DEF IInv, TypeOK, LockInv, PendingInv, ReceiverInv, Once,
    SignalledAtMostOnce, AnswerInv, ReplyToOwnRequest, CallErrors, Answer,
    Range, TakeDone
<1>9. ASSUME NEW c \in Calls, CtxDone(c)
      PROVE  AnswerInv'
  BY <1>9 DEF IInv, TypeOK, LockInv, PendingInv, ReceiverInv, Once,
    SignalledAtMostOnce, AnswerInv, ReplyToOwnRequest, CallErrors, Answer,
    Range, CtxDone
<1>10. ASSUME NEW c \in Calls, Cancel(c)
      PROVE  AnswerInv'
  BY <1>10 DEF IInv, TypeOK, LockInv, PendingInv, ReceiverInv, Once,
    SignalledAtMostOnce, AnswerInv, ReplyToOwnRequest, CallErrors, Answer,
    Range, Cancel, RemoveCall, Without, Restrict
<1>11. ASSUME NEW ok \in BOOLEAN, ReadBody(ok) PROVE AnswerInv'
  BY <1>11 DEF IInv, TypeOK, LockInv, PendingInv, ReceiverInv, Once,
    SignalledAtMostOnce, AnswerInv, ReplyToOwnRequest, CallErrors, Answer,
    Range, ReadBody
<1>12. CASE RecvHeader
  BY <1>12 DEF IInv, TypeOK, LockInv, PendingInv, ReceiverInv, Once,
    SignalledAtMostOnce, AnswerInv, ReplyToOwnRequest, CallErrors, Answer,
    Range, RecvHeader, RemoveCall, Without, Restrict, Lookup, SignalLater
<1>13. CASE RecvFails
  BY <1>13 DEF IInv, TypeOK, LockInv, PendingInv, ReceiverInv, Once,
    SignalledAtMostOnce, AnswerInv, ReplyToOwnRequest, CallErrors, Answer,
    Range, RecvFails
<1>14. CASE Deliver
  BY <1>14 DEF IInv, TypeOK, LockInv, PendingInv, ReceiverInv, Once,
    SignalledAtMostOnce, AnswerInv, ReplyToOwnRequest, CallErrors, Answer,
    Range, Deliver, Strobe
<1>15. CASE Terminate
  BY <1>15 DEF IInv, TypeOK, LockInv, PendingInv, ReceiverInv, Once,
    SignalledAtMostOnce, AnswerInv, ReplyToOwnRequest, CallErrors, Answer,
    Range, Terminate, Range
<1>16. CASE NotifyPick
  BY <1>16 DEF IInv, TypeOK, LockInv, PendingInv, ReceiverInv, Once,
    SignalledAtMostOnce, AnswerInv, ReplyToOwnRequest, CallErrors, Answer,
    Range, NotifyPick
<1>17. CASE NotifyStrobe
  BY <1>17 DEF IInv, TypeOK, LockInv, PendingInv, ReceiverInv, Once,
    SignalledAtMostOnce, AnswerInv, ReplyToOwnRequest, CallErrors, Answer,
    Range, NotifyStrobe, Strobe
<1>18. CASE RecvExit
  BY <1>18 DEF IInv, TypeOK, LockInv, PendingInv, ReceiverInv, Once,
    SignalledAtMostOnce, AnswerInv, ReplyToOwnRequest, CallErrors, Answer,
    Range, RecvExit
<1>19. CASE Close \/ PeerCloses \/ UNCHANGED vars
  BY <1>19 DEF IInv, TypeOK, LockInv, PendingInv, ReceiverInv, Once,
    SignalledAtMostOnce, AnswerInv, ReplyToOwnRequest, CallErrors, Answer,
    Range, Close, PeerCloses
<1> QED
  BY <1>1, <1>2, <1>3, <1>4, <1>5, <1>6, <1>7, <1>8, <1>9, <1>10, <1>11,
    <1>12, <1>13, <1>14, <1>15, <1>16, <1>17, <1>18, <1>19
  DEF Next, Caller, Send, Receive

------------------------------------------------------------------------------
\* The invariants hold at the start.
LEMMA IInvInit == Init => IInv
<1> SUFFICES ASSUME Init PROVE IInv
  OBVIOUS
<1>1. Range(pending) = {} /\ DOMAIN pending = {}
  BY DEF Init, Range
<1> QED
  BY <1>1, TypeInit DEF Init, IInv, LockInv, PendingInv, ReceiverInv, Once,
    SignalledAtMostOnce, AnswerInv, ReplyToOwnRequest, CallErrors

\* And every step keeps them.
LEMMA IInvStep == IInv /\ [Next]_vars => IInv'
  BY TypeStep, LockStep, PendingStep, ReceiverStep, OnceStep, AnswerStep
  DEF IInv

\* IInv is an invariant of the client.
THEOREM Invariance == Spec => []IInv
  BY IInvInit, IInvStep, PTL DEF Spec

\* Every variable of the client keeps its type (client.go:41-51).
THEOREM TypeCorrect == Spec => []TypeOK
<1>1. IInv => TypeOK
  BY DEF IInv
<1> QED
  BY Invariance, <1>1, PTL

\* However many calls there are and however small the shared Done channel
\* is, no call is put into its Done channel twice (client.go:36).
THEOREM SignalledOnce == Spec => []SignalledAtMostOnce
<1>1. IInv => SignalledAtMostOnce
  BY DEF IInv, Once
<1> QED
  BY Invariance, <1>1, PTL

\* A call that ends without an error got the answer to its own request,
\* whatever was cancelled, lost or reordered (client.go:119-135).
THEOREM OwnReply == Spec => []ReplyToOwnRequest
<1>1. IInv => ReplyToOwnRequest
  BY DEF IInv, AnswerInv
<1> QED
  BY Invariance, <1>1, PTL

\* The receive goroutine writes Call.Reply only before the call is signalled
\* (client.go:131-135), so a returned outcome does not change.
THEOREM SettledReply == Spec => SettledReplyStable
<1>1. IInv /\ [Next]_vars =>
        \A c \in Calls : result[c] \in CallErrors => reply'[c] = reply[c]
  <2> SUFFICES ASSUME IInv, [Next]_vars, NEW c \in Calls,
                      result[c] \in CallErrors
               PROVE  reply'[c] = reply[c]
    OBVIOUS
  <2>1. strobes[c] = 1
    BY DEF IInv, AnswerInv
  <2>2. ASSUME NEW ok \in BOOLEAN, ReadBody(ok) PROVE reply'[c] = reply[c]
    BY <2>1, <2>2 DEF ReadBody, IInv, Once, TypeOK
  <2>3. CASE reply' = reply
    BY <2>3
  <2> QED
    BY <2>2, <2>3 DEF Next, Caller, Send, Receive, Lock, RegisterCall,
      RegisterRefused, Write, WriteFails, Undo, StrobeOwn, TakeDone, CtxDone,
      Cancel, RecvHeader, RecvFails, Deliver, Terminate, NotifyPick,
      NotifyStrobe, RecvExit, Close, PeerCloses
<1> QED
  BY Invariance, <1>1, PTL DEF SettledReplyStable, Spec

------------------------------------------------------------------------------
(* No call is stranded.                                                    *)

\* A call that registerCall has given a number.
Numbered(c) == pc[c] \notin {"idle", "register"} /\ callErr[c] # "shutdown"

\* Numbers are given once; a refused call keeps number 0 and is in nobody's
\* hands; only a call that has a context is cancelled.
RefusalInv ==
  /\ \A c \in Calls : Numbered(c) => callSeq[c] < seq
  /\ \A c, d \in Calls :
       Numbered(c) /\ Numbered(d) /\ callSeq[c] = callSeq[d] => c = d
  /\ \A c \in Calls : pc[c] \in {"idle", "register"} => callSeq[c] = 0
  /\ \A c \in Calls : callErr[c] = "shutdown" =>
       /\ callSeq[c] = 0 /\ c \notin Range(pending) /\ c # cur
       /\ pc[c] \notin {"idle", "register", "write", "undo"}
  /\ \A c \in Calls : result[c] = "ctx" => pc[c] = "returned"
  /\ \A c \in Calls : pc[c] = "cancel" => c \in CtxCalls

\* Every call that was numbered and is not signalled is still in somebody's
\* hands, or was lost.
TrackInv ==
  \A c \in Calls :
    pc[c] \in {"write", "undo", "sent"} /\ strobes[c] = 0 =>
      Tracked(c) \/ LostToRefusedCall(c)

Base == TypeOK /\ LockInv /\ PendingInv /\ ReceiverInv

\* The entries of pending are told apart by their numbers.
LEMMA RangeFacts ==
  ASSUME Base
  PROVE  \A c \in Range(pending) :
           /\ c \in Calls /\ callSeq[c] \in DOMAIN pending
           /\ pending[callSeq[c]] = c
           /\ pc[c] \notin {"idle", "register", "strobe"}
  BY DEF Base, TypeOK, PendingInv, Range

\* removeCall takes out the call with the number, and no other.
LEMMA RangeKept ==
  ASSUME Base, NEW n
  PROVE  \A c \in Range(pending) : c \in Range(Without(n)) \/ callSeq[c] = n
<1> SUFFICES ASSUME NEW c \in Range(pending), callSeq[c] # n
             PROVE  c \in Range(Without(n))
  OBVIOUS
<1>1. callSeq[c] \in DOMAIN pending \ {n} /\ pending[callSeq[c]] = c
  BY RangeFacts
<1> QED
  BY <1>1 DEF Without, Restrict, Range

\* registerCall adds its call and keeps the others.
LEMMA RangeAdded ==
  ASSUME Base, NEW c \in Calls
  PROVE  Range(Registered(c)) = Range(pending) \cup {c}
<1>1. seq \notin DOMAIN pending
  BY DEF Base, TypeOK
<1> QED
  BY <1>1 DEF Registered, Range

\* Numbers stay apart, and a refusal is final.
LEMMA RefusalStep ==
  Base /\ RefusalInv /\ [Next]_vars => RefusalInv'
<1> SUFFICES ASSUME Base, RefusalInv, [Next]_vars PROVE RefusalInv'
  OBVIOUS
<1>1. ASSUME NEW c \in Calls, Lock(c)
      PROVE  RefusalInv'
  BY <1>1, RangeFacts DEF Base, TypeOK, LockInv, PendingInv, ReceiverInv,
    RefusalInv, Numbered, Lock
<1>2. ASSUME NEW c \in Calls, RegisterCall(c)
      PROVE  RefusalInv'
  <2>1. Range(pending') = Range(pending) \cup {c}
    BY <1>2, RangeAdded DEF RegisterCall
  <2> QED
    BY <1>2, <2>1, RangeFacts DEF Base, TypeOK, LockInv, PendingInv,
      ReceiverInv, RefusalInv, Numbered, RegisterCall, NextSeq,
      RegisterGuard, IsAvailable
<1>3. ASSUME NEW c \in Calls, RegisterRefused(c)
      PROVE  RefusalInv'
  BY <1>3, RangeFacts DEF Base, TypeOK, LockInv, PendingInv, ReceiverInv,
    RefusalInv, Numbered, RegisterRefused, RegisterGuard, IsAvailable
<1>4. ASSUME NEW c \in Calls, Write(c)
      PROVE  RefusalInv'
  BY <1>4, RangeFacts DEF Base, TypeOK, LockInv, PendingInv, ReceiverInv,
    RefusalInv, Numbered, Write
<1>5. ASSUME NEW c \in Calls, WriteFails(c)
      PROVE  RefusalInv'
  BY <1>5, RangeFacts DEF Base, TypeOK, LockInv, PendingInv, ReceiverInv,
    RefusalInv, Numbered, WriteFails
<1>6. ASSUME NEW c \in Calls, Undo(c)
      PROVE  RefusalInv'
  <2>1. Range(pending') \subseteq Range(pending)
    BY <1>6, RangeWithout DEF Base, Undo, RemoveCall
  <2> QED
    BY <1>6, <2>1, RangeFacts DEF Base, TypeOK, LockInv, PendingInv,
      ReceiverInv, RefusalInv, Numbered, Undo
<1>7. ASSUME NEW c \in Calls, StrobeOwn(c)
      PROVE  RefusalInv'
  BY <1>7, RangeFacts DEF Base, TypeOK, LockInv, PendingInv, ReceiverInv,
    RefusalInv, Numbered, StrobeOwn, Strobe
<1>8. ASSUME NEW c \in Calls, TakeDone(c)
      PROVE  RefusalInv'
  BY <1>8, RangeFacts DEF Base, TypeOK, LockInv, PendingInv, ReceiverInv,
    RefusalInv, Numbered, TakeDone
<1>9. ASSUME NEW c \in Calls, CtxDone(c)
      PROVE  RefusalInv'
  BY <1>9, RangeFacts DEF Base, TypeOK, LockInv, PendingInv, ReceiverInv,
    RefusalInv, Numbered, CtxDone
<1>10. ASSUME NEW c \in Calls, Cancel(c)
      PROVE  RefusalInv'
  <2>1. Range(pending') \subseteq Range(pending)
    BY <1>10, RangeWithout DEF Base, Cancel, RemoveCall
  <2> QED
    BY <1>10, <2>1, RangeFacts DEF Base, TypeOK, LockInv, PendingInv,
      ReceiverInv, RefusalInv, Numbered, Cancel
<1>11. ASSUME NEW ok \in BOOLEAN, ReadBody(ok) PROVE RefusalInv'
  BY <1>11, RangeFacts DEF Base, TypeOK, LockInv, PendingInv, ReceiverInv,
    RefusalInv, Numbered, ReadBody
<1>12. CASE RecvHeader
  <2>1. Range(pending') \subseteq Range(pending)
    BY <1>12, RangeWithout DEF Base, RecvHeader, RemoveCall
  <2>2. cur' # Nobody => cur' \in Range(pending)
    BY <1>12, RangeWithout DEF Base, RecvHeader
  <2> QED
    BY <1>12, <2>1, <2>2, RangeFacts DEF Base, TypeOK, LockInv, PendingInv,
      ReceiverInv, RefusalInv, Numbered, RecvHeader, SignalLater
<1>13. CASE RecvFails
  BY <1>13, RangeFacts DEF Base, TypeOK, LockInv, PendingInv, ReceiverInv,
    RefusalInv, Numbered, RecvFails
<1>14. CASE Deliver
  BY <1>14, RangeFacts DEF Base, TypeOK, LockInv, PendingInv, ReceiverInv,
    RefusalInv, Numbered, Deliver, Strobe
<1>15. CASE Terminate
  BY <1>15, RangeFacts DEF Base, TypeOK, LockInv, PendingInv, ReceiverInv,
    RefusalInv, Numbered, Terminate
<1>16. CASE NotifyPick
  BY <1>16, RangeFacts DEF Base, TypeOK, LockInv, PendingInv, ReceiverInv,
    RefusalInv, Numbered, NotifyPick
<1>17. CASE NotifyStrobe
  BY <1>17, RangeFacts DEF Base, TypeOK, LockInv, PendingInv, ReceiverInv,
    RefusalInv, Numbered, NotifyStrobe, Strobe
<1>18. CASE RecvExit
  BY <1>18, RangeFacts DEF Base, TypeOK, LockInv, PendingInv, ReceiverInv,
    RefusalInv, Numbered, RecvExit
<1>19. CASE Close \/ PeerCloses \/ UNCHANGED vars
  BY <1>19, RangeFacts DEF Base, TypeOK, LockInv, PendingInv, ReceiverInv,
    RefusalInv, Numbered, Close, PeerCloses
<1> QED
  BY <1>1, <1>2, <1>3, <1>4, <1>5, <1>6, <1>7, <1>8, <1>9, <1>10, <1>11,
    <1>12, <1>13, <1>14, <1>15, <1>16, <1>17, <1>18, <1>19
  DEF Next, Caller,
    Send, Receive

\* A call goes from hand to hand, or is lost.
LEMMA TrackStep ==
  Base /\ RefusalInv /\ TrackInv /\ [Next]_vars => TrackInv'
<1> SUFFICES ASSUME Base, RefusalInv, TrackInv, [Next]_vars PROVE TrackInv'
  OBVIOUS
<1>1. ASSUME NEW c \in Calls, Lock(c)
      PROVE  TrackInv'
  BY <1>1, RangeFacts DEF Base, TypeOK, LockInv, PendingInv, ReceiverInv,
    RefusalInv, TrackInv, Tracked, LostToRefusedCall, Lock
<1>2. ASSUME NEW c \in Calls, RegisterCall(c)
      PROVE  TrackInv'
  <2>1. Range(pending') = Range(pending) \cup {c}
    BY <1>2, RangeAdded DEF RegisterCall
  <2> QED
    BY <1>2, <2>1, RangeFacts DEF Base, TypeOK, LockInv, PendingInv,
      ReceiverInv, RefusalInv, TrackInv, Tracked, LostToRefusedCall,
      RegisterCall, RegisterGuard, IsAvailable
<1>3. ASSUME NEW c \in Calls, RegisterRefused(c)
      PROVE  TrackInv'
  BY <1>3, RangeFacts DEF Base, TypeOK, LockInv, PendingInv, ReceiverInv,
    RefusalInv, TrackInv, Tracked, LostToRefusedCall, RegisterRefused,
    RegisterGuard, IsAvailable
<1>4. ASSUME NEW c \in Calls, Write(c)
      PROVE  TrackInv'
  BY <1>4, RangeFacts DEF Base, TypeOK, LockInv, PendingInv, ReceiverInv,
    RefusalInv, TrackInv, Tracked, LostToRefusedCall, Write
<1>5. ASSUME NEW c \in Calls, WriteFails(c)
      PROVE  TrackInv'
  BY <1>5, RangeFacts DEF Base, TypeOK, LockInv, PendingInv, ReceiverInv,
    RefusalInv, TrackInv, Tracked, LostToRefusedCall, WriteFails
<1>6. ASSUME NEW c \in Calls, Undo(c)
      PROVE  TrackInv'
  <2>1. \A d \in Calls : d \in Range(pending) =>
          d \in Range(pending') \/ callSeq[d] = callSeq[c]
    BY <1>6, RangeKept DEF Undo, RemoveCall
  <2>2. \A d \in Range(pending) :
          callSeq[d] = callSeq[c] => d = c /\ Lookup(callSeq[c]) = c
    BY <1>6, RangeFacts DEF Base, PendingInv, Undo, Lookup
  <2>3. \A d \in Calls : LostToRefusedCall(d) => LostToRefusedCall(d)'
    BY <1>6 DEF Base, TypeOK, RefusalInv, LostToRefusedCall, Undo, Calls
  <2>4. ASSUME NEW d \in Calls, pc'[d] \in {"write", "undo", "sent"}, strobes'[d] = 0
        PROVE  Tracked(d)' \/ LostToRefusedCall(d)'
    <3>1. /\ pc[d] \in {"write", "undo", "sent"} /\ strobes[d] = 0
          /\ UNCHANGED <<rpc, cur, todo>>
          /\ d = c => Lookup(callSeq[c]) = Nobody
      BY <1>6, <2>4 DEF Base, TypeOK, Undo
    <3>2. Tracked(d) \/ LostToRefusedCall(d)
      BY <3>1 DEF TrackInv
    <3>3. CASE Tracked(d)
      BY <2>1, <2>2, <3>1, <3>3, ClientAssumption DEF Tracked
    <3> QED
      BY <2>3, <3>2, <3>3
  <2> QED
    BY <2>4 DEF TrackInv
<1>7. ASSUME NEW c \in Calls, StrobeOwn(c)
      PROVE  TrackInv'
  BY <1>7, RangeFacts DEF Base, TypeOK, LockInv, PendingInv, ReceiverInv,
    RefusalInv, TrackInv, Tracked, LostToRefusedCall, StrobeOwn, Strobe
<1>8. ASSUME NEW c \in Calls, TakeDone(c)
      PROVE  TrackInv'
  BY <1>8, RangeFacts DEF Base, TypeOK, LockInv, PendingInv, ReceiverInv,
    RefusalInv, TrackInv, Tracked, LostToRefusedCall, TakeDone
<1>9. ASSUME NEW c \in Calls, CtxDone(c)
      PROVE  TrackInv'
  BY <1>9, RangeFacts DEF Base, TypeOK, LockInv, PendingInv, ReceiverInv,
    RefusalInv, TrackInv, Tracked, LostToRefusedCall, CtxDone
<1>10. ASSUME NEW c \in Calls, Cancel(c)
      PROVE  TrackInv'
  <2>1. \A d \in Calls : d \in Range(pending) =>
          d \in Range(pending') \/ callSeq[d] = callSeq[c]
    BY <1>10, RangeKept DEF Cancel, RemoveCall
  <2>2. \A d \in Range(pending) : Numbered(d)
    BY RangeFacts DEF RefusalInv, Numbered
  <2>3. \A d \in Range(pending) : d # c /\ callSeq[d] = callSeq[c] =>
          callSeq[c] = 0 /\ callErr[c] = "shutdown" /\ c \in CtxCalls
    BY <1>10, <2>2, RangeFacts DEF RefusalInv, Numbered, Cancel
  <2>4. \A d \in Calls : LostToRefusedCall(d) => LostToRefusedCall(d)'
    BY <1>10 DEF Base, TypeOK, RefusalInv, LostToRefusedCall, Cancel, Calls
  <2>5. ASSUME NEW d \in Calls, pc'[d] \in {"write", "undo", "sent"}, strobes'[d] = 0
        PROVE  Tracked(d)' \/ LostToRefusedCall(d)'
    <3>1. /\ pc[d] \in {"write", "undo", "sent"} /\ strobes[d] = 0
          /\ UNCHANGED <<rpc, cur, todo>> /\ d # c
      BY <1>10, <2>5 DEF Base, TypeOK, Cancel
    <3>2. Tracked(d) \/ LostToRefusedCall(d)
      BY <3>1 DEF TrackInv
    <3>3. CASE d \in Range(pending) /\ callSeq[d] = callSeq[c]
      <4>1. callSeq'[d] = 0 /\ callErr'[c] = "shutdown" /\ result'[c] = "ctx"
        BY <1>10, <2>3, <3>1, <3>3 DEF Base, TypeOK, Cancel
      <4> QED
        BY <2>3, <3>1, <3>3, <4>1 DEF LostToRefusedCall
    <3>4. CASE Tracked(d) /\ ~(d \in Range(pending) /\ callSeq[d] = callSeq[c])
      BY <2>1, <3>1, <3>4 DEF Tracked
    <3> QED
      BY <2>4, <3>2, <3>3, <3>4
  <2> QED
    BY <2>5 DEF TrackInv
<1>11. ASSUME NEW ok \in BOOLEAN, ReadBody(ok) PROVE TrackInv'
  <2>1. UNCHANGED <<pc, strobes, callSeq, result, cur, pending, todo>>
    BY <1>11 DEF ReadBody
  <2>2. rpc \notin {"exit", "notify"} /\ rpc' \notin {"exit", "notify"}
    BY <1>11 DEF ReadBody
  <2>3. \A d \in Calls : callErr[d] = "shutdown" => callErr'[d] = "shutdown"
    BY <1>11 DEF ReadBody, RefusalInv, Base, TypeOK
  <2>4. \A d \in Calls : Tracked(d) => Tracked(d)'
    BY <2>1, <2>2 DEF Tracked
  <2>5. \A d \in Calls : LostToRefusedCall(d) => LostToRefusedCall(d)'
    BY <2>1, <2>3 DEF LostToRefusedCall, Calls
  <2> QED
    BY <2>1, <2>4, <2>5 DEF TrackInv
<1>12. CASE RecvHeader
  <2>1. PICK w \in wire : cur' = Lookup(w.seq) /\ pending' = Without(w.seq)
    BY <1>12 DEF RecvHeader, RemoveCall
  <2>2. \A d \in Calls : d \in Range(pending) =>
          d \in Range(pending') \/ callSeq[d] = w.seq
    BY <2>1, RangeKept
  <2>3. \A d \in Range(pending) : callSeq[d] = w.seq => cur' = d
    BY <2>1, RangeFacts DEF Lookup
  <2>4. cur = Nobody
    BY <1>12 DEF Base, ReceiverInv, RecvHeader
  <2> QED
    BY <1>12, <2>2, <2>3, <2>4 DEF Base, TypeOK, TrackInv, Tracked,
      LostToRefusedCall, RecvHeader, SignalLater
<1>13. CASE RecvFails
  BY <1>13, RangeFacts DEF Base, TypeOK, LockInv, PendingInv, ReceiverInv,
    RefusalInv, TrackInv, Tracked, LostToRefusedCall, RecvFails
<1>14. CASE Deliver
  BY <1>14, RangeFacts DEF Base, TypeOK, LockInv, PendingInv, ReceiverInv,
    RefusalInv, TrackInv, Tracked, LostToRefusedCall, Deliver, Strobe
<1>15. CASE Terminate
  BY <1>15, RangeFacts DEF Base, TypeOK, LockInv, PendingInv, ReceiverInv,
    RefusalInv, TrackInv, Tracked, LostToRefusedCall, Terminate
<1>16. CASE NotifyPick
  BY <1>16, RangeFacts DEF Base, TypeOK, LockInv, PendingInv, ReceiverInv,
    RefusalInv, TrackInv, Tracked, LostToRefusedCall, NotifyPick
<1>17. CASE NotifyStrobe
  BY <1>17, RangeFacts DEF Base, TypeOK, LockInv, PendingInv, ReceiverInv,
    RefusalInv, TrackInv, Tracked, LostToRefusedCall, NotifyStrobe, Strobe
<1>18. CASE RecvExit
  BY <1>18, RangeFacts DEF Base, TypeOK, LockInv, PendingInv, ReceiverInv,
    RefusalInv, TrackInv, Tracked, LostToRefusedCall, RecvExit
<1>19. CASE Close \/ PeerCloses \/ UNCHANGED vars
  BY <1>19, RangeFacts DEF Base, TypeOK, LockInv, PendingInv, ReceiverInv,
    RefusalInv, TrackInv, Tracked, LostToRefusedCall, Close, PeerCloses
<1> QED
  BY <1>1, <1>2, <1>3, <1>4, <1>5, <1>6, <1>7, <1>8, <1>9, <1>10, <1>11,
    <1>12, <1>13, <1>14, <1>15, <1>16, <1>17, <1>18, <1>19
  DEF Next, Caller,
    Send, Receive

\* A call that was sent and not signalled is never stranded, but for the loss
\* to a refused call (client.go:302-306, 119-135, 97-106, 261).
THEOREM NobodyStranded == Spec => []NoStrandedCall
<1>1. Init => RefusalInv /\ TrackInv
  <2>1. Init => Range(pending) = {}
    BY DEF Init, Range
  <2> QED
    BY <2>1 DEF Init, RefusalInv, Numbered, TrackInv
<1>2. IInv => Base
  BY DEF IInv, Base
<1>3. Base /\ RefusalInv /\ TrackInv /\ [Next]_vars => RefusalInv' /\ TrackInv'
  BY RefusalStep, TrackStep
<1>4. TrackInv => NoStrandedCall
  BY DEF TrackInv, NoStrandedCall
<1> QED
  BY Invariance, <1>1, <1>2, <1>3, <1>4, PTL DEF Spec

------------------------------------------------------------------------------
(* The locks of a client come free.                                        *)

\* Write has run, and send did not take the call back.
Written(c) == pc[c] \in {"undo", "sent", "cancel", "returned"}

\* A call is answered only once Write has run, and the outcome of a call of
\* Client.Go lies in its channel only while its user still waits for it, or
\* its sender is about to find that receive took the call.
SentInv ==
  /\ \A w \in wire : Written(w.call) \/ pc[w.call] = "strobe"
  /\ rpc \in {"body", "deliver"} /\ cur # Nobody => Written(cur)
  /\ \A c \in Calls : pc[c] = "write" => strobes[c] = 0
  /\ \A c \in Calls : pc[c] = "cancel" => c \in CtxCalls
  /\ \A c \in Calls : pc[c] = "returned" => c \in CtxCalls \/ result[c] \in CallErrors
  /\ \A c \in AsyncCalls : c \in inbox => pc[c] \in {"undo", "sent"}

\* The call that receive or send is about to signal was not signalled.
LEMMA Unsignalled ==
  ASSUME IInv, NEW c \in Calls,
         pc[c] = "strobe" \/ (cur = c /\ rpc \in {"deliver", "notify"})
  PROVE  strobes[c] = 0 /\ c \notin inbox
<1>1. c # Nobody BY DEF Calls
<1>2. strobes[c] = 0 BY <1>1 DEF IInv, Once, ReceiverInv
<1>3. QED BY <1>2 DEF IInv, AnswerInv

\* Where a call is that the receive goroutine signals.
LEMMA Signalled ==
  ASSUME IInv, SentInv, cur # Nobody, rpc \in {"deliver", "notify"}
  PROVE  /\ cur \in Calls /\ strobes[cur] = 0
         /\ Written(cur)
         /\ cur \in AsyncCalls => pc[cur] \in {"undo", "sent"}
<1>1. cur \in Calls /\ strobes[cur] = 0
  BY Unsignalled DEF IInv, TypeOK
<1>2. Written(cur)
  <2>1. CASE rpc = "deliver" BY <2>1 DEF SentInv
  <2>2. CASE rpc = "notify"
    <3>1. cur \in Range(pending) BY <2>2 DEF IInv, ReceiverInv
    <3>2. pc[cur] \notin {"idle", "register", "strobe"}
      BY <3>1 DEF IInv, PendingInv, Range
    <3>3. pc[cur] \notin {"write", "undo"} BY <1>1, <2>2 DEF IInv, ReceiverInv
    <3>4. QED BY <1>1, <3>2, <3>3 DEF IInv, TypeOK, Written
  <2>3. QED BY <2>1, <2>2
<1>3. cur \in AsyncCalls => pc[cur] \in {"undo", "sent"}
  <2>1. result[cur] \in CallErrors => strobes[cur] = 1
    BY <1>1 DEF IInv, AnswerInv
  <2>2. cur \in AsyncCalls => cur \notin CtxCalls OBVIOUS
  <2>3. QED BY <1>1, <1>2, <2>1, <2>2 DEF SentInv, Written
<1>4. QED BY <1>1, <1>2, <1>3

\* What removeCall gives back to a send whose Write failed was not signalled,
\* and receive does not have it.
LEMMA TakenBack ==
  ASSUME IInv, NEW c \in Calls, pc[c] = "undo", ~TakenElsewhere(c)
  PROVE  Lookup(callSeq[c]) = c /\ strobes[c] = 0 /\ cur # c
<1>1. Lookup(callSeq[c]) = c BY DEF IInv, PendingInv, Lookup
<1>2. c # Nobody BY DEF Calls
<1>3. c \in Range(pending) BY <1>1, <1>2 DEF Lookup, Range
<1>4. rpc \notin {"notify", "exit"} BY DEF IInv, ReceiverInv
<1>5. strobes[c] = 0 BY <1>3, <1>4 DEF IInv, Once
<1>6. cur # c BY <1>2, <1>3, <1>4 DEF IInv, ReceiverInv, TypeOK
<1>7. QED BY <1>1, <1>5, <1>6

\* Answers, outcomes and calls stay in this order.
LEMMA SentStep ==
  IInv /\ SentInv /\ [Next]_vars => SentInv'
<1> SUFFICES ASSUME IInv, SentInv, [Next]_vars PROVE SentInv'
  OBVIOUS
<1>0. TypeOK /\ AsyncCalls \subseteq Calls BY DEF IInv, Calls
<1>1. ASSUME NEW c \in Calls, Lock(c)
      PROVE  SentInv'
  BY <1>0, <1>1 DEF TypeOK, Answer, SentInv, Written, Lock
<1>2. ASSUME NEW c \in Calls, RegisterCall(c)
      PROVE  SentInv'
  <2>1. strobes[c] = 0 BY <1>2 DEF IInv, Once, RegisterCall
  <2> QED BY <1>0, <1>2, <2>1 DEF TypeOK, Answer, SentInv, Written, RegisterCall
<1>3. ASSUME NEW c \in Calls, RegisterRefused(c)
      PROVE  SentInv'
  BY <1>0, <1>3 DEF TypeOK, Answer, SentInv, Written, RegisterRefused
<1>4. ASSUME NEW c \in Calls, Write(c)
      PROVE  SentInv'
  BY <1>0, <1>4 DEF TypeOK, Answer, SentInv, Written, Write
<1>5. ASSUME NEW c \in Calls, WriteFails(c)
      PROVE  SentInv'
  BY <1>0, <1>5 DEF TypeOK, Answer, SentInv, Written, WriteFails
<1>6. ASSUME NEW c \in Calls, Undo(c)
      PROVE  SentInv'
  <2>1. /\ pc[c] = "undo" /\ UNCHANGED <<wire, rpc, cur, strobes, result, inbox>>
        /\ pc' = [pc EXCEPT ![c] = IF TakenElsewhere(c) THEN "sent" ELSE "strobe"]
    BY <1>6 DEF Undo
  <2>2. ~TakenElsewhere(c) => c # cur /\ c \notin inbox
    <3>1. ~TakenElsewhere(c) => c # cur /\ strobes[c] = 0 BY <2>1, TakenBack
    <3>2. c \in inbox => strobes[c] = 1 BY DEF IInv, AnswerInv
    <3>3. QED BY <3>1, <3>2
  <2>3. \A d \in Calls : pc'[d] = IF d = c THEN IF TakenElsewhere(c) THEN "sent" ELSE "strobe"
                                  ELSE pc[d]
    BY <1>0, <2>1 DEF TypeOK
  <2>4. \A w \in wire : w.call \in Calls BY <1>0 DEF TypeOK, Answer
  <2> HIDE DEF TakenElsewhere
  <2>5. (rpc \in {"body", "deliver"} /\ cur # Nobody => Written(cur))'
    BY <1>0, <2>1, <2>2, <2>3 DEF SentInv, Written, TypeOK
  <2>6. (\A w \in wire : Written(w.call) \/ pc[w.call] = "strobe")'
    BY <2>1, <2>3, <2>4 DEF SentInv, Written
  <2> QED BY <1>0, <2>1, <2>2, <2>3, <2>5, <2>6 DEF SentInv
<1>7. ASSUME NEW c \in Calls, StrobeOwn(c)
      PROVE  SentInv'
  BY <1>0, <1>7 DEF TypeOK, Answer, SentInv, Written, StrobeOwn, Strobe
<1>8. ASSUME NEW c \in Calls, TakeDone(c)
      PROVE  SentInv'
  BY <1>0, <1>8 DEF TypeOK, Answer, SentInv, Written, TakeDone
<1>9. ASSUME NEW c \in Calls, CtxDone(c)
      PROVE  SentInv'
  BY <1>0, <1>9 DEF TypeOK, Answer, SentInv, Written, CtxDone
<1>10. ASSUME NEW c \in Calls, Cancel(c)
      PROVE  SentInv'
  BY <1>0, <1>10 DEF TypeOK, Answer, SentInv, Written, Cancel
<1>11. ASSUME NEW ok \in BOOLEAN, ReadBody(ok) PROVE SentInv'
  BY <1>0, <1>11 DEF TypeOK, Answer, SentInv, Written, ReadBody
<1>12. CASE RecvHeader
  <2>1. PICK w \in wire : cur' = Lookup(w.seq) /\ wire' = wire \ {w}
    BY <1>12 DEF RecvHeader
  <2>2. cur' # Nobody => cur' = w.call /\ pc[w.call] # "strobe"
    BY <2>1 DEF Lookup, IInv, AnswerInv, PendingInv
  <2>3. UNCHANGED <<pc, strobes, result, inbox>>
    BY <1>12 DEF RecvHeader, SignalLater
  <2> QED BY <2>1, <2>2, <2>3 DEF SentInv, Written
<1>13. CASE RecvFails
  BY <1>0, <1>13 DEF TypeOK, Answer, SentInv, Written, RecvFails
<1>14. CASE Deliver \/ NotifyStrobe
  <2>1. /\ cur # Nobody /\ rpc \in {"deliver", "notify"}
        /\ inbox' = inbox \cup {cur} /\ strobes' = [strobes EXCEPT ![cur] = @ + 1]
        /\ cur' = Nobody /\ UNCHANGED <<pc, result, wire>>
    BY <1>14 DEF Deliver, NotifyStrobe, Strobe, IInv, ReceiverInv
  <2>2. /\ cur \in Calls /\ Written(cur)
        /\ cur \in AsyncCalls => pc[cur] \in {"undo", "sent"}
    BY <2>1, Signalled
  <2> QED BY <1>0, <2>1, <2>2 DEF TypeOK, SentInv, Written
<1>15. CASE Terminate \/ RecvExit \/ NotifyPick
  BY <1>0, <1>15 DEF TypeOK, Answer, SentInv, Written, Terminate, RecvExit, NotifyPick
<1>16. CASE Close \/ PeerCloses \/ UNCHANGED vars
  BY <1>0, <1>16 DEF TypeOK, Answer, SentInv, Written, Close, PeerCloses
<1> QED
  BY <1>1, <1>2, <1>3, <1>4, <1>5, <1>6, <1>7, <1>8, <1>9, <1>10, <1>11,
    <1>12, <1>13, <1>14, <1>15, <1>16
  DEF Next, Caller, Send, Receive

\* Whoever waits for a call to be signalled, with Client.sending or both
\* locks in hand, waits for nothing but room in the channel of Client.Go, and
\* then for a user who has an outcome to take there, or will have it as soon as
\* a send whose Write failed finds that its call was taken; and nobody who
\* holds Client.sending waits for Client.mu.
LocksFree ==
  /\ sending \in Calls => MuFree
  /\ \A c \in Calls :
       pc[c] = "strobe" \/ (cur = c /\ rpc \in {"deliver", "notify"}) =>
         ~Full(c) \/ \E d \in inbox \cap AsyncCalls :
                      \/ pc[d] = "sent"
                      \/ pc[d] = "undo" /\ sending = d /\ TakenElsewhere(d)

\* The same, when the channel of Client.Go has room for every call.
NeverFull ==
  \A c \in Calls :
    pc[c] = "strobe" \/ (cur = c /\ rpc \in {"deliver", "notify"}) => ~Full(c)

LEMMA SentInvariance == Spec => [](IInv /\ SentInv)
<1>1. Init => SentInv
  BY DEF Init, SentInv, Calls, Range
<1>2. QED BY IInvInit, IInvStep, <1>1, SentStep, PTL DEF Spec

\* client.go:35-38, 95-107, 117-135, 285-310: the locks of a client come free:
\* terminateCalls takes mu after sending, as send does, and a send on a Done
\* channel blocks only on one that its user has still to drain.
THEOREM LocksComeFree == Spec => []LocksFree
<1>1. IInv /\ SentInv => LocksFree
  <2> SUFFICES ASSUME IInv, SentInv PROVE LocksFree OBVIOUS
  <2>1. sending \in Calls => MuFree BY DEF IInv, LockInv
  <2>2. ASSUME NEW c \in Calls, Full(c),
               pc[c] = "strobe" \/ (cur = c /\ rpc \in {"deliver", "notify"})
        PROVE  \E d \in inbox \cap AsyncCalls :
                 \/ pc[d] = "sent"
                 \/ pc[d] = "undo" /\ sending = d /\ TakenElsewhere(d)
    <3>1. c \notin inbox BY <2>2, Unsignalled
    <3>2. Cardinality(inbox \cap AsyncCalls) >= DoneCap BY <2>2, <3>1 DEF Full
    <3>3. inbox \cap AsyncCalls # {}
      <4>1. inbox \cap AsyncCalls = {} => Cardinality(inbox \cap AsyncCalls) = 0
        BY FS_EmptySet, Zenon
      <4>2. DoneCap > 0 OBVIOUS
      <4>3. QED BY <3>2, <4>1, <4>2
    <3>4. PICK d \in inbox \cap AsyncCalls : pc[d] \in {"undo", "sent"}
      BY <3>3 DEF SentInv
    <3>5. d \in Calls /\ strobes[d] = 1 BY <3>4 DEF Calls, IInv, AnswerInv
    <3>6. pc[d] = "undo" => sending = d /\ TakenElsewhere(d)
      BY <3>5, TakenBack DEF IInv, LockInv
    <3>7. QED BY <3>4, <3>6
  <2>3. QED BY <2>1, <2>2 DEF LocksFree
<1>2. QED BY SentInvariance, <1>1, PTL

\* client.go:35-38, 267-272: a channel that has room for every call that uses
\* it is never full when one of them is signalled, so that nothing but a lock
\* ever holds up receive and send.
THEOREM RoomForAll ==
  ASSUME IsFiniteSet(AsyncCalls), Cardinality(AsyncCalls) <= DoneCap
  PROVE  Spec => []NeverFull
<1>1. IInv => NeverFull
  <2> SUFFICES ASSUME IInv, NEW c \in Calls, Full(c),
                      pc[c] = "strobe" \/ (cur = c /\ rpc \in {"deliver", "notify"})
               PROVE  FALSE
    BY DEF NeverFull
  <2>1. c \notin inbox BY Unsignalled
  <2>2. c \in AsyncCalls /\ Cardinality(inbox \cap AsyncCalls) >= DoneCap
    BY <2>1 DEF Full, Calls
  <2>3. inbox \cap AsyncCalls \subseteq AsyncCalls \ {c} BY <2>1
  <2>4. /\ IsFiniteSet(AsyncCalls \ {c})
        /\ Cardinality(AsyncCalls \ {c}) = Cardinality(AsyncCalls) - 1
    BY <2>2, FS_RemoveElement
  <2>5. /\ IsFiniteSet(inbox \cap AsyncCalls)
        /\ Cardinality(inbox \cap AsyncCalls) <= Cardinality(AsyncCalls \ {c})
    BY <2>3, <2>4, FS_Subset
  <2>6. Cardinality(AsyncCalls) \in Nat /\ Cardinality(inbox \cap AsyncCalls) \in Nat
    BY <2>5, FS_CardinalityType
  <2>7. QED BY <2>2, <2>4, <2>5, <2>6
<1>2. QED BY Invariance, <1>1, PTL

------------------------------------------------------------------------------
(* The receive goroutine runs out of steps on a closed connection.         *)

\* The steps it has left when it can read nothing but the answers that were
\* sent: three for each of them, and two for each call it has to notify.
ReceiverLeft ==
  CASE rpc = "exit"    -> 0
    [] rpc = "notify"  -> 2 * Cardinality(todo) + (IF cur = Nobody THEN 1 ELSE 0)
    [] rpc = "lock"    -> 2 * Cardinality(Calls) + 2
    [] rpc = "header"  -> 2 * Cardinality(Calls) + 3 * Cardinality(wire) + 3
    [] rpc = "deliver" -> 2 * Cardinality(Calls) + 3 * Cardinality(wire) + 4
    [] rpc = "body"    -> 2 * Cardinality(Calls) + 3 * Cardinality(wire) + 5

\* The connection stays closed, nobody gives the receive goroutine more to do
\* and each of its own steps takes from what it has left.
RunsOut ==
  conn = "closed" =>
    /\ conn' = "closed" /\ ReceiverLeft' \in Nat
    /\ ReceiverLeft' <= ReceiverLeft
    /\ Receive => ReceiverLeft' < ReceiverLeft

\* What is counted is finite.
LEMMA LeftCounts ==
  ASSUME TypeOK, IsFiniteSet(Calls), IsFiniteSet(wire)
  PROVE  /\ Cardinality(Calls) \in Nat /\ Cardinality(wire) \in Nat
         /\ Cardinality(todo) \in Nat /\ IsFiniteSet(todo)
         /\ Cardinality(todo) <= Cardinality(Calls)
         /\ ReceiverLeft \in Nat
<1>1. Cardinality(Calls) \in Nat /\ Cardinality(wire) \in Nat
  BY FS_CardinalityType
<1>2. IsFiniteSet(todo) /\ Cardinality(todo) <= Cardinality(Calls)
  BY FS_Subset DEF TypeOK
<1>3. Cardinality(todo) \in Nat BY <1>2, FS_CardinalityType
<1>4. rpc \in {"header", "body", "deliver", "lock", "notify", "exit"} BY DEF TypeOK
<1>5. ReceiverLeft \in Nat BY <1>1, <1>3, <1>4 DEF ReceiverLeft
<1>6. QED BY <1>1, <1>2, <1>3, <1>5

\* A step of the receive goroutine.
LEMMA ReceiverGoesOn ==
  ASSUME TypeOK, TypeOK', ReceiverInv, IsFiniteSet(Calls), IsFiniteSet(wire), Receive
  PROVE  /\ conn' = conn /\ IsFiniteSet(wire') /\ ReceiverLeft' < ReceiverLeft
<1>1. /\ Cardinality(Calls) \in Nat /\ Cardinality(wire) \in Nat
      /\ Cardinality(todo) \in Nat /\ IsFiniteSet(todo)
  BY LeftCounts
<1>2. CASE RecvHeader
  <2>1. PICK w \in wire : wire' = wire \ {w} BY <1>2 DEF RecvHeader
  <2>2. IsFiniteSet(wire') /\ Cardinality(wire') = Cardinality(wire) - 1
    BY <2>1, FS_RemoveElement
  <2>3. rpc = "header" /\ rpc' = "body" /\ conn' = conn BY <1>2 DEF RecvHeader
  <2>4. ReceiverLeft = 2 * Cardinality(Calls) + 3 * Cardinality(wire) + 3
    BY <2>3 DEF ReceiverLeft
  <2>5. ReceiverLeft' = 2 * Cardinality(Calls) + 3 * Cardinality(wire') + 5
    BY <2>3 DEF ReceiverLeft
  <2>6. QED BY <1>1, <2>2, <2>3, <2>4, <2>5
<1>3. CASE RecvFails
  <2>1. rpc = "header" /\ rpc' = "lock" /\ UNCHANGED <<wire, conn>>
    BY <1>3 DEF RecvFails
  <2>2. QED BY <1>1, <2>1 DEF ReceiverLeft
<1>4. ASSUME NEW ok \in BOOLEAN, ReadBody(ok)
      PROVE  /\ conn' = conn /\ IsFiniteSet(wire') /\ ReceiverLeft' < ReceiverLeft
  <2>1. rpc = "body" /\ rpc' \in {"header", "lock", "deliver"} /\ UNCHANGED <<wire, conn>>
    BY <1>4 DEF ReadBody
  <2>2. QED BY <1>1, <2>1 DEF ReceiverLeft
<1>5. CASE Deliver
  <2>1. rpc = "deliver" /\ rpc' \in {"header", "lock"} /\ UNCHANGED <<wire, conn>>
    BY <1>5 DEF Deliver
  <2>2. QED BY <1>1, <2>1 DEF ReceiverLeft
<1>6. CASE Terminate
  <2>1. rpc = "lock" /\ rpc' = "notify" /\ cur' = Nobody /\ UNCHANGED <<wire, conn>>
    BY <1>6 DEF Terminate
  <2>2. todo' \subseteq Calls BY DEF TypeOK
  <2>3. IsFiniteSet(todo') /\ Cardinality(todo') <= Cardinality(Calls)
    BY <2>2, FS_Subset
  <2>4. Cardinality(todo') \in Nat BY <2>3, FS_CardinalityType
  <2>5. ReceiverLeft = 2 * Cardinality(Calls) + 2 BY <2>1 DEF ReceiverLeft
  <2>6. ReceiverLeft' = 2 * Cardinality(todo') + 1 BY <2>1 DEF ReceiverLeft
  <2>7. QED BY <1>1, <2>1, <2>3, <2>4, <2>5, <2>6
<1>7. CASE NotifyPick
  <2>1. /\ rpc = "notify" /\ rpc' = "notify" /\ cur = Nobody /\ cur' # Nobody
        /\ UNCHANGED <<todo, wire, conn>>
    BY <1>7 DEF NotifyPick, TypeOK
  <2>2. ReceiverLeft = 2 * Cardinality(todo) + 1 BY <2>1 DEF ReceiverLeft
  <2>3. ReceiverLeft' = 2 * Cardinality(todo) BY <1>1, <2>1 DEF ReceiverLeft
  <2>4. QED BY <1>1, <2>1, <2>2, <2>3
<1>8. CASE NotifyStrobe
  <2>1. /\ rpc = "notify" /\ rpc' = "notify" /\ cur # Nobody /\ cur' = Nobody
        /\ todo' = todo \ {cur} /\ UNCHANGED <<wire, conn>>
    BY <1>8 DEF NotifyStrobe
  <2>2. cur \in todo BY <2>1 DEF ReceiverInv
  <2>3. Cardinality(todo') = Cardinality(todo) - 1
    BY <1>1, <2>1, <2>2, FS_RemoveElement
  <2>4. ReceiverLeft = 2 * Cardinality(todo) BY <1>1, <2>1 DEF ReceiverLeft
  <2>5. ReceiverLeft' = 2 * Cardinality(todo') + 1 BY <2>1 DEF ReceiverLeft
  <2>6. QED BY <1>1, <2>1, <2>3, <2>4, <2>5
<1>9. CASE RecvExit
  <2>1. /\ rpc = "notify" /\ rpc' = "exit" /\ cur = Nobody /\ UNCHANGED <<wire, conn>>
    BY <1>9 DEF RecvExit
  <2>2. ReceiverLeft = 2 * Cardinality(todo) + 1 BY <2>1 DEF ReceiverLeft
  <2>3. ReceiverLeft' = 0 BY <2>1 DEF ReceiverLeft
  <2>4. QED BY <1>1, <2>1, <2>2, <2>3
<1>10. QED
  BY <1>2, <1>3, <1>4, <1>5, <1>6, <1>7, <1>8, <1>9 DEF Receive

\* A step of anybody else.
LEMMA OthersLeaveIt ==
  ASSUME [Next]_vars, IsFiniteSet(wire)
  PROVE  \/ Receive
         \/ /\ UNCHANGED <<rpc, cur, todo>> /\ IsFiniteSet(wire')
            /\ conn = "closed" => wire' = wire /\ conn' = "closed"
<1>1. ASSUME NEW c \in Calls, Caller(c)
      PROVE  /\ UNCHANGED <<rpc, cur, todo>> /\ IsFiniteSet(wire')
             /\ conn = "closed" => wire' = wire /\ conn' = "closed"
  <2>1. CASE Write(c)
    <3>1. wire' = wire \/ wire' = wire \cup {[seq |-> callSeq[c], call |-> c]}
      BY <2>1 DEF Write
    <3>2. IsFiniteSet(wire') BY <3>1, FS_AddElement
    <3>3. QED BY <2>1, <3>2 DEF Write
  <2>2. CASE WriteFails(c)
    <3>1. \/ wire' = wire
          \/ conn = "open" /\ wire' = wire \cup {[seq |-> callSeq[c], call |-> c]}
      BY <2>2 DEF WriteFails
    <3>2. IsFiniteSet(wire') BY <3>1, FS_AddElement
    <3>3. conn' = "closed" /\ UNCHANGED <<rpc, cur, todo>> BY <2>2 DEF WriteFails
    <3>4. QED BY <3>1, <3>2, <3>3
  <2>3. CASE ~Write(c) /\ ~WriteFails(c)
    BY <1>1, <2>3 DEF Caller, Send, Lock, RegisterCall, RegisterRefused,
      Undo, StrobeOwn, TakeDone, CtxDone, Cancel
  <2>4. QED BY <2>1, <2>2, <2>3
<1>2. CASE Close \/ PeerCloses \/ UNCHANGED vars
  BY <1>2 DEF Close, PeerCloses
<1>3. QED BY <1>1, <1>2 DEF Next

\* client.go:95-107, 109-139: a receive goroutine whose connection is closed
\* comes to the end of terminateCalls, however many answers were under way and
\* whoever goes on to call: each of its steps takes from a number that is never
\* negative and that nobody adds to.
THEOREM ReceiverRunsOut ==
  ASSUME IsFiniteSet(Calls)
  PROVE  Spec => [][RunsOut]_vars
<1> DEFINE Finite == IsFiniteSet(wire)
<1>1. Init => Finite BY FS_EmptySet DEF Init
<1>2. IInv /\ IInv' /\ Finite /\ [Next]_vars => Finite' /\ RunsOut
  <2> SUFFICES ASSUME IInv, IInv', IsFiniteSet(wire), [Next]_vars
               PROVE  IsFiniteSet(wire') /\ RunsOut
    OBVIOUS
  <2>1. ReceiverLeft \in Nat BY LeftCounts DEF IInv
  <2>2. CASE Receive
    <3>1. conn' = conn /\ IsFiniteSet(wire') /\ ReceiverLeft' < ReceiverLeft
      BY <2>2, ReceiverGoesOn DEF IInv
    <3>2. ReceiverLeft' \in Nat
      <4>1. TypeOK' BY DEF IInv
      <4>2. todo' \subseteq Calls BY <4>1 DEF TypeOK
      <4>3. IsFiniteSet(todo') BY <4>2, FS_Subset
      <4>4. /\ Cardinality(Calls) \in Nat /\ Cardinality(wire') \in Nat
            /\ Cardinality(todo') \in Nat
        BY <3>1, <4>3, FS_CardinalityType
      <4>5. rpc' \in {"header", "body", "deliver", "lock", "notify", "exit"}
        BY <4>1 DEF TypeOK
      <4>6. QED BY <4>4, <4>5 DEF ReceiverLeft
    <3>3. QED BY <2>1, <3>1, <3>2 DEF RunsOut
  <2>3. CASE ~Receive
    <3>1. /\ UNCHANGED <<rpc, cur, todo>> /\ IsFiniteSet(wire')
          /\ conn = "closed" => wire' = wire /\ conn' = "closed"
      BY <2>3, OthersLeaveIt
    <3>2. conn = "closed" => ReceiverLeft' = ReceiverLeft
      BY <3>1 DEF ReceiverLeft
    <3>3. QED BY <2>1, <2>3, <3>1, <3>2 DEF RunsOut
  <2>4. QED BY <2>2, <2>3
<1> HIDE DEF Finite
<1>3. QED BY Invariance, <1>1, <1>2, PTL DEF Spec

==============================================================================
