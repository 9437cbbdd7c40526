---------------------------- MODULE RpcServerProofs --------------------------
(***************************************************************************)
(* Theorems about RpcServer for any connections, requests and services.    *)
(* That a request is answered once and whole rests on who may still answer *)
(* it: the stream that holds its header, the reader, the handler or the    *)
(* worker, never two of them, and on the lock, whose holder wrote the last *)
(* header.                                                                 *)
(***************************************************************************)
EXTENDS RpcServer, TLAPS

HeaderOf(r) == [req |-> r, part |-> "header"]
BodyOf(r) == [req |-> r, part |-> "body"]
Elems(s) == {s[i] : i \in DOMAIN s}

\* A stream of messages of requests of c, the first of which may have been
\* read in part: every header is followed by its body, and nothing is there twice.
Stream(c, s) ==
  /\ \A i \in DOMAIN s : s[i].req \in Reqs /\ ConnOf[s[i].req] = c
  /\ \A i \in DOMAIN s : s[i].part = "header" =>
       i + 1 \in DOMAIN s /\ s[i + 1] = BodyOf(s[i].req)
  /\ \A i, j \in DOMAIN s : s[i] = s[j] => i = j

StreamInv ==
  \A c \in Conns :
    /\ Stream(c, inp[c])
    /\ \A e \in Elems(inp[c]) : e.req \in sent
    /\ rd[c] = "body" => inp[c] # <<>> /\ Head(inp[c]) = BodyOf(cur[c])

\* The header of r has not been read.
Unread(c, r) == HeaderOf(r) \in Elems(inp[c])

\* A request is in the stream, with the reader or with its handler.
PhaseInv ==
  /\ \A c \in Conns : cur[c] # NoReq =>
       cur[c] \in sent /\ ConnOf[cur[c]] = c /\ ~Unread(c, cur[c])
  /\ \A c \in Conns : rd[c] = "body" => cur[c] # NoReq
  /\ \A c \in Conns : rd[c] \in {"body", "invalid"} /\ cur[c] # NoReq =>
       hd[cur[c]] = "none"
  /\ \A c \in Conns : rd[c] = "invalid" /\ cur[c] = NoReq => net[c] # "open"
  /\ \A r \in Reqs : hd[r] # "none" => r \in sent /\ ~Unread(ConnOf[r], r)
  /\ \A r \in Reqs : hd[r] = "none" <=> wk[r] = "none"

\* The holder of the lock has written the header of its answer.
WholeInv ==
  \A c \in Conns :
    /\ net[c] = "open" /\ lock[c] = Free => Len(out[c]) % 2 = 0
    /\ net[c] = "open" /\ lock[c] # Free =>
         Len(out[c]) % 2 = 1 /\ out[c][Len(out[c])] = HeaderOf(lock[c][2])

Has(r, e) == e \in Elems(out[ConnOf[r]])

\* Nothing of the answer to r is written.
Silent(r) == ~Has(r, HeaderOf(r)) /\ ~Has(r, BodyOf(r))

\* w has not written the body of its answer, and is writing it when its header
\* is there.
Writes(w, r) ==
  ~Has(r, BodyOf(r)) /\ (Has(r, HeaderOf(r)) => lock[ConnOf[r]] = w)

\* The answer to r has not been begun ...
Waiting(r) ==
  \/ Unread(ConnOf[r], r)
  \/ rd[ConnOf[r]] = "body" /\ cur[ConnOf[r]] = r
  \/ hd[r] = "select"

\* ... or it is w that answers it.
Answers(w, r) ==
  \/ w = Reader(ConnOf[r]) /\ rd[ConnOf[r]] = "invalid" /\ cur[ConnOf[r]] = r
  \/ w = Handler(r) /\ hd[r] = "timeout"
  \/ w = Worker(r) /\ wk[r] = "write"

AnswerInv ==
  /\ \A c \in Conns : \A e \in Elems(out[c]) : e.req \in sent /\ ConnOf[e.req] = c
  /\ \A r \in Reqs : Waiting(r) => Silent(r)
  /\ \A r \in Reqs, w \in Writers : Answers(w, r) => Writes(w, r)

LEMMA SeqFacts ==
  ASSUME NEW s \in Seq(Parts)
  PROVE  /\ Len(s) \in Nat /\ DOMAIN s = 1 .. Len(s)
         /\ \A i \in DOMAIN s : s[i] \in Parts
         /\ (s # <<>> => Len(s) > 0 /\ Head(s) = s[1] /\ 1 \in DOMAIN s)
OBVIOUS

\* What is left of a stream after its first k parts is a stream.
Shift(t, s, k) ==
  Len(s) = Len(t) + k /\ \A i \in 1 .. Len(t) : t[i] = s[i + k]

LEMMA Shifted ==
  ASSUME NEW c, NEW s \in Seq(Parts), Stream(c, s), NEW k \in Nat,
         NEW t \in Seq(Parts), Shift(t, s, k)
  PROVE  Stream(c, t)
<1> DEFINE n == Len(s)
<1> DEFINE m == Len(t)
<1>0. /\ n \in Nat /\ m \in Nat /\ DOMAIN s = 1 .. n /\ DOMAIN t = 1 .. m
      /\ n = m + k /\ \A i \in 1 .. m : t[i] = s[i + k]
  BY SeqFacts DEF Shift
<1> HIDE DEF n, m
<1>1. \A i \in 1 .. m : i \in Nat /\ i + k \in 1 .. n BY <1>0
<1>2. ASSUME NEW i \in 1 .. m PROVE t[i].req \in Reqs /\ ConnOf[t[i].req] = c
  <2> DEFINE h == i + k
  <2>1. h \in DOMAIN s /\ t[i] = s[h] BY <1>0, <1>1
  <2> HIDE DEF h
  <2>2. QED BY <2>1 DEF Stream
<1>3. ASSUME NEW i \in 1 .. m, t[i].part = "header"
      PROVE  i + 1 \in 1 .. m /\ t[i + 1] = BodyOf(t[i].req)
  <2> DEFINE h == i + k
  <2>1. h \in 1 .. n /\ t[i] = s[h] BY <1>0, <1>1
  <2>2. h + 1 \in 1 .. n /\ s[h + 1] = BodyOf(t[i].req)
    <3> HIDE DEF h
    <3>1. s[h].part = "header" BY <1>3, <2>1
    <3>2. QED BY <1>0, <2>1, <3>1 DEF Stream
  <2>3. i + 1 \in 1 .. m /\ (i + 1) + k = h + 1 BY <1>0, <1>1, <2>2
  <2>4. t[i + 1] = s[(i + 1) + k] BY <1>0, <2>3
  <2> HIDE DEF h
  <2>5. QED BY <2>2, <2>3, <2>4
<1>4. ASSUME NEW i \in 1 .. m, NEW j \in 1 .. m, t[i] = t[j] PROVE i = j
  <2> DEFINE h == i + k
  <2> DEFINE g == j + k
  <2>1. h \in DOMAIN s /\ g \in DOMAIN s /\ s[h] = s[g] BY <1>0, <1>1, <1>4
  <2>2. h = g
    <3> HIDE DEF h, g
    <3>1. QED BY <2>1 DEF Stream
  <2>3. QED BY <1>0, <2>2
<1>5. QED BY <1>0, <1>2, <1>3, <1>4 DEF Stream

LEMMA Dropped ==
  ASSUME NEW c, NEW s \in Seq(Parts), Stream(c, s), NEW k \in 0 .. Len(s)
  PROVE  /\ SubSeq(s, k + 1, Len(s)) \in Seq(Parts)
         /\ Stream(c, SubSeq(s, k + 1, Len(s)))
         /\ Elems(SubSeq(s, k + 1, Len(s))) \subseteq Elems(s)
<1> DEFINE t == SubSeq(s, k + 1, Len(s))
<1>1. Len(s) \in Nat /\ k \in Nat /\ Len(s) - k \in Nat BY SeqFacts
<1>2. /\ t \in Seq(Parts) /\ Len(t) = Len(s) - k
      /\ \A i \in 1 .. Len(s) - k : t[i] = s[i + k]
  BY <1>1
<1>3. DOMAIN t = 1 .. Len(s) - k /\ DOMAIN s = 1 .. Len(s) BY <1>2, SeqFacts
<1> HIDE DEF t
<1>4. Shift(t, s, k) BY <1>1, <1>2 DEF Shift
<1>5. Stream(c, t) BY <1>1, <1>2, <1>4, Shifted
<1>6. \A i \in 1 .. Len(s) - k : i + k \in 1 .. Len(s) BY <1>1
<1>7. Elems(t) \subseteq Elems(s) BY <1>2, <1>3, <1>6 DEF Elems
<1>8. QED BY <1>2, <1>5, <1>7 DEF t

\* The first part is nowhere else, and a header is followed by its body.
LEMMA Read ==
  ASSUME NEW c, NEW s \in Seq(Parts), Stream(c, s), s # <<>>
  PROVE  /\ Tail(s) \in Seq(Parts) /\ Stream(c, Tail(s))
         /\ Elems(s) = Elems(Tail(s)) \cup {Head(s)}
         /\ Head(s) \notin Elems(Tail(s))
         /\ Head(s) \in Parts /\ Head(s).req \in Reqs /\ ConnOf[Head(s).req] = c
         /\ (Head(s).part = "header" =>
              Tail(s) # <<>> /\ Head(Tail(s)) = BodyOf(Head(s).req))
<1> DEFINE t == Tail(s)
<1> DEFINE n == Len(s)
<1> DEFINE m == Len(s) - 1
<1>1. /\ n \in Nat /\ m \in Nat /\ n = m + 1 /\ DOMAIN s = 1 .. n /\ Head(s) = s[1]
      /\ 1 \in DOMAIN s /\ s[1] \in Parts
  BY SeqFacts
<1>2. t \in Seq(Parts) /\ Len(t) = m /\ \A i \in 1 .. m : t[i] = s[i + 1]
  BY <1>1
<1>3. DOMAIN t = 1 .. m BY <1>2, SeqFacts
<1>4. t # <<>> => Head(t) = t[1] BY <1>2, SeqFacts
<1>5. 1 \in 1 .. m => t # <<>> BY <1>2, <1>1
<1>6. Shift(t, s, 1) BY <1>1, <1>2 DEF Shift
<1> HIDE DEF t, n, m
<1>6a. Stream(c, t) BY <1>2, <1>6, Shifted
<1>7. Elems(s) = Elems(t) \cup {Head(s)}
  <2>1. ASSUME NEW i \in 1 .. n, i # 1 PROVE s[i] \in Elems(t)
    <3> DEFINE h == i - 1
    <3>1. h \in 1 .. m /\ h + 1 = i BY <1>1, <2>1
    <3> HIDE DEF h
    <3>2. QED BY <1>2, <1>3, <3>1 DEF Elems
  <2>2. ASSUME NEW i \in 1 .. m PROVE t[i] \in Elems(s)
    <3> DEFINE h == i + 1
    <3>1. h \in 1 .. n /\ t[i] = s[h] BY <1>1, <1>2
    <3> HIDE DEF h
    <3>2. QED BY <1>1, <3>1 DEF Elems
  <2>3. QED BY <1>1, <1>3, <2>1, <2>2 DEF Elems
<1>8. Head(s) \notin Elems(t)
  <2>1. ASSUME NEW i \in 1 .. m, t[i] = Head(s) PROVE FALSE
    <3> DEFINE h == i + 1
    <3>1. h \in DOMAIN s /\ s[h] = s[1] /\ h # 1 BY <1>1, <1>2, <2>1
    <3> HIDE DEF h
    <3>2. QED BY <1>1, <3>1 DEF Stream
  <2>2. QED BY <1>3, <2>1 DEF Elems
<1>9. ASSUME Head(s).part = "header"
      PROVE  t # <<>> /\ Head(t) = BodyOf(Head(s).req)
  <2>1. 1 + 1 \in DOMAIN s /\ s[1 + 1] = BodyOf(Head(s).req)
    BY <1>1, <1>9 DEF Stream
  <2>2. 1 \in 1 .. m BY <1>1, <2>1
  <2>3. QED BY <1>2, <1>4, <1>5, <2>1, <2>2
<1>10. QED BY <1>1, <1>2, <1>7, <1>8, <1>9, <1>6a DEF Stream, t

\* A request that is not in the stream yet.
LEMMA Written ==
  ASSUME NEW c \in Conns, NEW s \in Seq(Parts), Stream(c, s),
         NEW r \in Reqs, ConnOf[r] = c, \A e \in Elems(s) : e.req # r
  PROVE  /\ Stream(c, s \o Message(r))
         /\ Elems(s \o Message(r)) = Elems(s) \cup {HeaderOf(r), BodyOf(r)}
         /\ (s # <<>> => s \o Message(r) # <<>> /\ Head(s \o Message(r)) = Head(s))
<1> DEFINE t == s \o Message(r)
<1> DEFINE n == Len(s)
<1>1. n \in Nat /\ DOMAIN s = 1 .. n /\ \A i \in DOMAIN s : s[i] \in Parts
  BY SeqFacts
<1>2. HeaderOf(r) \in Parts /\ BodyOf(r) \in Parts
  BY DEF HeaderOf, BodyOf, Parts
<1>3. /\ t \in Seq(Parts) /\ Len(t) = n + 2
      /\ \A i \in 1 .. n : t[i] = s[i]
      /\ t[n + 1] = HeaderOf(r) /\ t[n + 2] = BodyOf(r)
  <2>1. t = s \o <<HeaderOf(r), BodyOf(r)>> BY DEF Message, HeaderOf, BodyOf
  <2> DEFINE x == HeaderOf(r)
  <2> DEFINE y == BodyOf(r)
  <2>2. x \in Parts /\ y \in Parts BY <1>2
  <2>3. t = s \o <<x, y>> BY <2>1
  <2> HIDE DEF x, y
  <2> HIDE DEF t
  <2>4. /\ <<x, y>> \in Seq(Parts) /\ Len(<<x, y>>) = 2
    BY <2>2
  <2>5. t \in Seq(Parts) /\ Len(t) = n + 2 BY <1>1, <2>3, <2>4
  <2>6. \A i \in 1 .. n : t[i] = s[i] BY <1>1, <2>3, <2>4
  <2>7. t[n + 1] = x BY <1>1, <2>2, <2>3
  <2>8. t[n + 2] = y BY <1>1, <2>2, <2>3
  <2>9. QED BY <2>5, <2>6, <2>7, <2>8 DEF x, y
<1>4. DOMAIN t = 1 .. n + 2 BY <1>3, SeqFacts
<1> HIDE DEF n
<1> HIDE DEF t
<1>5. DOMAIN t = DOMAIN s \cup {n + 1, n + 2} /\ DOMAIN s \cap {n + 1, n + 2} = {}
  BY <1>1, <1>4
<1>6. HeaderOf(r).req = r /\ BodyOf(r).req = r /\ HeaderOf(r) # BodyOf(r)
  BY DEF HeaderOf, BodyOf
<1>7. \A k \in DOMAIN s : t[k].req # r /\ t[k] = s[k] BY <1>1, <1>3 DEF Elems
<1>8. Elems(t) = Elems(s) \cup {HeaderOf(r), BodyOf(r)}
  <2>1. \A i \in DOMAIN t : t[i] \in Elems(s) \cup {HeaderOf(r), BodyOf(r)}
    BY <1>3, <1>5, <1>7 DEF Elems
  <2>2. \A i \in DOMAIN s : s[i] \in Elems(t) BY <1>5, <1>7 DEF Elems
  <2>3. HeaderOf(r) \in Elems(t) /\ BodyOf(r) \in Elems(t)
    BY <1>3, <1>5 DEF Elems
  <2>4. QED BY <2>1, <2>2, <2>3 DEF Elems
<1>9. \A i \in DOMAIN t : t[i].req \in Reqs /\ ConnOf[t[i].req] = c
  BY <1>3, <1>5, <1>6, <1>7 DEF Stream
<1>10. ASSUME NEW i \in DOMAIN t, t[i].part = "header"
      PROVE  i + 1 \in DOMAIN t /\ t[i + 1] = BodyOf(t[i].req)
  <2>1. CASE i \in DOMAIN s
    <3>1. t[i] = s[i] BY <1>7, <2>1
    <3>2. i + 1 \in DOMAIN s /\ s[i + 1] = BodyOf(s[i].req)
      BY <1>10, <2>1, <3>1 DEF Stream
    <3>3. i + 1 \in DOMAIN t /\ t[i + 1] = s[i + 1] BY <1>5, <1>7, <3>2
    <3>4. QED BY <3>1, <3>2, <3>3
  <2>2. CASE i = n + 1
    <3>1. i + 1 = n + 2 /\ n + 2 \in DOMAIN t BY <1>1, <1>5, <2>2
    <3>2. QED BY <1>3, <1>6, <2>2, <3>1
  <2>3. CASE i = n + 2 BY <1>3, <1>10, <2>3 DEF BodyOf
  <2>4. QED BY <1>5, <2>1, <2>2, <2>3
<1>11. ASSUME NEW i \in DOMAIN t, NEW j \in DOMAIN t, t[i] = t[j] PROVE i = j
  <2>1. CASE i \in DOMAIN s /\ j \in DOMAIN s
    <3>1. s[i] = s[j] BY <1>7, <1>11, <2>1
    <3>2. QED BY <2>1, <3>1 DEF Stream
  <2>2. CASE i \notin DOMAIN s /\ j \notin DOMAIN s
    BY <1>3, <1>5, <1>6, <1>11, <2>2
  <2>3. QED BY <1>3, <1>5, <1>6, <1>7, <1>11, <2>1, <2>2
<1>12. s # <<>> => t # <<>> /\ Head(t) = Head(s)
  <2>1. ASSUME s # <<>> PROVE 1 \in 1 .. n /\ Head(s) = s[1]
    BY <2>1, SeqFacts
     DEF n
  <2>2. Len(t) > 0 BY <1>1, <1>3
  <2>3. t # <<>> BY <2>2
  <2>4. QED BY <1>3, <2>1, <2>3, SeqFacts
<1>13. Stream(c, t) BY <1>9, <1>10, <1>11 DEF Stream
<1>14. QED BY <1>8, <1>12, <1>13 DEF t

\* What Emit does.
LEMMA Emitted ==
  ASSUME TypeOK, NEW c \in Conns, NEW r \in Reqs \cup {NoReq},
         NEW part \in {"header", "body"}, Emit(c, r, part)
  PROVE  /\ out' \in [Conns -> Seq(Parts)]
         /\ \A d \in Conns : d # c => out'[d] = out[d]
         /\ net[c] # "open" => out'[c] = out[c]
         /\ net[c] = "open" =>
              /\ Len(out'[c]) = Len(out[c]) + 1
              /\ out'[c][Len(out[c]) + 1] = [req |-> r, part |-> part]
              /\ \A i \in DOMAIN out[c] : out'[c][i] = out[c][i]
         /\ Len(out[c]) \in Nat /\ DOMAIN out[c] = 1 .. Len(out[c])
         /\ DOMAIN out'[c] = 1 .. Len(out'[c])
<1>1. /\ out \in [Conns -> Seq(Parts)] /\ out[c] \in Seq(Parts)
      /\ [req |-> r, part |-> part] \in Parts
  BY DEF TypeOK, Parts
<1> DEFINE p == [req |-> r, part |-> part]
<1>2. out' = [out EXCEPT ![c] = IF net[c] # "open" THEN out[c] ELSE Append(out[c], p)]
  BY DEF Emit
<1>3. p \in Parts BY <1>1
<1> HIDE DEF p
<1>4. Append(out[c], p) \in Seq(Parts) BY <1>1, <1>3
<1>5. /\ Len(Append(out[c], p)) = Len(out[c]) + 1
      /\ Append(out[c], p)[Len(out[c]) + 1] = p
      /\ \A i \in 1 .. Len(out[c]) : Append(out[c], p)[i] = out[c][i]
  BY <1>1, <1>3
<1>6. Len(out[c]) \in Nat /\ DOMAIN out[c] = 1 .. Len(out[c])
  BY <1>1, SeqFacts
<1>7. out' \in [Conns -> Seq(Parts)] BY <1>1, <1>2, <1>4
<1>8. out'[c] = IF net[c] # "open" THEN out[c] ELSE Append(out[c], p)
  BY <1>1, <1>2
<1>9. DOMAIN out'[c] = 1 .. Len(out'[c]) BY <1>7, SeqFacts
<1>10. QED BY <1>1, <1>2, <1>5, <1>6, <1>7, <1>8, <1>9 DEF p

LEMMA Refused ==
  ASSUME TypeOK, NEW c \in Conns
  PROVE  Reader(c) \in Writers /\ Reader(c)[2] = cur[c] /\ cur[c] \in Reqs \cup {NoReq}
BY DEF TypeOK, Reader, Writers

LEMMA Replied ==
  ASSUME TypeOK, NEW r \in Reqs
  PROVE  /\ Worker(r) \in Writers /\ Worker(r)[2] = r
         /\ Handler(r) \in Writers /\ Handler(r)[2] = r
         /\ r \in Reqs \cup {NoReq} /\ ConnOf[r] \in Conns
BY ServerAssumption DEF Worker, Handler, Writers

\* The two halves of an answer.
LEMMA HeaderWritten ==
  ASSUME TypeOK, NEW c \in Conns, NEW w \in Writers, w[2] \in Reqs \cup {NoReq},
         WriteHeader(c, w)
  PROVE  /\ out' \in [Conns -> Seq(Parts)]
         /\ lock' \in [Conns -> Writers \cup {Free}]
         /\ lock[c] = Free /\ lock' = [lock EXCEPT ![c] = w]
         /\ Emit(c, w[2], "header")
         /\ UNCHANGED <<handleTimeout, rd, cur, inp, lost, net, hd, wk, lim,
                        sent, known, serviceMap>>
<1>1. Emit(c, w[2], "header") BY DEF WriteHeader
<1>2. out' \in [Conns -> Seq(Parts)] BY <1>1, Emitted
<1>3. QED BY <1>1, <1>2 DEF WriteHeader, CanLock, TypeOK, given

LEMMA BodyWritten ==
  ASSUME TypeOK, NEW c \in Conns, NEW w \in Writers, w[2] \in Reqs \cup {NoReq},
         WriteBody(c, w)
  PROVE  /\ out' \in [Conns -> Seq(Parts)]
         /\ lock' \in [Conns -> Writers \cup {Free}]
         /\ lock[c] = w /\ lock' = [lock EXCEPT ![c] = Free]
         /\ net' \in [Conns -> {"open", "fin", "reset", "closed"}]
         /\ \/ Emit(c, w[2], "body") /\ net' = net
            \/ out' = out /\ net' = [net EXCEPT ![c] = "closed"]
         /\ UNCHANGED <<handleTimeout, cur, inp, lost, lim, sent, known, serviceMap>>
<1>1. \/ Emit(c, w[2], "body") /\ net' = net
      \/ out' = out /\ net' = [net EXCEPT ![c] = "closed"]
  BY DEF WriteBody
<1>2. out' \in [Conns -> Seq(Parts)]
  <2>1. CASE Emit(c, w[2], "body") BY <2>1, Emitted
  <2>2. CASE out' = out BY <2>2 DEF TypeOK
  <2>3. QED BY <1>1, <2>1, <2>2
<1>3. QED BY <1>1, <1>2 DEF WriteBody, Unlocked, TypeOK, given

\* The stream of a connection.
LEMMA InpFacts ==
  ASSUME TypeOK, NEW c \in Conns
  PROVE  inp[c] \in Seq(Parts) /\ (inp[c] # <<>> => Head(inp[c]) \in Parts /\ Tail(inp[c]) \in Seq(Parts))
BY DEF TypeOK

LEMMA NewServices ==
  ASSUME TypeOK, NEW v \in Receivers, Register(v)
  PROVE  /\ serviceMap' \subseteq Receivers
         /\ \A u, w \in serviceMap' : u.name = w.name => u = w
         /\ \A t : Found(t) => Found(t)'
<1>1. \/ serviceMap' = serviceMap
      \/ serviceMap' = serviceMap \cup {v} /\ \A u \in serviceMap : u.name # v.name
  BY DEF Register, LoadedOrStored
<1>2. QED BY <1>1 DEF TypeOK, Found

\* Every step keeps the types.
LEMMA StepTypes ==
  ASSUME TypeOK, StreamInv, [Next]_vars
  PROVE  TypeOK'
<1>1. CASE UNCHANGED vars
  BY <1>1, ServerAssumption DEF vars, reqVars, given, TypeOK
<1>2. ASSUME NEW r \in Reqs, ClientSend(r) PROVE TypeOK'
  <2>1. Message(r) \in Seq(Parts) BY DEF Message, Parts
  <2>2. ConnOf[r] \in Conns BY ServerAssumption
  <2>3. inp' \in [Conns -> Seq(Parts)]
    <3>1. inp[ConnOf[r]] \in Seq(Parts) BY <2>2 DEF TypeOK
    <3>2. inp[ConnOf[r]] \o Message(r) \in Seq(Parts) BY <2>1, <3>1
    <3>3. inp' = [inp EXCEPT ![ConnOf[r]] = inp[ConnOf[r]] \o Message(r)]
      BY <1>2
       DEF ClientSend
    <3>4. QED BY <3>2, <3>3 DEF TypeOK
  <2>4. /\ sent' = sent \cup {r} /\ known' \subseteq known \cup {r}
        /\ UNCHANGED <<handleTimeout, rd, cur, lost, net, out, lock, hd, wk, lim, serviceMap>>
    BY <1>2 DEF ClientSend, reqVars
  <2>5. QED BY <2>3, <2>4 DEF TypeOK
<1>3. ASSUME NEW c \in Conns, ClientClose(c) PROVE TypeOK'
  BY <1>3, ServerAssumption DEF ClientClose, reqVars, given, TypeOK
<1>4. ASSUME NEW c \in Conns, PeerReset(c) PROVE TypeOK'
  BY <1>4, ServerAssumption DEF PeerReset, reqVars, given, TypeOK
<1>5. ASSUME NEW v \in Receivers, RegisterService(v) PROVE TypeOK'
  <2>1. serviceMap' \subseteq Receivers /\ \A u, w \in serviceMap' : u.name = w.name => u = w
    BY <1>5, NewServices DEF RegisterService
  <2>2. UNCHANGED <<handleTimeout, rd, cur, inp, lost, net, out, lock, hd, wk, lim, sent, known>>
    BY <1>5 DEF RegisterService, reqVars
  <2>3. QED BY <2>1, <2>2 DEF TypeOK
<1>6. ASSUME NEW c \in Conns, ReadOptions(c) PROVE TypeOK'
  <2>1. inp' \in [Conns -> Seq(Parts)] /\ lost' \in [Conns -> BOOLEAN]
    <3>1. PICK kept \in 0 .. Len(inp[c]) :
            /\ inp' = [inp EXCEPT ![c] = SubSeq(inp[c], kept + 1, Len(inp[c]))]
            /\ lost' = [lost EXCEPT ![c] = kept > 0]
      BY <1>6 DEF ReadOptions
    <3>2. SubSeq(inp[c], kept + 1, Len(inp[c])) \in Seq(Parts)
      BY InpFacts, Dropped DEF StreamInv
    <3>3. (kept > 0) \in BOOLEAN OBVIOUS
    <3>4. QED BY <3>1, <3>2, <3>3 DEF TypeOK
  <2>2. /\ handleTimeout' \in BOOLEAN
        /\ rd' = [rd EXCEPT ![c] = "header"]
        /\ UNCHANGED <<cur, net, out, lock, hd, wk, lim, sent, known, serviceMap>>
    BY <1>6 DEF ReadOptions, reqVars, given
  <2>3. QED BY <2>1, <2>2 DEF TypeOK
<1>7. ASSUME NEW c \in Conns, OptionsFail(c) PROVE TypeOK'
  <2>1. handleTimeout' \in BOOLEAN
    <3>1. CASE UNCHANGED handleTimeout BY <3>1 DEF TypeOK
    <3>2. CASE handleTimeout' = (c \in Limited)
      <4>1. CASE c \in Limited BY <3>2, <4>1
      <4>2. CASE c \notin Limited BY <3>2, <4>2
      <4>3. QED BY <4>1, <4>2
    <3>3. QED BY <1>7, <3>1, <3>2 DEF OptionsFail
  <2>2. QED BY <1>7, <2>1, ServerAssumption DEF OptionsFail, EndConn, reqVars, given, TypeOK
<1>8. ASSUME NEW c \in Conns, ReadHeader(c) PROVE TypeOK'
  <2>1. inp[c] # <<>> BY <1>8 DEF ReadHeader, HeaderNext
  <2>2. Head(inp[c]).req \in Reqs /\ Tail(inp[c]) \in Seq(Parts)
    BY <2>1, InpFacts, Read DEF StreamInv
  <2>3. /\ cur' = [cur EXCEPT ![c] = Head(inp[c]).req]
        /\ rd' \in [Conns -> {"options", "header", "body", "invalid", "ended"}]
        /\ inp' = [inp EXCEPT ![c] = Tail(inp[c])]
        /\ UNCHANGED <<handleTimeout, lost, net, out, lock, hd, wk, lim, sent, known, serviceMap>>
    BY <1>8 DEF ReadHeader, reqVars, given, TypeOK
  <2>4. inp' \in [Conns -> Seq(Parts)] BY <2>2, <2>3 DEF TypeOK
  <2>5. cur' \in [Conns -> Reqs \cup {NoReq}] BY <2>2, <2>3 DEF TypeOK
  <2>6. QED BY <2>3, <2>4, <2>5 DEF TypeOK
<1>9. ASSUME NEW c \in Conns, ReadHeaderFails(c) PROVE TypeOK'
  BY <1>9, ServerAssumption DEF ReadHeaderFails, EndConn, reqVars, given, TypeOK
<1>10. ASSUME NEW c \in Conns, ReadEof(c) PROVE TypeOK'
  BY <1>10, ServerAssumption DEF ReadEof, reqVars, given, TypeOK
<1>11. ASSUME NEW c \in Conns, NEW ok \in BOOLEAN, ReadBody(c, ok) PROVE TypeOK'
  <2>1. inp[c] # <<>> BY <1>11 DEF ReadBody, StreamInv
  <2>2. inp' \in [Conns -> Seq(Parts)]
    BY <1>11, <2>1, InpFacts DEF ReadBody, TypeOK
  <2>3. UNCHANGED <<handleTimeout, cur, lost, net, out, lock, sent, known, serviceMap>>
    BY <1>11 DEF ReadBody, given
  <2>4. CASE ok
    <3>1. /\ hd' = [hd EXCEPT ![cur[c]] = "select"]
          /\ wk' = [wk EXCEPT ![cur[c]] = "calling"]
          /\ lim' = [lim EXCEPT ![cur[c]] = handleTimeout]
          /\ rd' = [rd EXCEPT ![c] = "header"]
      BY <1>11, <2>4 DEF ReadBody
    <3>2. QED BY <2>2, <2>3, <3>1 DEF TypeOK
  <2>5. CASE ~ok
    <3>1. rd' = [rd EXCEPT ![c] = "invalid"] /\ UNCHANGED <<hd, wk, lim>>
      BY <1>11, <2>5 DEF ReadBody, reqVars
    <3>2. QED BY <2>2, <2>3, <3>1 DEF TypeOK
  <2>6. QED BY <2>4, <2>5
<1>12. ASSUME NEW c \in Conns, RefuseHeader(c) PROVE TypeOK'
  <2>1. WriteHeader(c, Reader(c)) BY <1>12 DEF RefuseHeader
  <2>2. Reader(c) \in Writers /\ Reader(c)[2] \in Reqs \cup {NoReq} /\ c \in Conns
    BY Refused
  <2>3. /\ out' \in [Conns -> Seq(Parts)] /\ lock' \in [Conns -> Writers \cup {Free}]
        /\ UNCHANGED <<handleTimeout, rd, cur, inp, lost, net, hd, wk, lim, sent, known, serviceMap>>
    BY <2>1, <2>2, HeaderWritten
  <2>4. QED BY <2>3 DEF TypeOK
<1>13. ASSUME NEW c \in Conns, RefuseBody(c) PROVE TypeOK'
  <2>1. WriteBody(c, Reader(c)) /\ rd' = [rd EXCEPT ![c] = "header"] /\ UNCHANGED <<hd, wk>>
    BY <1>13 DEF RefuseBody
  <2>2. QED BY <2>1, BodyWritten, Refused DEF TypeOK
<1>14. ASSUME NEW r \in Reqs, MethodReturns(r) PROVE TypeOK'
  BY <1>14, ServerAssumption DEF MethodReturns, reqVars, given, TypeOK
<1>15. ASSUME NEW r \in Reqs, Called(r) PROVE TypeOK'
  BY <1>15, ServerAssumption DEF Called, CalledReceived, reqVars, given, TypeOK
<1>16. ASSUME NEW r \in Reqs, ReplyHeader(r) PROVE TypeOK'
  <2>1. WriteHeader(ConnOf[r], Worker(r)) BY <1>16 DEF ReplyHeader
  <2>2. Worker(r) \in Writers /\ Worker(r)[2] \in Reqs \cup {NoReq} /\ ConnOf[r] \in Conns
    BY Replied
  <2>3. /\ out' \in [Conns -> Seq(Parts)] /\ lock' \in [Conns -> Writers \cup {Free}]
        /\ UNCHANGED <<handleTimeout, rd, cur, inp, lost, net, hd, wk, lim, sent, known, serviceMap>>
    BY <2>1, <2>2, HeaderWritten
  <2>4. QED BY <2>3 DEF TypeOK
<1>17. ASSUME NEW r \in Reqs, ReplyBody(r) PROVE TypeOK'
  <2>1. /\ WriteBody(ConnOf[r], Worker(r)) /\ wk[r] = "write"
        /\ wk' = [wk EXCEPT ![r] = "written"] /\ UNCHANGED <<rd, hd>>
    BY <1>17 DEF ReplyBody
  <2>2. Worker(r) \in Writers /\ Worker(r)[2] \in Reqs \cup {NoReq} /\ ConnOf[r] \in Conns
    BY Replied
  <2>3. /\ out' \in [Conns -> Seq(Parts)] /\ lock' \in [Conns -> Writers \cup {Free}]
        /\ net' \in [Conns -> {"open", "fin", "reset", "closed"}]
        /\ UNCHANGED <<handleTimeout, cur, inp, lost, lim, sent, known, serviceMap>>
    BY <2>1, <2>2, BodyWritten
  <2>4. QED BY <2>1, <2>3 DEF TypeOK
<1>18. ASSUME NEW r \in Reqs, Sent(r) PROVE TypeOK'
  BY <1>18, ServerAssumption DEF Sent, reqVars, given, TypeOK
<1>19. ASSUME NEW r \in Reqs, Timeout(r) PROVE TypeOK'
  BY <1>19, ServerAssumption DEF Timeout, reqVars, given, TypeOK
<1>20. ASSUME NEW r \in Reqs, TimeoutHeader(r) PROVE TypeOK'
  <2>1. WriteHeader(ConnOf[r], Handler(r)) BY <1>20 DEF TimeoutHeader
  <2>2. Handler(r) \in Writers /\ Handler(r)[2] \in Reqs \cup {NoReq} /\ ConnOf[r] \in Conns
    BY Replied
  <2>3. /\ out' \in [Conns -> Seq(Parts)] /\ lock' \in [Conns -> Writers \cup {Free}]
        /\ UNCHANGED <<handleTimeout, rd, cur, inp, lost, net, hd, wk, lim, sent, known, serviceMap>>
    BY <2>1, <2>2, HeaderWritten
  <2>4. QED BY <2>3 DEF TypeOK
<1>21. ASSUME NEW r \in Reqs, TimeoutBody(r) PROVE TypeOK'
  <2>1. /\ WriteBody(ConnOf[r], Handler(r)) /\ hd[r] = "timeout"
        /\ hd' = [hd EXCEPT ![r] = "done"] /\ UNCHANGED <<rd, wk>>
    BY <1>21 DEF TimeoutBody
  <2>2. Handler(r) \in Writers /\ Handler(r)[2] \in Reqs \cup {NoReq} /\ ConnOf[r] \in Conns
    BY Replied
  <2>3. /\ out' \in [Conns -> Seq(Parts)] /\ lock' \in [Conns -> Writers \cup {Free}]
        /\ net' \in [Conns -> {"open", "fin", "reset", "closed"}]
        /\ UNCHANGED <<handleTimeout, cur, inp, lost, lim, sent, known, serviceMap>>
    BY <2>1, <2>2, BodyWritten
  <2>4. QED BY <2>1, <2>3 DEF TypeOK
<1>22. ASSUME NEW r \in Reqs, Abandon(r) PROVE TypeOK'
  BY <1>22, ServerAssumption DEF Abandon, FinishClosed, reqVars, given, TypeOK
<1> QED
  BY <1>1, <1>2, <1>3, <1>4, <1>5, <1>6, <1>7, <1>8, <1>9, <1>10, <1>11,
      <1>12, <1>13, <1>14, <1>15, <1>16, <1>17, <1>18, <1>19, <1>20, <1>21,
      <1>22
  DEF Next, Client, ReaderStep, HandlerStep, WorkerStep

\* What the steps that read do to the stream.
LEMMA HeadRead ==
  ASSUME TypeOK, StreamInv, NEW c \in Conns, ReadHeader(c)
  PROVE  \E r \in Reqs :
           /\ ConnOf[r] = c /\ r \in sent /\ Unread(c, r) /\ HeaderOf(r) \notin Elems(inp'[c])
           /\ \A d \in Conns : \A e : e \in Elems(inp'[d]) => e \in Elems(inp[d])
           /\ Stream(c, inp'[c]) /\ inp'[c] # <<>> /\ Head(inp'[c]) = BodyOf(r)
           /\ \A d \in Conns : d # c => inp'[d] = inp[d]
           /\ rd[c] = "header" /\ cur' = [cur EXCEPT ![c] = r]
           /\ (rd' = [rd EXCEPT ![c] = "body"] \/ rd' = [rd EXCEPT ![c] = "invalid"])
           /\ Found(Target[r]) => rd'[c] = "body"
           /\ UNCHANGED <<sent, hd, wk, lim, out, lock, net, known, serviceMap>>
<1> DEFINE h == Head(inp[c])
<1>1. /\ inp[c] # <<>> /\ h.part = "header" /\ rd[c] = "header"
      /\ cur' = [cur EXCEPT ![c] = h.req] /\ inp' = [inp EXCEPT ![c] = Tail(inp[c])]
      /\ rd' = [rd EXCEPT ![c] = IF Found(Target[h.req]) THEN "body" ELSE "invalid"]
      /\ UNCHANGED <<sent, hd, wk, lim, out, lock, net, known, serviceMap>>
  BY DEF ReadHeader, HeaderNext, reqVars, given
<1>2. inp[c] \in Seq(Parts) /\ Stream(c, inp[c]) BY InpFacts DEF StreamInv
<1>3. /\ Stream(c, Tail(inp[c])) /\ Elems(inp[c]) = Elems(Tail(inp[c])) \cup {h}
      /\ h \notin Elems(Tail(inp[c])) /\ h \in Parts /\ h.req \in Reqs
      /\ ConnOf[h.req] = c
      /\ Tail(inp[c]) # <<>> /\ Head(Tail(inp[c])) = BodyOf(h.req)
  BY <1>1, <1>2, Read
<1>4. h = HeaderOf(h.req) BY <1>1, <1>3 DEF Parts, HeaderOf
<1>5. h.req \in sent BY <1>3 DEF StreamInv
<1>6. inp'[c] = Tail(inp[c]) /\ \A d \in Conns : d # c => inp'[d] = inp[d]
  BY <1>1 DEF TypeOK
<1>7. Unread(c, h.req) BY <1>3, <1>4 DEF Unread
<1>8. rd'[c] = IF Found(Target[h.req]) THEN "body" ELSE "invalid"
  BY <1>1 DEF TypeOK
<1> HIDE DEF h
<1>9. rd' = [rd EXCEPT ![c] = "body"] \/ rd' = [rd EXCEPT ![c] = "invalid"]
  BY <1>1
<1>10. ASSUME NEW d \in Conns, NEW e, e \in Elems(inp'[d]) PROVE e \in Elems(inp[d])
  <2>1. CASE d = c BY <1>3, <1>6, <1>10, <2>1
  <2>2. CASE d # c BY <1>6, <1>10, <2>2
  <2>3. QED BY <2>1, <2>2
<1>11. QED BY <1>1, <1>3, <1>4, <1>5, <1>6, <1>7, <1>8, <1>9, <1>10

LEMMA BodyRead ==
  ASSUME TypeOK, StreamInv, NEW c \in Conns, NEW ok \in BOOLEAN, ReadBody(c, ok)
  PROVE  /\ rd[c] = "body" /\ Stream(c, inp'[c])
         /\ \A d \in Conns : \A e : e \in Elems(inp'[d]) => e \in Elems(inp[d])
         /\ \A d \in Conns : d # c => inp'[d] = inp[d]
         /\ UNCHANGED <<cur, sent, out, lock, net, known, serviceMap>>
         /\ \/ /\ rd' = [rd EXCEPT ![c] = "header"]
               /\ hd' = [hd EXCEPT ![cur[c]] = "select"]
               /\ wk' = [wk EXCEPT ![cur[c]] = "calling"]
            \/ rd' = [rd EXCEPT ![c] = "invalid"] /\ UNCHANGED <<hd, wk>>
<1>1. rd[c] = "body" /\ inp[c] # <<>> BY DEF ReadBody, StreamInv
<1>2. inp[c] \in Seq(Parts) /\ Stream(c, inp[c]) BY InpFacts DEF StreamInv
<1>3. Stream(c, Tail(inp[c])) /\ Elems(Tail(inp[c])) \subseteq Elems(inp[c])
  BY <1>1, <1>2, Read
<1>4. inp'[c] = Tail(inp[c]) /\ \A d \in Conns : d # c => inp'[d] = inp[d]
  BY DEF ReadBody, TypeOK
<1>5. ASSUME NEW d \in Conns, NEW e, e \in Elems(inp'[d]) PROVE e \in Elems(inp[d])
  <2>1. CASE d = c BY <1>3, <1>4, <1>5, <2>1
  <2>2. CASE d # c BY <1>4, <1>5, <2>2
  <2>3. QED BY <2>1, <2>2
<1>6. QED BY <1>1, <1>3, <1>4, <1>5 DEF ReadBody, reqVars, given

LEMMA OptionsRead ==
  ASSUME TypeOK, StreamInv, NEW c \in Conns, ReadOptions(c)
  PROVE  /\ \A d \in Conns : \A e : e \in Elems(inp'[d]) => e \in Elems(inp[d])
         /\ Stream(c, inp'[c])
         /\ \A d \in Conns : d # c => inp'[d] = inp[d]
         /\ rd[c] = "options" /\ rd' = [rd EXCEPT ![c] = "header"]
         /\ UNCHANGED <<cur, sent, hd, wk, lim, out, lock, net, known, serviceMap>>
<1>1. PICK kept \in 0 .. Len(inp[c]) :
        inp' = [inp EXCEPT ![c] = SubSeq(inp[c], kept + 1, Len(inp[c]))]
  BY DEF ReadOptions
<1>2. inp[c] \in Seq(Parts) /\ Stream(c, inp[c]) BY InpFacts DEF StreamInv
<1> DEFINE t == SubSeq(inp[c], kept + 1, Len(inp[c]))
<1>3. Stream(c, t) /\ Elems(t) \subseteq Elems(inp[c]) BY <1>2, Dropped
<1>4. inp'[c] = t /\ \A d \in Conns : d # c => inp'[d] = inp[d] BY <1>1 DEF TypeOK
<1> HIDE DEF t
<1>5. ASSUME NEW d \in Conns, NEW e, e \in Elems(inp'[d]) PROVE e \in Elems(inp[d])
  <2>1. CASE d = c BY <1>3, <1>4, <1>5, <2>1
  <2>2. CASE d # c BY <1>4, <1>5, <2>2
  <2>3. QED BY <2>1, <2>2
<1>6. QED BY <1>3, <1>4, <1>5 DEF ReadOptions, reqVars, given

LEMMA RequestSent ==
  ASSUME TypeOK, StreamInv, NEW r \in Reqs, ClientSend(r)
  PROVE  /\ r \notin sent /\ sent' = sent \cup {r} /\ ConnOf[r] \in Conns
         /\ Stream(ConnOf[r], inp'[ConnOf[r]])
         /\ Elems(inp'[ConnOf[r]]) = Elems(inp[ConnOf[r]]) \cup {HeaderOf(r), BodyOf(r)}
         /\ (inp[ConnOf[r]] # <<>> =>
              inp'[ConnOf[r]] # <<>> /\ Head(inp'[ConnOf[r]]) = Head(inp[ConnOf[r]]))
         /\ \A d \in Conns : d # ConnOf[r] => inp'[d] = inp[d]
         /\ UNCHANGED <<rd, cur, hd, wk, lim, out, lock, net, serviceMap>>
<1>1. ConnOf[r] \in Conns BY ServerAssumption
<1>2. r \notin sent /\ sent' = sent \cup {r} BY DEF ClientSend
<1>3. inp[ConnOf[r]] \in Seq(Parts) /\ Stream(ConnOf[r], inp[ConnOf[r]])
  BY <1>1, InpFacts DEF StreamInv
<1>4. \A e \in Elems(inp[ConnOf[r]]) : e.req # r BY <1>1, <1>2 DEF StreamInv
<1>5. /\ Stream(ConnOf[r], inp[ConnOf[r]] \o Message(r))
      /\ Elems(inp[ConnOf[r]] \o Message(r)) =
           Elems(inp[ConnOf[r]]) \cup {HeaderOf(r), BodyOf(r)}
      /\ (inp[ConnOf[r]] # <<>> =>
           /\ inp[ConnOf[r]] \o Message(r) # <<>>
           /\ Head(inp[ConnOf[r]] \o Message(r)) = Head(inp[ConnOf[r]]))
  <2> DEFINE c == ConnOf[r]
  <2> DEFINE s == inp[ConnOf[r]]
  <2>1. /\ c \in Conns /\ s \in Seq(Parts) /\ Stream(c, s) /\ ConnOf[r] = c
        /\ \A e \in Elems(s) : e.req # r
    BY <1>1, <1>3, <1>4
  <2> HIDE DEF c, s
  <2>2. /\ Stream(c, s \o Message(r))
        /\ Elems(s \o Message(r)) = Elems(s) \cup {HeaderOf(r), BodyOf(r)}
        /\ (s # <<>> => s \o Message(r) # <<>> /\ Head(s \o Message(r)) = Head(s))
    BY <2>1, Written
  <2>3. QED BY <2>2 DEF c, s
<1>6. /\ inp'[ConnOf[r]] = inp[ConnOf[r]] \o Message(r)
      /\ \A d \in Conns : d # ConnOf[r] => inp'[d] = inp[d]
  BY <1>1 DEF ClientSend, TypeOK
<1>7. QED BY <1>1, <1>2, <1>5, <1>6 DEF ClientSend, reqVars

\* Every step keeps the streams.
LEMMA StepStream ==
  ASSUME TypeOK, StreamInv, [Next]_vars
  PROVE  StreamInv'
<1>1. CASE UNCHANGED vars
  <2>1. UNCHANGED <<inp, rd, cur, sent>> BY <1>1 DEF vars, reqVars, given
  <2>2. QED BY <2>1 DEF StreamInv
<1>2. ASSUME NEW r \in Reqs, ClientSend(r) PROVE StreamInv'
  <2>1. ASSUME NEW d \in Conns
        PROVE  /\ Stream(d, inp'[d])
               /\ \A e \in Elems(inp'[d]) : e.req \in sent'
               /\ rd'[d] = "body" => inp'[d] # <<>> /\ Head(inp'[d]) = BodyOf(cur'[d])
    <3>1. CASE d = ConnOf[r]
      BY <1>2, <3>1, RequestSent DEF StreamInv, HeaderOf, BodyOf
    <3>2. CASE d # ConnOf[r] BY <1>2, <3>2, RequestSent DEF StreamInv
    <3>3. QED BY <3>1, <3>2
  <2>2. QED BY <2>1 DEF StreamInv
<1>3. ASSUME NEW c \in Conns, ClientClose(c) PROVE StreamInv'
  <2>1. UNCHANGED <<inp, rd, cur, sent>> BY <1>3 DEF ClientClose, reqVars, given
  <2>2. QED BY <2>1 DEF StreamInv
<1>4. ASSUME NEW c \in Conns, PeerReset(c) PROVE StreamInv'
  <2>1. UNCHANGED <<inp, rd, cur, sent>> BY <1>4 DEF PeerReset, reqVars, given
  <2>2. QED BY <2>1 DEF StreamInv
<1>5. ASSUME NEW v \in Receivers, RegisterService(v) PROVE StreamInv'
  <2>1. UNCHANGED <<inp, rd, cur, sent>>
    BY <1>5
     DEF RegisterService, reqVars, given
  <2>2. QED BY <2>1 DEF StreamInv
<1>6. ASSUME NEW c \in Conns, ReadOptions(c) PROVE StreamInv'
  <2>1. /\ \A d \in Conns : \A e : e \in Elems(inp'[d]) => e \in Elems(inp[d])
        /\ Stream(c, inp'[c]) /\ \A d \in Conns : d # c => inp'[d] = inp[d]
        /\ UNCHANGED <<cur, sent>>
    BY <1>6, OptionsRead
  <2>2. rd'[c] \in {"header"} /\ \A d \in Conns : d # c => rd'[d] = rd[d]
    BY <1>6, OptionsRead DEF TypeOK
  <2>3. QED BY <2>1, <2>2 DEF StreamInv
<1>7. ASSUME NEW c \in Conns, OptionsFail(c) PROVE StreamInv'
  <2>1. rd' = [rd EXCEPT ![c] = "ended"] /\ UNCHANGED <<inp, sent>>
        /\ \A d \in Conns : d # c => cur'[d] = cur[d]
    BY <1>7 DEF OptionsFail, EndConn, reqVars, given, TypeOK
  <2>2. QED BY <2>1 DEF StreamInv, TypeOK
<1>8. ASSUME NEW c \in Conns, ReadHeader(c) PROVE StreamInv'
  <2>1. PICK r \in Reqs :
          /\ (\A d \in Conns : \A e : e \in Elems(inp'[d]) => e \in Elems(inp[d]))
          /\ cur' = [cur EXCEPT ![c] = r]
          /\ Stream(c, inp'[c]) /\ inp'[c] # <<>> /\ Head(inp'[c]) = BodyOf(r)
          /\ (rd' = [rd EXCEPT ![c] = "body"] \/ rd' = [rd EXCEPT ![c] = "invalid"])
          /\ \A d \in Conns : d # c => inp'[d] = inp[d]
          /\ sent' = sent
    BY <1>8, HeadRead
  <2>2. cur'[c] = r /\ \A d \in Conns : d # c => cur'[d] = cur[d] /\ rd'[d] = rd[d]
    BY <2>1 DEF TypeOK
  <2>3. QED BY <2>1, <2>2 DEF StreamInv
<1>9. ASSUME NEW c \in Conns, ReadHeaderFails(c) PROVE StreamInv'
  <2>1. rd' = [rd EXCEPT ![c] = "ended"] /\ UNCHANGED <<inp, sent>>
        /\ \A d \in Conns : d # c => cur'[d] = cur[d]
    BY <1>9 DEF ReadHeaderFails, EndConn, reqVars, given, TypeOK
  <2>2. QED BY <2>1 DEF StreamInv, TypeOK
<1>10. ASSUME NEW c \in Conns, ReadEof(c) PROVE StreamInv'
  <2>1. rd' = [rd EXCEPT ![c] = "invalid"] /\ UNCHANGED <<inp, sent>>
        /\ \A d \in Conns : d # c => cur'[d] = cur[d]
    BY <1>10 DEF ReadEof, reqVars, given, TypeOK
  <2>2. QED BY <2>1 DEF StreamInv, TypeOK
<1>11. ASSUME NEW c \in Conns, NEW ok \in BOOLEAN, ReadBody(c, ok) PROVE StreamInv'
  <2>1. /\ \A d \in Conns : \A e : e \in Elems(inp'[d]) => e \in Elems(inp[d])
        /\ Stream(c, inp'[c]) /\ \A d \in Conns : d # c => inp'[d] = inp[d]
        /\ UNCHANGED <<cur, sent>>
    BY <1>11, BodyRead
  <2>2. rd'[c] \in {"header", "invalid"} /\ \A d \in Conns : d # c => rd'[d] = rd[d]
    BY <1>11, BodyRead DEF TypeOK
  <2>3. QED BY <2>1, <2>2 DEF StreamInv
<1>12. ASSUME NEW c \in Conns, RefuseHeader(c) PROVE StreamInv'
  <2>1. WriteHeader(c, Reader(c)) BY <1>12 DEF RefuseHeader
  <2>2. UNCHANGED <<inp, rd, cur, sent>> BY <2>1 DEF WriteHeader, given
  <2>3. QED BY <2>2 DEF StreamInv
<1>13. ASSUME NEW c \in Conns, RefuseBody(c) PROVE StreamInv'
  <2>1. rd' = [rd EXCEPT ![c] = "header"] /\ UNCHANGED <<inp, sent>>
        /\ \A d \in Conns : d # c => cur'[d] = cur[d]
    BY <1>13 DEF RefuseBody, WriteBody, given, TypeOK
  <2>2. QED BY <2>1 DEF StreamInv, TypeOK
<1>14. ASSUME NEW r \in Reqs, MethodReturns(r) PROVE StreamInv'
  <2>1. UNCHANGED <<inp, rd, cur, sent>>
    BY <1>14
     DEF MethodReturns, reqVars, given
  <2>2. QED BY <2>1 DEF StreamInv
<1>15. ASSUME NEW r \in Reqs, Called(r) PROVE StreamInv'
  <2>1. UNCHANGED <<inp, rd, cur, sent>>
    BY <1>15
     DEF Called, CalledReceived, reqVars, given
  <2>2. QED BY <2>1 DEF StreamInv
<1>16. ASSUME NEW r \in Reqs, ReplyHeader(r) PROVE StreamInv'
  <2>1. WriteHeader(ConnOf[r], Worker(r)) BY <1>16 DEF ReplyHeader
  <2>2. UNCHANGED <<inp, rd, cur, sent>> BY <2>1 DEF WriteHeader, given
  <2>3. QED BY <2>2 DEF StreamInv
<1>17. ASSUME NEW r \in Reqs, ReplyBody(r) PROVE StreamInv'
  <2>1. UNCHANGED <<inp, rd, cur, sent>> BY <1>17 DEF ReplyBody, WriteBody, given
  <2>2. QED BY <2>1 DEF StreamInv
<1>18. ASSUME NEW r \in Reqs, Sent(r) PROVE StreamInv'
  <2>1. UNCHANGED <<inp, rd, cur, sent>> BY <1>18 DEF Sent, reqVars, given
  <2>2. QED BY <2>1 DEF StreamInv
<1>19. ASSUME NEW r \in Reqs, Timeout(r) PROVE StreamInv'
  <2>1. UNCHANGED <<inp, rd, cur, sent>> BY <1>19 DEF Timeout, reqVars, given
  <2>2. QED BY <2>1 DEF StreamInv
<1>20. ASSUME NEW r \in Reqs, TimeoutHeader(r) PROVE StreamInv'
  <2>1. WriteHeader(ConnOf[r], Handler(r)) BY <1>20 DEF TimeoutHeader
  <2>2. UNCHANGED <<inp, rd, cur, sent>> BY <2>1 DEF WriteHeader, given
  <2>3. QED BY <2>2 DEF StreamInv
<1>21. ASSUME NEW r \in Reqs, TimeoutBody(r) PROVE StreamInv'
  <2>1. UNCHANGED <<inp, rd, cur, sent>>
    BY <1>21
     DEF TimeoutBody, WriteBody, given
  <2>2. QED BY <2>1 DEF StreamInv
<1>22. ASSUME NEW r \in Reqs, Abandon(r) PROVE StreamInv'
  <2>1. UNCHANGED <<inp, rd, cur, sent>>
    BY <1>22
     DEF Abandon, FinishClosed, reqVars, given
  <2>2. QED BY <2>1 DEF StreamInv
<1> QED
  BY <1>1, <1>2, <1>3, <1>4, <1>5, <1>6, <1>7, <1>8, <1>9, <1>10, <1>11,
      <1>12, <1>13, <1>14, <1>15, <1>16, <1>17, <1>18, <1>19, <1>20, <1>21,
      <1>22
  DEF Next, Client, ReaderStep, HandlerStep, WorkerStep

\* Every step keeps a request in one place.
LEMMA StepPhase ==
  ASSUME TypeOK, StreamInv, PhaseInv, [Next]_vars
  PROVE  PhaseInv'
<1>1. CASE UNCHANGED vars
  <2>1. UNCHANGED <<inp, rd, cur, sent, net, hd, wk>>
    BY <1>1
     DEF vars, reqVars, given
  <2>2. QED BY <2>1 DEF PhaseInv, Unread
<1>2. ASSUME NEW r \in Reqs, ClientSend(r) PROVE PhaseInv'
  <2>1. /\ r \notin sent /\ sent' = sent \cup {r} /\ UNCHANGED <<rd, cur, hd, wk, net>>
        /\ \A d \in Conns : Elems(inp'[d]) \subseteq
             Elems(inp[d]) \cup {HeaderOf(r), BodyOf(r)}
    BY <1>2, RequestSent
  <2>2. \A d \in Conns, q \in Reqs : q # r /\ ~Unread(d, q) => ~Unread(d, q)'
    BY <2>1 DEF Unread, HeaderOf, BodyOf
  <2>3. \A d \in Conns : cur[d] # NoReq => cur[d] \in Reqs BY DEF TypeOK
  <2>4. QED BY <2>1, <2>2, <2>3, ServerAssumption DEF PhaseInv
<1>3. ASSUME NEW c \in Conns, ClientClose(c) PROVE PhaseInv'
  <2>1. /\ UNCHANGED <<inp, rd, cur, sent, hd, wk>>
        /\ \A d \in Conns : net'[d] = "open" => net[d] = "open"
    BY <1>3 DEF ClientClose, reqVars, given, TypeOK
  <2>2. QED BY <2>1 DEF PhaseInv, Unread
<1>4. ASSUME NEW c \in Conns, PeerReset(c) PROVE PhaseInv'
  <2>1. /\ UNCHANGED <<inp, rd, cur, sent, hd, wk>>
        /\ \A d \in Conns : net'[d] = "open" => net[d] = "open"
    BY <1>4 DEF PeerReset, reqVars, given, TypeOK
  <2>2. QED BY <2>1 DEF PhaseInv, Unread
<1>5. ASSUME NEW v \in Receivers, RegisterService(v) PROVE PhaseInv'
  <2>1. UNCHANGED <<inp, rd, cur, sent, net, hd, wk>>
    BY <1>5
     DEF RegisterService, reqVars, given
  <2>2. QED BY <2>1 DEF PhaseInv, Unread
<1>6. ASSUME NEW c \in Conns, ReadOptions(c) PROVE PhaseInv'
  <2>1. /\ \A d \in Conns : \A e : e \in Elems(inp'[d]) => e \in Elems(inp[d])
        /\ rd'[c] = "header" /\ \A d \in Conns : d # c => rd'[d] = rd[d]
        /\ UNCHANGED <<cur, sent, net, hd, wk>>
    BY <1>6, OptionsRead DEF TypeOK
  <2>2. \A d \in Conns, q \in Reqs : ~Unread(d, q) => ~Unread(d, q)'
    BY <2>1
     DEF Unread
  <2>3. QED BY <2>1, <2>2, ServerAssumption DEF PhaseInv, TypeOK
<1>7. ASSUME NEW c \in Conns, OptionsFail(c) PROVE PhaseInv'
  <2>1. /\ UNCHANGED <<inp, cur, sent, hd, wk>> /\ rd'[c] = "ended"
        /\ \A d \in Conns : net'[d] = "open" => net[d] = "open"
        /\ \A d \in Conns : d # c => rd'[d] = rd[d]
    BY <1>7 DEF OptionsFail, EndConn, reqVars, given, TypeOK
  <2>2. QED BY <2>1 DEF PhaseInv, Unread
<1>8. ASSUME NEW c \in Conns, ReadHeader(c) PROVE PhaseInv'
  <2>1. PICK r \in Reqs :
          /\ ConnOf[r] = c /\ r \in sent /\ Unread(c, r)
          /\ HeaderOf(r) \notin Elems(inp'[c])
          /\ (\A d \in Conns : \A e : e \in Elems(inp'[d]) => e \in Elems(inp[d]))
          /\ cur' = [cur EXCEPT ![c] = r]
          /\ (rd' = [rd EXCEPT ![c] = "body"] \/ rd' = [rd EXCEPT ![c] = "invalid"])
          /\ UNCHANGED <<sent, hd, wk, net>>
    BY <1>8, HeadRead
  <2>2. /\ cur'[c] = r /\ rd'[c] \in {"body", "invalid"} /\ r # NoReq
        /\ \A d \in Conns : d # c => cur'[d] = cur[d] /\ rd'[d] = rd[d]
    BY <2>1, ServerAssumption DEF TypeOK
  <2>3. hd[r] = "none" BY <2>1 DEF PhaseInv
  <2>4. \A d \in Conns, q \in Reqs : ~Unread(d, q) => ~Unread(d, q)'
    BY <2>1
     DEF Unread
  <2>5. ~Unread(c, r)' BY <2>1 DEF Unread
  <2>6. QED BY <2>1, <2>2, <2>3, <2>4, <2>5, ServerAssumption DEF PhaseInv, TypeOK
<1>9. ASSUME NEW c \in Conns, ReadHeaderFails(c) PROVE PhaseInv'
  <2>1. /\ UNCHANGED <<inp, cur, sent, hd, wk>> /\ rd'[c] = "ended"
        /\ \A d \in Conns : net'[d] = "open" => net[d] = "open"
        /\ \A d \in Conns : d # c => rd'[d] = rd[d]
    BY <1>9 DEF ReadHeaderFails, EndConn, reqVars, given, TypeOK
  <2>2. QED BY <2>1 DEF PhaseInv, Unread
<1>10. ASSUME NEW c \in Conns, ReadEof(c) PROVE PhaseInv'
  <2>1. /\ UNCHANGED <<inp, sent, net, hd, wk>> /\ net[c] = "fin"
        /\ cur'[c] = NoReq /\ rd'[c] = "invalid"
        /\ \A d \in Conns : d # c => rd'[d] = rd[d] /\ cur'[d] = cur[d]
    BY <1>10 DEF ReadEof, reqVars, given, TypeOK
  <2>2. \A d \in Conns, q \in Reqs : ~Unread(d, q) => ~Unread(d, q)'
    BY <2>1
     DEF Unread
  <2>3. net'[c] # "open" /\ cur'[c] = NoReq BY <2>1
  <2>4. \A d \in Conns : cur[d] # NoReq => cur[d] \in Reqs BY DEF TypeOK
  <2>5. QED
    <3> USE <2>1, <2>2, <2>3, <2>4, ServerAssumption DEF PhaseInv
    <3>1. \A d \in Conns : cur'[d] # NoReq => cur'[d] \in sent' /\ ConnOf[cur'[d]] = d /\ ~Unread(d, cur[d])' OBVIOUS
    <3>2. \A d \in Conns : rd'[d] = "body" => cur'[d] # NoReq OBVIOUS
    <3>3. \A d \in Conns : rd'[d] \in {"body", "invalid"} /\ cur'[d] # NoReq => hd'[cur'[d]] = "none" OBVIOUS
    <3>4. \A d \in Conns : rd'[d] = "invalid" /\ cur'[d] = NoReq => net'[d] # "open" OBVIOUS
    <3>5. \A q \in Reqs : hd'[q] # "none" => q \in sent' /\ ~Unread(ConnOf[q], q)' OBVIOUS
    <3>6. \A q \in Reqs : hd'[q] = "none" <=> wk'[q] = "none" OBVIOUS
    <3>7. QED BY <3>1, <3>2, <3>3, <3>4, <3>5, <3>6
<1>11. ASSUME NEW c \in Conns, NEW ok \in BOOLEAN, ReadBody(c, ok) PROVE PhaseInv'
  <2>1. /\ \A d \in Conns : \A e : e \in Elems(inp'[d]) => e \in Elems(inp[d])
        /\ rd[c] = "body" /\ \A d \in Conns : d # c => rd'[d] = rd[d]
        /\ UNCHANGED <<cur, sent, net>>
    BY <1>11, BodyRead DEF TypeOK
  <2>2. cur[c] \in Reqs /\ cur[c] \in sent /\ ConnOf[cur[c]] = c /\ ~Unread(c, cur[c])
    BY <2>1 DEF PhaseInv, TypeOK
  <2>3. \/ /\ hd'[cur[c]] = "select" /\ wk'[cur[c]] = "calling" /\ rd'[c] = "header"
           /\ \A q \in Reqs : q # cur[c] => hd'[q] = hd[q] /\ wk'[q] = wk[q]
        \/ rd'[c] = "invalid" /\ UNCHANGED <<hd, wk>>
    BY <1>11, <2>2, BodyRead DEF TypeOK
  <2>4. \A d \in Conns, q \in Reqs : ~Unread(d, q) => ~Unread(d, q)'
    BY <2>1
     DEF Unread
  <2>5. \A d \in Conns : d # c /\ cur[d] # NoReq =>
          cur[d] \in Reqs /\ cur[d] # cur[c] /\ ConnOf[cur[d]] = d
    BY <2>2 DEF PhaseInv, TypeOK
  <2>6. CASE rd'[c] = "invalid" /\ UNCHANGED <<hd, wk>>
    <3> USE <2>1, <2>2, <2>4, <2>5, <2>6, ServerAssumption DEF PhaseInv
    <3>1. \A d \in Conns : cur'[d] # NoReq => cur'[d] \in sent' /\ ConnOf[cur'[d]] = d /\ ~Unread(d, cur[d])' OBVIOUS
    <3>2. \A d \in Conns : rd'[d] = "body" => cur'[d] # NoReq OBVIOUS
    <3>3. \A d \in Conns : rd'[d] \in {"body", "invalid"} /\ cur'[d] # NoReq => hd'[cur'[d]] = "none" OBVIOUS
    <3>4. \A d \in Conns : rd'[d] = "invalid" /\ cur'[d] = NoReq => net'[d] # "open" OBVIOUS
    <3>5. \A q \in Reqs : hd'[q] # "none" => q \in sent' /\ ~Unread(ConnOf[q], q)' OBVIOUS
    <3>6. \A q \in Reqs : hd'[q] = "none" <=> wk'[q] = "none" OBVIOUS
    <3>7. QED BY <3>1, <3>2, <3>3, <3>4, <3>5, <3>6
  <2>7. CASE /\ hd'[cur[c]] = "select" /\ wk'[cur[c]] = "calling" /\ rd'[c] = "header"
             /\ \A q \in Reqs : q # cur[c] => hd'[q] = hd[q] /\ wk'[q] = wk[q]
    <3> USE <2>1, <2>2, <2>4, <2>5, <2>7, ServerAssumption DEF PhaseInv
    <3>1. \A d \in Conns : cur'[d] # NoReq => cur'[d] \in sent' /\ ConnOf[cur'[d]] = d /\ ~Unread(d, cur[d])' OBVIOUS
    <3>2. \A d \in Conns : rd'[d] = "body" => cur'[d] # NoReq OBVIOUS
    <3>3. \A d \in Conns : rd'[d] \in {"body", "invalid"} /\ cur'[d] # NoReq => hd'[cur'[d]] = "none" OBVIOUS
    <3>4. \A d \in Conns : rd'[d] = "invalid" /\ cur'[d] = NoReq => net'[d] # "open" OBVIOUS
    <3>5. \A q \in Reqs : hd'[q] # "none" => q \in sent' /\ ~Unread(ConnOf[q], q)' OBVIOUS
    <3>6. \A q \in Reqs : hd'[q] = "none" <=> wk'[q] = "none" OBVIOUS
    <3>7. QED BY <3>1, <3>2, <3>3, <3>4, <3>5, <3>6
  <2>8. QED BY <2>3, <2>6, <2>7
<1>12. ASSUME NEW c \in Conns, RefuseHeader(c) PROVE PhaseInv'
  <2>1. WriteHeader(c, Reader(c)) BY <1>12 DEF RefuseHeader
  <2>2. UNCHANGED <<inp, rd, cur, sent, net, hd, wk>>
    BY <2>1
     DEF WriteHeader, given
  <2>3. QED BY <2>2 DEF PhaseInv, Unread
<1>13. ASSUME NEW c \in Conns, RefuseBody(c) PROVE PhaseInv'
  <2>1. /\ UNCHANGED <<inp, cur, sent, hd, wk>> /\ rd'[c] = "header"
        /\ \A d \in Conns : d # c => rd'[d] = rd[d]
        /\ \A d \in Conns : net'[d] = "open" => net[d] = "open"
    BY <1>13 DEF RefuseBody, WriteBody, given, TypeOK
  <2>2. QED BY <2>1 DEF PhaseInv, Unread
<1>14. ASSUME NEW r \in Reqs, MethodReturns(r) PROVE PhaseInv'
  <2>1. /\ UNCHANGED <<inp, rd, cur, sent, net>> /\ hd[r] # "none" /\ wk[r] # "none"
        /\ hd'[r] # "none" /\ wk'[r] # "none"
        /\ \A q \in Reqs : q # r => hd'[q] = hd[q] /\ wk'[q] = wk[q]
    BY <1>14 DEF MethodReturns, reqVars, given, PhaseInv, TypeOK
  <2>2. QED BY <2>1 DEF PhaseInv, Unread, TypeOK
<1>15. ASSUME NEW r \in Reqs, Called(r) PROVE PhaseInv'
  <2>1. /\ UNCHANGED <<inp, rd, cur, sent, net>> /\ hd[r] # "none" /\ wk[r] # "none"
        /\ hd'[r] # "none" /\ wk'[r] # "none"
        /\ \A q \in Reqs : q # r => hd'[q] = hd[q] /\ wk'[q] = wk[q]
    BY <1>15 DEF Called, CalledReceived, reqVars, given, PhaseInv, TypeOK
  <2>2. QED BY <2>1 DEF PhaseInv, Unread, TypeOK
<1>16. ASSUME NEW r \in Reqs, ReplyHeader(r) PROVE PhaseInv'
  <2>1. WriteHeader(ConnOf[r], Worker(r)) BY <1>16 DEF ReplyHeader
  <2>2. UNCHANGED <<inp, rd, cur, sent, net, hd, wk>>
    BY <2>1
     DEF WriteHeader, given
  <2>3. QED BY <2>2 DEF PhaseInv, Unread
<1>17. ASSUME NEW r \in Reqs, ReplyBody(r) PROVE PhaseInv'
  <2>1. /\ UNCHANGED <<inp, rd, cur, sent>> /\ hd[r] # "none" /\ wk[r] # "none"
        /\ hd'[r] # "none" /\ wk'[r] # "none"
        /\ \A q \in Reqs : q # r => hd'[q] = hd[q] /\ wk'[q] = wk[q]
    BY <1>17 DEF ReplyBody, WriteBody, PhaseInv, TypeOK, given
  <2>2. \A d \in Conns : net'[d] = "open" => net[d] = "open"
    BY <1>17 DEF ReplyBody, WriteBody, TypeOK
  <2>3. QED BY <2>1, <2>2 DEF PhaseInv, Unread, TypeOK
<1>18. ASSUME NEW r \in Reqs, Sent(r) PROVE PhaseInv'
  <2>1. /\ UNCHANGED <<inp, rd, cur, sent, net>> /\ hd[r] # "none" /\ wk[r] # "none"
        /\ hd'[r] # "none" /\ wk'[r] # "none"
        /\ \A q \in Reqs : q # r => hd'[q] = hd[q] /\ wk'[q] = wk[q]
    BY <1>18 DEF Sent, reqVars, given, PhaseInv, TypeOK
  <2>2. QED BY <2>1 DEF PhaseInv, Unread, TypeOK
<1>19. ASSUME NEW r \in Reqs, Timeout(r) PROVE PhaseInv'
  <2>1. /\ UNCHANGED <<inp, rd, cur, sent, net>> /\ hd[r] # "none" /\ wk[r] # "none"
        /\ hd'[r] # "none" /\ wk'[r] # "none"
        /\ \A q \in Reqs : q # r => hd'[q] = hd[q] /\ wk'[q] = wk[q]
    BY <1>19 DEF Timeout, reqVars, given, PhaseInv, TypeOK
  <2>2. QED BY <2>1 DEF PhaseInv, Unread, TypeOK
<1>20. ASSUME NEW r \in Reqs, TimeoutHeader(r) PROVE PhaseInv'
  <2>1. WriteHeader(ConnOf[r], Handler(r)) BY <1>20 DEF TimeoutHeader
  <2>2. UNCHANGED <<inp, rd, cur, sent, net, hd, wk>>
    BY <2>1
     DEF WriteHeader, given
  <2>3. QED BY <2>2 DEF PhaseInv, Unread
<1>21. ASSUME NEW r \in Reqs, TimeoutBody(r) PROVE PhaseInv'
  <2>1. /\ UNCHANGED <<inp, rd, cur, sent>> /\ hd[r] # "none" /\ wk[r] # "none"
        /\ hd'[r] # "none" /\ wk'[r] # "none"
        /\ \A q \in Reqs : q # r => hd'[q] = hd[q] /\ wk'[q] = wk[q]
    BY <1>21 DEF TimeoutBody, WriteBody, PhaseInv, TypeOK, given
  <2>2. \A d \in Conns : net'[d] = "open" => net[d] = "open"
    BY <1>21 DEF TimeoutBody, WriteBody, TypeOK
  <2>3. QED BY <2>1, <2>2 DEF PhaseInv, Unread, TypeOK
<1>22. ASSUME NEW r \in Reqs, Abandon(r) PROVE PhaseInv'
  <2>1. /\ UNCHANGED <<inp, rd, cur, sent, net>> /\ hd[r] # "none" /\ wk[r] # "none"
        /\ hd'[r] # "none" /\ wk'[r] # "none"
        /\ \A q \in Reqs : q # r => hd'[q] = hd[q] /\ wk'[q] = wk[q]
    BY <1>22 DEF Abandon, FinishClosed, reqVars, given, PhaseInv, TypeOK
  <2>2. QED BY <2>1 DEF PhaseInv, Unread, TypeOK
<1> QED
  BY <1>1, <1>2, <1>3, <1>4, <1>5, <1>6, <1>7, <1>8, <1>9, <1>10, <1>11,
      <1>12, <1>13, <1>14, <1>15, <1>16, <1>17, <1>18, <1>19, <1>20, <1>21,
      <1>22
  DEF Next, Client, ReaderStep, HandlerStep, WorkerStep

Whole == WholeInv /\ AnsweredOnce /\ ResponsesWhole

LEMMA OutFacts ==
  ASSUME TypeOK, NEW c \in Conns
  PROVE  /\ Len(out[c]) \in Nat /\ DOMAIN out[c] = 1 .. Len(out[c])
         /\ \A i \in DOMAIN out[c] : out[c][i] \in Parts
<1>1. out[c] \in Seq(Parts) BY DEF TypeOK
<1>2. QED BY <1>1, SeqFacts

\* A step that writes nothing.
LEMMA WholeQuiet ==
  ASSUME Whole, UNCHANGED <<out, lock>>,
         \A c \in Conns : net'[c] = "open" => net[c] = "open"
  PROVE  Whole'
BY DEF Whole, WholeInv, AnsweredOnce, ResponsesWhole

\* What may follow what is written.
LEMMA WholeEmits ==
  ASSUME TypeOK, Whole, NEW c \in Conns, NEW r \in Reqs \cup {NoReq},
         NEW part \in {"header", "body"}, Emit(c, r, part), net[c] = "open",
         [req |-> r, part |-> part] \notin Elems(out[c]),
         part = "header" => lock[c] = Free,
         part = "body" => lock[c] # Free /\ lock[c][2] = r
  PROVE  /\ AnsweredOnce' /\ ResponsesWhole'
         /\ part = "header" => Len(out'[c]) % 2 = 1
         /\ part = "body" => Len(out'[c]) % 2 = 0
         /\ out'[c][Len(out'[c])] = [req |-> r, part |-> part]
<1> DEFINE n == Len(out[c])
<1> DEFINE p == [req |-> r, part |-> part]
<1>1. /\ n \in Nat /\ DOMAIN out[c] = 1 .. n /\ Len(out'[c]) = n + 1
      /\ DOMAIN out'[c] = 1 .. n + 1 /\ out'[c][n + 1] = p
      /\ \A i \in DOMAIN out[c] : out'[c][i] = out[c][i]
      /\ \A d \in Conns : d # c => out'[d] = out[d]
  BY Emitted
<1>2. /\ part = "header" => n % 2 = 0
      /\ part = "body" => n % 2 = 1 /\ out[c][n] = HeaderOf(r)
  BY DEF Whole, WholeInv
<1>3. p.part = part /\ p.req = r /\ HeaderOf(r).req = r BY DEF HeaderOf
<1>4. p \notin Elems(out[c]) OBVIOUS
<1> HIDE DEF n, p
<1>5. DOMAIN out'[c] = DOMAIN out[c] \cup {n + 1} /\ n + 1 \notin DOMAIN out[c]
  BY <1>1
<1>6. AnsweredOnce'
  <2>1. \A i \in DOMAIN out[c] : out[c][i] # p BY <1>4 DEF Elems
  <2>2. ASSUME NEW i \in DOMAIN out'[c], NEW j \in DOMAIN out'[c],
               out'[c][i] = out'[c][j]
        PROVE  i = j
    <3>1. CASE i \in DOMAIN out[c] /\ j \in DOMAIN out[c]
      BY <1>1, <2>2, <3>1 DEF Whole, AnsweredOnce
    <3>2. CASE i = n + 1 /\ j = n + 1 BY <3>2
    <3>3. QED BY <1>1, <1>5, <2>1, <2>2, <3>1, <3>2
  <2>3. QED BY <1>1, <2>2 DEF Whole, AnsweredOnce
<1>7. ASSUME NEW i \in DOMAIN out'[c]
      PROVE  /\ out'[c][i].part = IF i % 2 = 1 THEN "header" ELSE "body"
             /\ i % 2 = 0 => out'[c][i].req = out'[c][i - 1].req
  <2>1. CASE i \in DOMAIN out[c]
    <3>1. /\ out[c][i].part = IF i % 2 = 1 THEN "header" ELSE "body"
          /\ i % 2 = 0 => out[c][i].req = out[c][i - 1].req
      BY <2>1 DEF Whole, ResponsesWhole
    <3>2. i % 2 = 0 => i - 1 \in DOMAIN out[c] BY <1>1, <2>1
    <3>3. QED BY <1>1, <2>1, <3>1, <3>2
  <2>2. CASE i = n + 1
    <3>1. out'[c][i] = p BY <1>1, <2>2
    <3>2. CASE part = "header"
      <4>1. i % 2 = 1 BY <1>1, <1>2, <2>2, <3>2
      <4>2. QED BY <1>3, <3>1, <3>2, <4>1
    <3>3. CASE part = "body"
      <4>1. i % 2 = 0 /\ n \in DOMAIN out[c] /\ i - 1 = n
        BY <1>1, <1>2, <2>2, <3>3
      <4>2. out'[c][i - 1] = HeaderOf(r) BY <1>1, <1>2, <3>3, <4>1
      <4>3. QED BY <1>3, <3>1, <3>3, <4>1, <4>2
    <3>4. QED BY <3>2, <3>3
  <2>3. QED BY <1>5, <2>1, <2>2
<1>8. ResponsesWhole'
  <2>1. ASSUME NEW d \in Conns, d # c, NEW i \in DOMAIN out'[d]
        PROVE  /\ out'[d][i].part = IF i % 2 = 1 THEN "header" ELSE "body"
               /\ i % 2 = 0 => out'[d][i].req = out'[d][i - 1].req
    <3>1. out'[d] = out[d] BY <1>1, <2>1
    <3>2. QED BY <2>1, <3>1 DEF Whole, ResponsesWhole
  <2>2. QED BY <1>7, <2>1 DEF ResponsesWhole
<1>9. (n % 2 = 0 => (n + 1) % 2 = 1) /\ (n % 2 = 1 => (n + 1) % 2 = 0) BY <1>1
<1>10. QED BY <1>1, <1>2, <1>6, <1>8, <1>9 DEF p

LEMMA SilentNet ==
  ASSUME TypeOK, NEW c \in Conns, NEW r, NEW part, Emit(c, r, part), net[c] # "open"
  PROVE  out' = out
BY DEF Emit, TypeOK

LEMMA WholeHeader ==
  ASSUME TypeOK, Whole, NEW c \in Conns, NEW w \in Writers, w[2] \in Reqs \cup {NoReq},
         w # Free, WriteHeader(c, w),
         net[c] = "open" => HeaderOf(w[2]) \notin Elems(out[c])
  PROVE  Whole'
<1>1. /\ lock[c] = Free /\ lock'[c] = w /\ net' = net /\ Emit(c, w[2], "header")
      /\ \A d \in Conns : d # c => lock'[d] = lock[d]
  BY HeaderWritten DEF TypeOK
<1>2. \A d \in Conns : d # c => out'[d] = out[d] BY <1>1, Emitted
<1>3. CASE net[c] # "open"
  <2>1. out' = out BY <1>1, <1>3, SilentNet
  <2>2. WholeInv' BY <1>1, <1>3, <2>1 DEF Whole, WholeInv
  <2>3. QED BY <2>1, <2>2 DEF Whole, AnsweredOnce, ResponsesWhole
<1>4. CASE net[c] = "open"
  <2>1. /\ AnsweredOnce' /\ ResponsesWhole' /\ Len(out'[c]) % 2 = 1
        /\ out'[c][Len(out'[c])] = HeaderOf(w[2])
    BY <1>1, <1>4, WholeEmits DEF HeaderOf
  <2>2. QED BY <1>1, <1>2, <2>1 DEF Whole, WholeInv
<1>5. QED BY <1>3, <1>4

LEMMA WholeBody ==
  ASSUME TypeOK, Whole, NEW c \in Conns, NEW w \in Writers, w[2] \in Reqs \cup {NoReq},
         w # Free, WriteBody(c, w),
         net[c] = "open" => BodyOf(w[2]) \notin Elems(out[c])
  PROVE  Whole'
<1>1. /\ lock[c] = w /\ lock'[c] = Free
      /\ \A d \in Conns : d # c => lock'[d] = lock[d]
  BY BodyWritten DEF TypeOK
<1>2. CASE out' = out /\ net' = [net EXCEPT ![c] = "closed"]
  <2>1. net'[c] # "open" /\ \A d \in Conns : d # c => net'[d] = net[d]
    BY <1>2 DEF TypeOK
  <2>2. WholeInv' BY <1>1, <1>2, <2>1 DEF Whole, WholeInv
  <2>3. QED BY <1>2, <2>2 DEF Whole, AnsweredOnce, ResponsesWhole
<1>3. CASE Emit(c, w[2], "body") /\ net' = net
  <2>1. \A d \in Conns : d # c => out'[d] = out[d] BY <1>3, Emitted
  <2>2. CASE net[c] # "open"
    <3>1. out' = out BY <1>3, <2>2, SilentNet
    <3>2. WholeInv' BY <1>1, <1>3, <2>2, <3>1 DEF Whole, WholeInv
    <3>3. QED BY <3>1, <3>2 DEF Whole, AnsweredOnce, ResponsesWhole
  <2>3. CASE net[c] = "open"
    <3>1. /\ AnsweredOnce' /\ ResponsesWhole' /\ Len(out'[c]) % 2 = 0
      BY <1>1, <1>3, <2>3, WholeEmits DEF BodyOf
    <3>2. QED BY <1>1, <1>3, <2>1, <3>1 DEF Whole, WholeInv
  <2>4. QED BY <2>2, <2>3
<1>4. QED BY <1>2, <1>3, BodyWritten

------------------------------------------------------------------------------
(* Who answers.                                                            *)

LEMMA WritersDiffer ==
  /\ \A c \in Conns : Reader(c) # Free
  /\ \A r \in Reqs : Handler(r) # Free /\ Worker(r) # Free /\ Handler(r) # Worker(r)
  /\ \A c \in Conns, r \in Reqs : Reader(c) # Handler(r) /\ Reader(c) # Worker(r)
BY DEF Reader, Handler, Worker, Free

\* Only one of reader, handler and worker answers a request, and nobody does
\* before it is read.
LEMMA Exclusive ==
  ASSUME TypeOK, PhaseInv, NEW r \in Reqs, NEW w, Answers(w, r)
  PROVE  /\ w \in Writers /\ w[2] = r /\ w # Free /\ r \in sent
         /\ ~Waiting(r)
         /\ \A x : Answers(x, r) => x = w
<1>1. ConnOf[r] \in Conns /\ r # NoReq BY ServerAssumption
<1>2. \/ w = Reader(ConnOf[r]) /\ rd[ConnOf[r]] = "invalid" /\ cur[ConnOf[r]] = r
      \/ w = Handler(r) /\ hd[r] = "timeout"
      \/ w = Worker(r) /\ wk[r] = "write" /\ hd[r] = "wait"
  BY DEF Answers, TypeOK
<1>3. w \in Writers /\ w[2] = r /\ w # Free
  BY <1>1, <1>2, Refused, Replied, WritersDiffer
<1>4. rd[ConnOf[r]] \in {"body", "invalid"} /\ cur[ConnOf[r]] = r =>
        hd[r] = "none" /\ wk[r] = "none" /\ r \in sent /\ ~Unread(ConnOf[r], r)
  BY <1>1 DEF PhaseInv
<1>5. hd[r] # "none" => r \in sent /\ ~Unread(ConnOf[r], r) BY DEF PhaseInv
<1>6. r \in sent /\ ~Waiting(r) BY <1>2, <1>4, <1>5 DEF Waiting
<1>7. ASSUME NEW x, Answers(x, r) PROVE x = w
  <2>1. \/ x = Reader(ConnOf[r]) /\ rd[ConnOf[r]] = "invalid" /\ cur[ConnOf[r]] = r
        \/ x = Handler(r) /\ hd[r] = "timeout"
        \/ x = Worker(r) /\ wk[r] = "write" /\ hd[r] = "wait"
    BY <1>7 DEF Answers, TypeOK
  <2>2. QED BY <1>2, <1>4, <2>1
<1>8. QED BY <1>3, <1>6, <1>7

LEMMA QuietAnswer ==
  ASSUME TypeOK, AnswerInv, UNCHANGED <<out, lock>>, sent \subseteq sent',
         \A r \in Reqs : Waiting(r)' => Waiting(r) \/ r \notin sent,
         \A r \in Reqs, w \in Writers : Answers(w, r)' => Answers(w, r) \/ Waiting(r)
  PROVE  AnswerInv'
<1>1. \A c \in Conns : \A e \in Elems(out'[c]) : e.req \in sent' /\ ConnOf[e.req] = c
  BY DEF AnswerInv
<1>2. ASSUME NEW r \in Reqs, Waiting(r)' PROVE Silent(r)'
  <2>1. ASSUME r \notin sent PROVE Silent(r)
    BY <2>1, ServerAssumption DEF AnswerInv, Silent, Has, HeaderOf, BodyOf
  <2>2. Silent(r) BY <1>2, <2>1 DEF AnswerInv
  <2>3. QED BY <2>2 DEF Silent, Has
<1>3. ASSUME NEW r \in Reqs, NEW w \in Writers, Answers(w, r)' PROVE Writes(w, r)'
  <2>1. Writes(w, r) BY <1>3 DEF AnswerInv, Silent, Writes
  <2>2. QED BY <2>1 DEF Writes, Has
<1>4. QED BY <1>1, <1>2, <1>3 DEF AnswerInv

\* What a part that is written adds.
LEMMA EmittedElems ==
  ASSUME TypeOK, NEW c \in Conns, NEW q \in Reqs \cup {NoReq},
         NEW part \in {"header", "body"}, Emit(c, q, part),
         NEW d \in Conns, NEW e, e \in Elems(out'[d])
  PROVE  e \in Elems(out[d]) \/ (d = c /\ e = [req |-> q, part |-> part] /\ net[c] = "open")
<1> DEFINE p == [req |-> q, part |-> part]
<1>1. /\ \A b \in Conns : b # c => out'[b] = out[b]
      /\ net[c] # "open" => out'[c] = out[c]
      /\ net[c] = "open" =>
           /\ Len(out'[c]) = Len(out[c]) + 1
           /\ out'[c][Len(out[c]) + 1] = p
           /\ \A i \in DOMAIN out[c] : out'[c][i] = out[c][i]
      /\ Len(out[c]) \in Nat /\ DOMAIN out[c] = 1 .. Len(out[c])
      /\ DOMAIN out'[c] = 1 .. Len(out'[c])
  BY Emitted
<1> HIDE DEF p
<1>2. CASE d # c \/ net[c] # "open" BY <1>1, <1>2
<1>3. CASE d = c /\ net[c] = "open"
  <2>1. PICK i \in DOMAIN out'[c] : e = out'[c][i] BY <1>3 DEF Elems
  <2>2. i \in DOMAIN out[c] \/ i = Len(out[c]) + 1 BY <1>1, <1>3
  <2>3. QED BY <1>1, <1>3, <2>1, <2>2 DEF Elems, p
<1>4. QED BY <1>2, <1>3

LEMMA HeaderAnswer ==
  ASSUME TypeOK, PhaseInv, AnswerInv, Whole, NEW c \in Conns, NEW w \in Writers,
         w[2] \in Reqs \cup {NoReq}, w # Free, WriteHeader(c, w),
         net[c] = "open" => w[2] \in Reqs,
         w[2] \in Reqs => ConnOf[w[2]] = c /\ Answers(w, w[2])
  PROVE  AnswerInv' /\ Whole'
<1>1. /\ lock[c] = Free /\ lock' = [lock EXCEPT ![c] = w] /\ Emit(c, w[2], "header")
      /\ UNCHANGED <<rd, cur, inp, net, hd, wk, sent>>
  BY HeaderWritten
<1>2. lock'[c] = w /\ \A d \in Conns : d # c => lock'[d] = lock[d]
  BY <1>1
   DEF TypeOK
<1>3. \A d \in Conns : \A e : e \in Elems(out'[d]) =>
        \/ e \in Elems(out[d])
        \/ d = c /\ e = HeaderOf(w[2]) /\ w[2] \in Reqs
  BY <1>1, EmittedElems DEF HeaderOf
<1>4. w[2] \in Reqs => Writes(w, w[2]) /\ w[2] \in sent /\ ~Waiting(w[2])
  BY Exclusive DEF AnswerInv
<1>5. \A r \in Reqs : \A x : (Waiting(r)' => Waiting(r)) /\ (Answers(x, r)' => Answers(x, r))
  BY <1>1 DEF Waiting, Answers, Unread, Reader
<1>6. \A d \in Conns : \A e \in Elems(out'[d]) : e.req \in sent' /\ ConnOf[e.req] = d
  BY <1>1, <1>3, <1>4 DEF AnswerInv, HeaderOf
<1>7. ASSUME NEW r \in Reqs, r # w[2], NEW part \in {"header", "body"},
             Has(r, [req |-> r, part |-> part])'
      PROVE  Has(r, [req |-> r, part |-> part])
  BY <1>3, <1>7, ServerAssumption DEF Has, HeaderOf
<1>8. ASSUME NEW r \in Reqs, Waiting(r)' PROVE Silent(r)'
  <2>1. r # w[2] /\ Silent(r) BY <1>4, <1>5, <1>8 DEF AnswerInv
  <2>2. QED BY <1>7, <2>1 DEF Silent, HeaderOf, BodyOf
<1>9. ASSUME NEW r \in Reqs, NEW x \in Writers, Answers(x, r)' PROVE Writes(x, r)'
  <2>1. Answers(x, r) /\ Writes(x, r) BY <1>5, <1>9 DEF AnswerInv
  <2>2. CASE r = w[2]
    <3>1. x = w BY <2>1, <2>2, Exclusive
    <3>2. ~Has(r, BodyOf(r))'
      BY <1>3, <2>1, <2>2, ServerAssumption DEF Has, Writes, HeaderOf, BodyOf
    <3>3. QED BY <1>2, <2>2, <3>1, <3>2 DEF Writes
  <2>3. CASE r # w[2]
    <3>1. ConnOf[r] \in Conns BY ServerAssumption
    <3>2. x # Free BY <2>1, Exclusive
    <3>3. CASE ConnOf[r] = c
      <4>1. ~Has(r, HeaderOf(r)) BY <1>1, <2>1, <3>2, <3>3 DEF Writes
      <4>2. QED BY <1>7, <2>1, <2>3, <4>1 DEF Writes, HeaderOf, BodyOf
    <3>4. CASE ConnOf[r] # c
      <4>1. lock'[ConnOf[r]] = lock[ConnOf[r]] BY <1>2, <3>1, <3>4
      <4>2. QED BY <1>7, <2>1, <2>3, <4>1 DEF Writes, HeaderOf, BodyOf
    <3>5. QED BY <3>3, <3>4
  <2>4. QED BY <2>2, <2>3
<1>10. AnswerInv' BY <1>6, <1>8, <1>9 DEF AnswerInv
<1>11. Whole'
  <2>1. net[c] = "open" => HeaderOf(w[2]) \notin Elems(out[c])
    BY <1>1, <1>4 DEF Writes, Has
  <2>2. QED BY <2>1, WholeHeader
<1>12. QED BY <1>10, <1>11

LEMMA BodyAnswer ==
  ASSUME TypeOK, PhaseInv, AnswerInv, Whole, NEW c \in Conns, NEW w \in Writers,
         w[2] \in Reqs \cup {NoReq}, w # Free, WriteBody(c, w),
         net[c] = "open" => w[2] \in Reqs,
         w[2] \in Reqs => ConnOf[w[2]] = c /\ Answers(w, w[2]),
         \A r \in Reqs : Waiting(r)' => Waiting(r),
         \A r \in Reqs, x \in Writers : Answers(x, r)' => Answers(x, r) /\ r # w[2]
  PROVE  AnswerInv' /\ Whole'
<1>1. /\ lock[c] = w /\ lock' = [lock EXCEPT ![c] = Free] /\ sent' = sent
      /\ out' = out \/ Emit(c, w[2], "body")
  BY BodyWritten
<1>2. \A d \in Conns : d # c => lock'[d] = lock[d] BY <1>1 DEF TypeOK
<1>3. \A d \in Conns : \A e : e \in Elems(out'[d]) =>
        \/ e \in Elems(out[d])
        \/ d = c /\ e = BodyOf(w[2]) /\ w[2] \in Reqs
  BY <1>1, EmittedElems DEF BodyOf
<1>4. w[2] \in Reqs => Writes(w, w[2]) /\ w[2] \in sent /\ ~Waiting(w[2])
  BY Exclusive DEF AnswerInv
<1>5. \A d \in Conns : \A e \in Elems(out'[d]) : e.req \in sent' /\ ConnOf[e.req] = d
  BY <1>1, <1>3, <1>4 DEF AnswerInv, BodyOf
<1>6. ASSUME NEW r \in Reqs, r # w[2], NEW part \in {"header", "body"},
             Has(r, [req |-> r, part |-> part])'
      PROVE  Has(r, [req |-> r, part |-> part])
  BY <1>3, <1>6, ServerAssumption DEF Has, BodyOf
<1>7. ASSUME NEW r \in Reqs, Waiting(r)' PROVE Silent(r)'
  <2>1. r # w[2] /\ Silent(r) BY <1>4, <1>7 DEF AnswerInv
  <2>2. QED BY <1>6, <2>1 DEF Silent, HeaderOf, BodyOf
<1>8. ASSUME NEW r \in Reqs, NEW x \in Writers, Answers(x, r)' PROVE Writes(x, r)'
  <2>1. Answers(x, r) /\ Writes(x, r) /\ r # w[2] BY <1>8 DEF AnswerInv
  <2>2. ConnOf[r] \in Conns /\ x[2] = r BY <2>1, Exclusive, ServerAssumption
  <2>3. CASE ConnOf[r] = c
    <3>1. ~Has(r, HeaderOf(r)) BY <1>1, <2>1, <2>2, <2>3 DEF Writes
    <3>2. QED BY <1>6, <2>1, <3>1 DEF Writes, HeaderOf, BodyOf
  <2>4. CASE ConnOf[r] # c
    <3>1. lock'[ConnOf[r]] = lock[ConnOf[r]] BY <1>2, <2>2, <2>4
    <3>2. QED BY <1>6, <2>1, <3>1 DEF Writes, HeaderOf, BodyOf
  <2>5. QED BY <2>3, <2>4
<1>9. AnswerInv' BY <1>5, <1>7, <1>8 DEF AnswerInv
<1>10. Whole'
  <2>1. net[c] = "open" => BodyOf(w[2]) \notin Elems(out[c])
    BY <1>4 DEF Writes, Has
  <2>2. QED BY <2>1, WholeBody
<1>11. QED BY <1>9, <1>10

\* Every step answers no request twice and writes whole answers.
LEMMA StepAnswer ==
  ASSUME TypeOK, StreamInv, PhaseInv, AnswerInv, Whole, [Next]_vars
  PROVE  (AnswerInv /\ Whole)'
<1>1. CASE UNCHANGED vars
  <2>1. /\ UNCHANGED <<out, lock, sent, rd, cur, inp, hd, wk>>
        /\ \A d \in Conns : net'[d] = "open" => net[d] = "open"
    BY <1>1 DEF vars, reqVars, given, TypeOK
  <2>2. /\ \A q \in Reqs : Waiting(q)' => Waiting(q)
        /\ \A q \in Reqs, w \in Writers : Answers(w, q)' => Answers(w, q)
    BY <2>1 DEF Waiting, Answers, Unread, Reader
  <2>3. QED BY <2>1, <2>2, QuietAnswer, WholeQuiet
<1>2. ASSUME NEW r \in Reqs, ClientSend(r) PROVE (AnswerInv /\ Whole)'
  <2>1. /\ r \notin sent /\ sent' = sent \cup {r}
        /\ UNCHANGED <<rd, cur, hd, wk, out, lock, net>>
        /\ \A d \in Conns : Elems(inp'[d]) \subseteq
             Elems(inp[d]) \cup {HeaderOf(r), BodyOf(r)}
    BY <1>2, RequestSent
  <2>2. \A q \in Reqs : Waiting(q)' => Waiting(q) \/ q \notin sent
    BY <2>1, ServerAssumption DEF Waiting, Unread, HeaderOf, BodyOf
  <2>3. \A q \in Reqs, w \in Writers : Answers(w, q)' => Answers(w, q)
    BY <2>1 DEF Answers, Reader
  <2>4. QED BY <2>1, <2>2, <2>3, QuietAnswer, WholeQuiet
<1>3. ASSUME NEW c \in Conns, ClientClose(c) PROVE (AnswerInv /\ Whole)'
  <2>1. /\ UNCHANGED <<out, lock, sent, rd, cur, inp, hd, wk>>
        /\ \A d \in Conns : net'[d] = "open" => net[d] = "open"
    BY <1>3 DEF ClientClose, reqVars, given, TypeOK
  <2>2. /\ \A q \in Reqs : Waiting(q)' => Waiting(q)
        /\ \A q \in Reqs, w \in Writers : Answers(w, q)' => Answers(w, q)
    BY <2>1 DEF Waiting, Answers, Unread, Reader
  <2>3. QED BY <2>1, <2>2, QuietAnswer, WholeQuiet
<1>4. ASSUME NEW c \in Conns, PeerReset(c) PROVE (AnswerInv /\ Whole)'
  <2>1. /\ UNCHANGED <<out, lock, sent, rd, cur, inp, hd, wk>>
        /\ \A d \in Conns : net'[d] = "open" => net[d] = "open"
    BY <1>4 DEF PeerReset, reqVars, given, TypeOK
  <2>2. /\ \A q \in Reqs : Waiting(q)' => Waiting(q)
        /\ \A q \in Reqs, w \in Writers : Answers(w, q)' => Answers(w, q)
    BY <2>1 DEF Waiting, Answers, Unread, Reader
  <2>3. QED BY <2>1, <2>2, QuietAnswer, WholeQuiet
<1>5. ASSUME NEW v \in Receivers, RegisterService(v) PROVE (AnswerInv /\ Whole)'
  <2>1. /\ UNCHANGED <<out, lock, sent, rd, cur, inp, hd, wk>>
        /\ \A d \in Conns : net'[d] = "open" => net[d] = "open"
    BY <1>5 DEF RegisterService, reqVars, given, TypeOK
  <2>2. /\ \A q \in Reqs : Waiting(q)' => Waiting(q)
        /\ \A q \in Reqs, w \in Writers : Answers(w, q)' => Answers(w, q)
    BY <2>1 DEF Waiting, Answers, Unread, Reader
  <2>3. QED BY <2>1, <2>2, QuietAnswer, WholeQuiet
<1>6. ASSUME NEW c \in Conns, ReadOptions(c) PROVE (AnswerInv /\ Whole)'
  <2>1. /\ (\A d \in Conns : \A e : e \in Elems(inp'[d]) => e \in Elems(inp[d]))
        /\ rd'[c] = "header" /\ (\A d \in Conns : d # c => rd'[d] = rd[d])
        /\ UNCHANGED <<out, lock, sent, cur, hd, wk, net>>
    BY <1>6, OptionsRead DEF TypeOK
  <2>2. /\ \A q \in Reqs : Waiting(q)' => Waiting(q)
        /\ \A q \in Reqs, w \in Writers : Answers(w, q)' => Answers(w, q)
    BY <2>1, ServerAssumption DEF Waiting, Answers, Unread, Reader
  <2>3. QED BY <2>1, <2>2, QuietAnswer, WholeQuiet
<1>7. ASSUME NEW c \in Conns, OptionsFail(c) PROVE (AnswerInv /\ Whole)'
  <2>1. /\ UNCHANGED <<out, lock, sent, cur, inp, hd, wk>> /\ rd'[c] = "ended"
        /\ \A d \in Conns : d # c => rd'[d] = rd[d]
        /\ \A d \in Conns : net'[d] = "open" => net[d] = "open"
    BY <1>7 DEF OptionsFail, EndConn, reqVars, given, TypeOK
  <2>2. /\ \A q \in Reqs : Waiting(q)' => Waiting(q)
        /\ \A q \in Reqs, w \in Writers : Answers(w, q)' => Answers(w, q)
    BY <2>1, ServerAssumption DEF Waiting, Answers, Unread, Reader
  <2>3. QED BY <2>1, <2>2, QuietAnswer, WholeQuiet
<1>8. ASSUME NEW c \in Conns, ReadHeader(c) PROVE (AnswerInv /\ Whole)'
  <2>1. PICK r \in Reqs :
          /\ ConnOf[r] = c /\ Unread(c, r)
          /\ (\A d \in Conns : \A e : e \in Elems(inp'[d]) => e \in Elems(inp[d]))
          /\ cur' = [cur EXCEPT ![c] = r]
          /\ (rd' = [rd EXCEPT ![c] = "body"] \/ rd' = [rd EXCEPT ![c] = "invalid"])
          /\ UNCHANGED <<out, lock, sent, hd, wk, net>>
    BY <1>8, HeadRead
  <2>2. /\ cur'[c] = r /\ Waiting(r)
        /\ \A d \in Conns : d # c => cur'[d] = cur[d] /\ rd'[d] = rd[d]
    BY <2>1 DEF TypeOK, Waiting
  <2>3. \A q \in Reqs : Waiting(q)' => Waiting(q)
    BY <2>1, <2>2, ServerAssumption DEF Waiting, Unread
  <2>4. \A q \in Reqs, w \in Writers : Answers(w, q)' => Answers(w, q) \/ Waiting(q)
    BY <2>1, <2>2, ServerAssumption DEF Answers, Reader
  <2>5. QED BY <2>1, <2>3, <2>4, QuietAnswer, WholeQuiet
<1>9. ASSUME NEW c \in Conns, ReadHeaderFails(c) PROVE (AnswerInv /\ Whole)'
  <2>1. /\ UNCHANGED <<out, lock, sent, cur, inp, hd, wk>> /\ rd'[c] = "ended"
        /\ \A d \in Conns : d # c => rd'[d] = rd[d]
        /\ \A d \in Conns : net'[d] = "open" => net[d] = "open"
    BY <1>9 DEF ReadHeaderFails, EndConn, reqVars, given, TypeOK
  <2>2. /\ \A q \in Reqs : Waiting(q)' => Waiting(q)
        /\ \A q \in Reqs, w \in Writers : Answers(w, q)' => Answers(w, q)
    BY <2>1, ServerAssumption DEF Waiting, Answers, Unread, Reader
  <2>3. QED BY <2>1, <2>2, QuietAnswer, WholeQuiet
<1>10. ASSUME NEW c \in Conns, ReadEof(c) PROVE (AnswerInv /\ Whole)'
  <2>1. /\ UNCHANGED <<out, lock, sent, inp, hd, wk, net>>
        /\ cur'[c] = NoReq /\ rd'[c] = "invalid"
        /\ \A d \in Conns : d # c => rd'[d] = rd[d] /\ cur'[d] = cur[d]
    BY <1>10 DEF ReadEof, reqVars, given, TypeOK
  <2>2. /\ \A q \in Reqs : Waiting(q)' => Waiting(q)
        /\ \A q \in Reqs, w \in Writers : Answers(w, q)' => Answers(w, q)
    BY <2>1, ServerAssumption DEF Waiting, Answers, Unread, Reader
  <2>3. QED BY <2>1, <2>2, QuietAnswer, WholeQuiet
<1>11. ASSUME NEW c \in Conns, NEW ok \in BOOLEAN, ReadBody(c, ok) PROVE (AnswerInv /\ Whole)'
  <2>0. \A d \in Conns : d # c => rd'[d] = rd[d] BY <1>11, BodyRead DEF TypeOK
  <2>1. /\ (\A d \in Conns : \A e : e \in Elems(inp'[d]) => e \in Elems(inp[d]))
        /\ rd[c] = "body" /\ (\A d \in Conns : d # c => rd'[d] = rd[d])
        /\ UNCHANGED <<out, lock, sent, cur, net>>
    BY <1>11, <2>0, BodyRead
  <2>2. cur[c] \in Reqs /\ ConnOf[cur[c]] = c /\ Waiting(cur[c])
    BY <2>1 DEF PhaseInv, TypeOK, Waiting
  <2>3. \/ /\ hd'[cur[c]] = "select" /\ wk'[cur[c]] = "calling" /\ rd'[c] = "header"
           /\ \A q \in Reqs : q # cur[c] => hd'[q] = hd[q] /\ wk'[q] = wk[q]
        \/ rd'[c] = "invalid" /\ UNCHANGED <<hd, wk>>
    BY <1>11, <2>2, BodyRead DEF TypeOK
  <2>4. \A q \in Reqs : Waiting(q)' => Waiting(q)
    BY <2>1, <2>2, <2>3, ServerAssumption DEF Waiting, Unread
  <2>5. \A q \in Reqs, w \in Writers : Answers(w, q)' => Answers(w, q) \/ Waiting(q)
    BY <2>1, <2>2, <2>3, ServerAssumption DEF Answers, Reader
  <2>6. QED BY <2>1, <2>4, <2>5, QuietAnswer, WholeQuiet
<1>12. ASSUME NEW c \in Conns, RefuseHeader(c) PROVE (AnswerInv /\ Whole)'
  <2>1. /\ WriteHeader(c, Reader(c)) /\ rd[c] = "invalid" /\ Reader(c) # Free
        /\ Reader(c) \in Writers /\ Reader(c)[2] = cur[c] /\ cur[c] \in Reqs \cup {NoReq}
    BY <1>12, Refused, WritersDiffer DEF RefuseHeader
  <2>2. /\ net[c] = "open" => cur[c] \in Reqs
        /\ cur[c] \in Reqs => ConnOf[cur[c]] = c /\ Answers(Reader(c), cur[c])
    BY <2>1, ServerAssumption DEF PhaseInv, Answers
  <2> DEFINE w == Reader(c)
  <2>3. /\ WriteHeader(c, w) /\ w \in Writers /\ w[2] \in Reqs \cup {NoReq} /\ w # Free
        /\ (net[c] = "open" => w[2] \in Reqs)
        /\ (w[2] \in Reqs => ConnOf[w[2]] = c /\ Answers(w, w[2]))
    BY <2>1, <2>2
  <2> HIDE DEF w
  <2>4. QED BY <2>3, HeaderAnswer
<1>13. ASSUME NEW c \in Conns, RefuseBody(c) PROVE (AnswerInv /\ Whole)'
  <2>1. /\ WriteBody(c, Reader(c)) /\ rd[c] = "invalid" /\ Reader(c) # Free
        /\ Reader(c) \in Writers /\ Reader(c)[2] = cur[c] /\ cur[c] \in Reqs \cup {NoReq}
    BY <1>13, Refused, WritersDiffer DEF RefuseBody
  <2>2. /\ net[c] = "open" => cur[c] \in Reqs
        /\ cur[c] \in Reqs => ConnOf[cur[c]] = c /\ Answers(Reader(c), cur[c])
    BY <2>1, ServerAssumption DEF PhaseInv, Answers
  <2> DEFINE w == Reader(c)
  <2>3. /\ WriteBody(c, w) /\ w \in Writers /\ w[2] \in Reqs \cup {NoReq} /\ w # Free
        /\ (net[c] = "open" => w[2] \in Reqs)
        /\ (w[2] \in Reqs => ConnOf[w[2]] = c /\ Answers(w, w[2]))
    BY <2>1, <2>2
  <2>4. /\ UNCHANGED <<cur, inp, hd, wk>> /\ rd'[c] = "header"
        /\ \A d \in Conns : d # c => rd'[d] = rd[d]
    BY <1>13 DEF RefuseBody, WriteBody, TypeOK
  <2>5. \A q \in Reqs : Waiting(q)' => Waiting(q)
    BY <2>4, ServerAssumption DEF Waiting, Unread
  <2>6. \A q \in Reqs : q = cur[c] => hd[q] = "none" /\ wk[q] = "none" /\ ConnOf[q] = c
    BY <2>1, ServerAssumption DEF PhaseInv
  <2>7. \A q \in Reqs, x \in Writers : Answers(x, q)' => Answers(x, q) /\ q # cur[c]
    BY <2>4, <2>6, ServerAssumption DEF Answers, Reader
  <2>8. \A q \in Reqs, x \in Writers : Answers(x, q)' => Answers(x, q) /\ q # w[2]
    BY <2>1, <2>7
  <2> HIDE DEF w
  <2>9. QED BY <2>3, <2>5, <2>8, BodyAnswer
<1>14. ASSUME NEW r \in Reqs, MethodReturns(r) PROVE (AnswerInv /\ Whole)'
  <2>1. UNCHANGED <<out, lock, sent, rd, cur, inp, net>>
    BY <1>14 DEF MethodReturns, reqVars, given
  <2>2. /\ hd'[r] = "timeout" => hd[r] \in {"timeout", "select"}
        /\ wk'[r] = "write" => wk[r] = "write" \/ hd[r] = "select"
        /\ hd'[r] = "select" => hd[r] = "select"
    BY <1>14 DEF MethodReturns, TypeOK
  <2>3. \A q \in Reqs : q # r => hd'[q] = hd[q] /\ wk'[q] = wk[q]
    BY <1>14 DEF MethodReturns, TypeOK
  <2>4. /\ \A q \in Reqs : Waiting(q)' => Waiting(q)
        /\ \A q \in Reqs, w \in Writers : Answers(w, q)' => Answers(w, q) \/ Waiting(q)
    BY <2>1, <2>2, <2>3 DEF Waiting, Answers, Unread, Reader
  <2>5. QED BY <2>1, <2>4, QuietAnswer, WholeQuiet
<1>15. ASSUME NEW r \in Reqs, Called(r) PROVE (AnswerInv /\ Whole)'
  <2>1. UNCHANGED <<out, lock, sent, rd, cur, inp, net>>
    BY <1>15 DEF Called, reqVars, given
  <2>2. /\ hd'[r] = "timeout" => hd[r] \in {"timeout", "select"}
        /\ wk'[r] = "write" => wk[r] = "write" \/ hd[r] = "select"
        /\ hd'[r] = "select" => hd[r] = "select"
    BY <1>15 DEF Called, CalledReceived, TypeOK
  <2>3. \A q \in Reqs : q # r => hd'[q] = hd[q] /\ wk'[q] = wk[q]
    BY <1>15 DEF Called, CalledReceived, TypeOK
  <2>4. /\ \A q \in Reqs : Waiting(q)' => Waiting(q)
        /\ \A q \in Reqs, w \in Writers : Answers(w, q)' => Answers(w, q) \/ Waiting(q)
    BY <2>1, <2>2, <2>3 DEF Waiting, Answers, Unread, Reader
  <2>5. QED BY <2>1, <2>4, QuietAnswer, WholeQuiet
<1>16. ASSUME NEW r \in Reqs, ReplyHeader(r) PROVE (AnswerInv /\ Whole)'
  <2>1. /\ WriteHeader(ConnOf[r], Worker(r)) /\ Answers(Worker(r), r)
        /\ Worker(r) \in Writers /\ Worker(r)[2] = r /\ Worker(r) # Free /\ ConnOf[r] \in Conns
    BY <1>16, Replied, WritersDiffer DEF ReplyHeader, Answers
  <2> DEFINE c == ConnOf[r]
  <2> DEFINE w == Worker(r)
  <2>2. /\ WriteHeader(c, w) /\ w \in Writers /\ w[2] = r /\ w # Free /\ c \in Conns
        /\ ConnOf[r] = c /\ Answers(w, r)
    BY <2>1
  <2> HIDE DEF c, w
  <2>3. QED BY <2>2, HeaderAnswer
<1>17. ASSUME NEW r \in Reqs, ReplyBody(r) PROVE (AnswerInv /\ Whole)'
  <2>1. /\ WriteBody(ConnOf[r], Worker(r)) /\ Answers(Worker(r), r)
        /\ Worker(r) \in Writers /\ Worker(r)[2] = r /\ Worker(r) # Free /\ ConnOf[r] \in Conns
    BY <1>17, Replied, WritersDiffer DEF ReplyBody, Answers
  <2>2. /\ UNCHANGED <<rd, cur, inp>> /\ hd'[r] # "select" /\ hd'[r] # "timeout"
        /\ wk'[r] # "write"
        /\ \A q \in Reqs : q # r => hd'[q] = hd[q] /\ wk'[q] = wk[q]
    BY <1>17 DEF ReplyBody, WriteBody, TypeOK
  <2>3. \A q \in Reqs : Waiting(q)' => Waiting(q) BY <2>2 DEF Waiting, Unread
  <2>4. hd[r] # "none" /\ ConnOf[r] \in Conns
    BY <1>17, <2>1
     DEF ReplyBody, PhaseInv
  <2>5. ~(rd[ConnOf[r]] = "invalid" /\ cur[ConnOf[r]] = r)
    BY <2>4, ServerAssumption DEF PhaseInv
  <2>6. \A q \in Reqs, x \in Writers : Answers(x, q)' => Answers(x, q) /\ q # r
    BY <2>2, <2>5 DEF Answers, Reader
  <2> DEFINE c == ConnOf[r]
  <2> DEFINE w == Worker(r)
  <2>7. /\ WriteBody(c, w) /\ w \in Writers /\ w[2] = r /\ w # Free /\ c \in Conns
        /\ ConnOf[r] = c /\ Answers(w, r)
    BY <2>1
  <2> HIDE DEF c, w
  <2>8. QED BY <2>3, <2>6, <2>7, BodyAnswer
<1>18. ASSUME NEW r \in Reqs, Sent(r) PROVE (AnswerInv /\ Whole)'
  <2>1. UNCHANGED <<out, lock, sent, rd, cur, inp, net>>
    BY <1>18 DEF Sent, reqVars, given
  <2>2. /\ hd'[r] = "timeout" => hd[r] \in {"timeout", "select"}
        /\ wk'[r] = "write" => wk[r] = "write" \/ hd[r] = "select"
        /\ hd'[r] = "select" => hd[r] = "select"
    BY <1>18 DEF Sent, TypeOK
  <2>3. \A q \in Reqs : q # r => hd'[q] = hd[q] /\ wk'[q] = wk[q]
    BY <1>18 DEF Sent, TypeOK
  <2>4. /\ \A q \in Reqs : Waiting(q)' => Waiting(q)
        /\ \A q \in Reqs, w \in Writers : Answers(w, q)' => Answers(w, q) \/ Waiting(q)
    BY <2>1, <2>2, <2>3 DEF Waiting, Answers, Unread, Reader
  <2>5. QED BY <2>1, <2>4, QuietAnswer, WholeQuiet
<1>19. ASSUME NEW r \in Reqs, Timeout(r) PROVE (AnswerInv /\ Whole)'
  <2>1. UNCHANGED <<out, lock, sent, rd, cur, inp, net>>
    BY <1>19 DEF Timeout, reqVars, given
  <2>2. /\ hd'[r] = "timeout" => hd[r] \in {"timeout", "select"}
        /\ wk'[r] = "write" => wk[r] = "write" \/ hd[r] = "select"
        /\ hd'[r] = "select" => hd[r] = "select"
    BY <1>19 DEF Timeout, TypeOK
  <2>3. \A q \in Reqs : q # r => hd'[q] = hd[q] /\ wk'[q] = wk[q]
    BY <1>19 DEF Timeout, TypeOK
  <2>4. /\ \A q \in Reqs : Waiting(q)' => Waiting(q)
        /\ \A q \in Reqs, w \in Writers : Answers(w, q)' => Answers(w, q) \/ Waiting(q)
    BY <2>1, <2>2, <2>3 DEF Waiting, Answers, Unread, Reader
  <2>5. QED BY <2>1, <2>4, QuietAnswer, WholeQuiet
<1>20. ASSUME NEW r \in Reqs, TimeoutHeader(r) PROVE (AnswerInv /\ Whole)'
  <2>1. /\ WriteHeader(ConnOf[r], Handler(r)) /\ Answers(Handler(r), r)
        /\ Handler(r) \in Writers /\ Handler(r)[2] = r /\ Handler(r) # Free /\ ConnOf[r] \in Conns
    BY <1>20, Replied, WritersDiffer DEF TimeoutHeader, Answers
  <2> DEFINE c == ConnOf[r]
  <2> DEFINE w == Handler(r)
  <2>2. /\ WriteHeader(c, w) /\ w \in Writers /\ w[2] = r /\ w # Free /\ c \in Conns
        /\ ConnOf[r] = c /\ Answers(w, r)
    BY <2>1
  <2> HIDE DEF c, w
  <2>3. QED BY <2>2, HeaderAnswer
<1>21. ASSUME NEW r \in Reqs, TimeoutBody(r) PROVE (AnswerInv /\ Whole)'
  <2>1. /\ WriteBody(ConnOf[r], Handler(r)) /\ Answers(Handler(r), r)
        /\ Handler(r) \in Writers /\ Handler(r)[2] = r /\ Handler(r) # Free /\ ConnOf[r] \in Conns
    BY <1>21, Replied, WritersDiffer DEF TimeoutBody, Answers
  <2>2. /\ UNCHANGED <<rd, cur, inp>> /\ hd'[r] # "select" /\ hd'[r] # "timeout"
        /\ wk'[r] # "write"
        /\ \A q \in Reqs : q # r => hd'[q] = hd[q] /\ wk'[q] = wk[q]
    BY <1>21 DEF TimeoutBody, WriteBody, TypeOK
  <2>3. \A q \in Reqs : Waiting(q)' => Waiting(q) BY <2>2 DEF Waiting, Unread
  <2>4. hd[r] # "none" /\ ConnOf[r] \in Conns
    BY <1>21, <2>1
     DEF TimeoutBody, PhaseInv
  <2>5. ~(rd[ConnOf[r]] = "invalid" /\ cur[ConnOf[r]] = r)
    BY <2>4, ServerAssumption DEF PhaseInv
  <2>6. \A q \in Reqs, x \in Writers : Answers(x, q)' => Answers(x, q) /\ q # r
    BY <2>2, <2>5 DEF Answers, Reader
  <2> DEFINE c == ConnOf[r]
  <2> DEFINE w == Handler(r)
  <2>7. /\ WriteBody(c, w) /\ w \in Writers /\ w[2] = r /\ w # Free /\ c \in Conns
        /\ ConnOf[r] = c /\ Answers(w, r)
    BY <2>1
  <2> HIDE DEF c, w
  <2>8. QED BY <2>3, <2>6, <2>7, BodyAnswer
<1>22. ASSUME NEW r \in Reqs, Abandon(r) PROVE (AnswerInv /\ Whole)'
  <2>1. UNCHANGED <<out, lock, sent, rd, cur, inp, net>>
    BY <1>22 DEF Abandon, FinishClosed, reqVars, given
  <2>2. /\ hd'[r] = "timeout" => hd[r] \in {"timeout", "select"}
        /\ wk'[r] = "write" => wk[r] = "write" \/ hd[r] = "select"
        /\ hd'[r] = "select" => hd[r] = "select"
    BY <1>22 DEF Abandon, FinishClosed, TypeOK
  <2>3. \A q \in Reqs : q # r => hd'[q] = hd[q] /\ wk'[q] = wk[q]
    BY <1>22 DEF Abandon, FinishClosed, TypeOK
  <2>4. /\ \A q \in Reqs : Waiting(q)' => Waiting(q)
        /\ \A q \in Reqs, w \in Writers : Answers(w, q)' => Answers(w, q) \/ Waiting(q)
    BY <2>1, <2>2, <2>3 DEF Waiting, Answers, Unread, Reader
  <2>5. QED BY <2>1, <2>4, QuietAnswer, WholeQuiet
<1> QED
  BY <1>1, <1>2, <1>3, <1>4, <1>5, <1>6, <1>7, <1>8, <1>9, <1>10, <1>11,
      <1>12, <1>13, <1>14, <1>15, <1>16, <1>17, <1>18, <1>19, <1>20, <1>21,
      <1>22
  DEF Next, Client, ReaderStep, HandlerStep, WorkerStep

Inductive == TypeOK /\ StreamInv /\ PhaseInv /\ AnswerInv /\ Whole

\* The inductive invariant: it relates the streams, the readers, the handlers
\* and workers, the locks and what is written.
THEOREM Invariant == Spec => []Inductive
<1>1. Init => Inductive
  <2> SUFFICES ASSUME Init PROVE Inductive OBVIOUS
  <2>1. TypeOK
    <3>1. <<>> \in Seq(Parts) OBVIOUS
    <3>2. inp \in [Conns -> Seq(Parts)] /\ out \in [Conns -> Seq(Parts)]
      BY <3>1 DEF Init
    <3>3. QED BY <3>2 DEF Init, TypeOK
  <2>2. \A c \in Conns : inp[c] = <<>> /\ out[c] = <<>> /\ DOMAIN inp[c] = {} /\ DOMAIN out[c] = {}
    BY DEF Init
  <2>3. StreamInv BY <2>2 DEF Init, StreamInv, Stream, Elems
  <2>4. PhaseInv BY <2>2 DEF Init, PhaseInv
  <2>5. AnswerInv
    <3>1. \A c \in Conns : Elems(out[c]) = {} BY <2>2 DEF Elems
    <3>2. \A r \in Reqs : Silent(r) BY <3>1, ServerAssumption DEF Silent, Has
    <3>3. QED BY <3>1, <3>2 DEF AnswerInv, Silent, Writes
  <2>6. Whole
    <3>1. \A c \in Conns : Len(out[c]) = 0 BY <2>2
    <3>2. 0 % 2 = 0 OBVIOUS
    <3>3. WholeInv BY <3>1, <3>2 DEF Init, WholeInv
    <3>4. QED BY <2>2, <3>3 DEF Whole, AnsweredOnce, ResponsesWhole
  <2>7. QED BY <2>1, <2>3, <2>4, <2>5, <2>6 DEF Inductive
<1>2. Inductive /\ [Next]_vars => Inductive'
  BY StepTypes, StepStream, StepPhase, StepAnswer DEF Inductive
<1>3. QED BY <1>1, <1>2, PTL DEF Spec

\* server.go: the states of readers, handlers and workers fit together,
\* whatever connections, requests and services there are.
THEOREM TypeCorrect == Spec => []TypeOK
BY Invariant, PTL DEF Inductive

\* server.go:174-215: whatever the requests and however time-outs and results
\* race, a request is answered once at most.
THEOREM OneAnswer == Spec => []AnsweredOnce
BY Invariant, PTL DEF Inductive, Whole

\* server.go:166-172: whatever the requests, no answer is written into another.
THEOREM AnswersWhole == Spec => []ResponsesWhole
BY Invariant, PTL DEF Inductive, Whole

------------------------------------------------------------------------------
(* What is registered stays.                                               *)

KnownInv == \A r \in known : Found(Target[r])

LEMMA StepKnown ==
  ASSUME TypeOK, KnownInv, [Next]_vars
  PROVE  KnownInv'
<1>1. CASE \E v \in Receivers : RegisterService(v)
  <2>1. PICK v \in Receivers : Register(v) /\ known' = known
    BY <1>1 DEF RegisterService
  <2>2. QED BY <2>1, NewServices DEF KnownInv
<1>2. CASE \E r \in Reqs : ClientSend(r)
  <2>1. PICK r \in Reqs : /\ known' = IF Found(Target[r]) THEN known \cup {r} ELSE known
                          /\ serviceMap' = serviceMap
    BY <1>2 DEF ClientSend
  <2>2. \A t : Found(t) => Found(t)' BY <2>1 DEF Found
  <2>3. QED BY <2>1, <2>2 DEF KnownInv
<1>3. CASE UNCHANGED <<known, serviceMap>>
  BY <1>3 DEF KnownInv, Found
<1>4. QED
  <2>1. ASSUME NEW c \in Conns, ReaderStep(c) PROVE UNCHANGED <<known, serviceMap>>
    BY <2>1 DEF ReaderStep, ReadOptions, OptionsFail, ReadHeader, ReadHeaderFails,
      ReadEof, ReadBody, RefuseHeader, RefuseBody, WriteHeader, WriteBody, given
  <2>2. ASSUME NEW r \in Reqs, HandlerStep(r) \/ MethodReturns(r) \/ WorkerStep(r)
        PROVE  UNCHANGED <<known, serviceMap>>
    BY <2>2
     DEF HandlerStep, MethodReturns, WorkerStep, Called, ReplyHeader,
        ReplyBody,
      Sent, Abandon, Timeout, TimeoutHeader, TimeoutBody, WriteHeader, WriteBody, given
  <2>3. ASSUME NEW c \in Conns, ClientClose(c) \/ PeerReset(c)
        PROVE  UNCHANGED <<known, serviceMap>>
    BY <2>3 DEF ClientClose, PeerReset, given
  <2>4. UNCHANGED vars => UNCHANGED <<known, serviceMap>> BY DEF vars, given
  <2>5. QED BY <1>1, <1>2, <1>3, <2>1, <2>2, <2>3, <2>4 DEF Next, Client

\* Where a request may be refused.
LEMMA RefusedAt ==
  ASSUME TypeOK, [Next]_vars, NEW c \in Conns, rd[c] = "header", rd'[c] = "invalid"
  PROVE  ReadHeader(c) \/ ReadEof(c)
<1>1. ASSUME NEW d \in Conns, ReaderStep(d) PROVE ReadHeader(c) \/ ReadEof(c)
  <2>1. CASE ReadOptions(d) BY <2>1 DEF ReadOptions, TypeOK
  <2>2. CASE OptionsFail(d) BY <2>2 DEF OptionsFail, EndConn, TypeOK
  <2>3. CASE ReadHeader(d) BY <2>3 DEF ReadHeader, TypeOK
  <2>4. CASE ReadHeaderFails(d) BY <2>4 DEF ReadHeaderFails, EndConn, TypeOK
  <2>5. CASE ReadEof(d) BY <2>5 DEF ReadEof, TypeOK
  <2>6. ASSUME NEW ok \in BOOLEAN, ReadBody(d, ok) PROVE FALSE
    BY <2>6 DEF ReadBody, TypeOK
  <2>7. CASE RefuseHeader(d) BY <2>7 DEF RefuseHeader, WriteHeader
  <2>8. CASE RefuseBody(d) BY <2>8 DEF RefuseBody, TypeOK
  <2>9. QED BY <1>1, <2>1, <2>2, <2>3, <2>4, <2>5, <2>6, <2>7, <2>8 DEF ReaderStep
<1>2. ASSUME NEW r \in Reqs, HandlerStep(r) \/ MethodReturns(r) \/ WorkerStep(r)
      PROVE  rd' = rd
  BY <1>2
   DEF HandlerStep, MethodReturns, WorkerStep, Called, ReplyHeader, ReplyBody,
    Sent, Abandon, Timeout, TimeoutHeader, TimeoutBody, WriteHeader, WriteBody
<1>3. ASSUME NEW r \in Reqs, ClientSend(r) PROVE rd' = rd BY <1>3 DEF ClientSend
<1>4. ASSUME NEW d \in Conns, ClientClose(d) \/ PeerReset(d) PROVE rd' = rd
  BY <1>4 DEF ClientClose, PeerReset
<1>5. ASSUME NEW v \in Receivers, RegisterService(v) PROVE rd' = rd
  BY <1>5 DEF RegisterService
<1>6. UNCHANGED vars => rd' = rd BY DEF vars
<1>7. QED BY <1>1, <1>2, <1>3, <1>4, <1>5, <1>6 DEF Next, Client

\* server.go:217-223, 229-248: whatever is registered and sent, a request whose
\* method could once be found is not refused for an unknown method.
THEOREM KnownStays == Spec => StaysKnown
<1>1. Init => KnownInv BY DEF Init, KnownInv
<1>2. TypeOK /\ KnownInv /\ [Next]_vars => KnownInv' BY StepKnown
<1>3. TypeOK /\ StreamInv /\ KnownInv /\ [Next]_vars =>
        \A c \in Conns : rd[c] = "header" /\ rd'[c] = "invalid" => cur'[c] \notin known
  <2> SUFFICES ASSUME TypeOK, StreamInv, KnownInv, [Next]_vars,
                      NEW c \in Conns, rd[c] = "header", rd'[c] = "invalid"
               PROVE  cur'[c] \notin known
    OBVIOUS
  <2>1. CASE ReadHeader(c)
    <3>1. PICK r \in Reqs :
            cur' = [cur EXCEPT ![c] = r] /\ (Found(Target[r]) => rd'[c] = "body")
      BY <2>1, HeadRead
    <3>2. QED BY <3>1 DEF KnownInv, TypeOK
  <2>2. CASE ReadEof(c) BY <2>2, ServerAssumption DEF ReadEof, TypeOK
  <2>3. QED BY <2>1, <2>2, RefusedAt
<1>4. QED
  <2>1. TypeOK /\ StreamInv /\ KnownInv /\ [Next]_vars =>
          [\A c \in Conns : rd[c] = "header" /\ rd'[c] = "invalid" => cur'[c] \notin known]_vars
    BY <1>3
  <2>2. Inductive => TypeOK /\ StreamInv BY DEF Inductive
  <2>3. QED BY <1>1, <1>2, <2>1, <2>2, Invariant, PTL DEF Spec, StaysKnown

------------------------------------------------------------------------------
(* Nobody waits for ever for a lock, for a channel or for a connection     *)
(* that is gone.                                                           *)

\* Whoever holds the lock of a connection is the one that writes the body of
\* its answer next.
HolderWrites(c) ==
  \/ lock[c] = Reader(c) /\ rd[c] = "invalid"
  \/ \E r \in Reqs : ConnOf[r] = c /\
       (\/ lock[c] = Handler(r) /\ hd[r] = "timeout"
        \/ lock[c] = Worker(r) /\ wk[r] = "write")

HeldInv == \A c \in Conns : lock[c] # Free => HolderWrites(c)

\* A step that leaves locks alone and moves no writer.
LEMMA HeldQuiet ==
  ASSUME TypeOK, HeldInv, UNCHANGED lock,
         \A c \in Conns : rd[c] = "invalid" => rd'[c] = "invalid" /\ cur'[c] = cur[c],
         \A r \in Reqs : hd[r] = "timeout" => hd'[r] = "timeout",
         \A r \in Reqs : wk[r] = "write" => wk'[r] = "write"
  PROVE  HeldInv'
BY DEF HeldInv, HolderWrites, Reader, Handler, Worker

LEMMA HeldHeader ==
  ASSUME TypeOK, HeldInv, NEW c \in Conns, NEW w, WriteHeader(c, w),
         UNCHANGED <<rd, cur, hd, wk>>,
         \/ w = Reader(c) /\ rd[c] = "invalid"
         \/ \E r \in Reqs : ConnOf[r] = c /\
              (\/ w = Handler(r) /\ hd[r] = "timeout"
               \/ w = Worker(r) /\ wk[r] = "write")
  PROVE  HeldInv'
<1>1. \A d \in Conns : lock'[d] = IF d = c THEN w ELSE lock[d]
  BY DEF WriteHeader, TypeOK
<1>2. QED BY <1>1 DEF HeldInv, HolderWrites, Reader, Handler, Worker

\* No writer but w of c leaves its place.
OthersStay(c, w) ==
  /\ \A d \in Conns : rd[d] = "invalid" =>
       /\ rd'[d] = "invalid" \/ (d = c /\ w = Reader(c))
       /\ cur'[d] = cur[d]
  /\ \A r \in Reqs : hd[r] = "timeout" =>
       hd'[r] = "timeout" \/ (ConnOf[r] = c /\ w = Handler(r))
  /\ \A r \in Reqs : wk[r] = "write" =>
       wk'[r] = "write" \/ (ConnOf[r] = c /\ w = Worker(r))

\* The body of an answer of w, which then goes on.
LEMMA HeldBody ==
  ASSUME TypeOK, HeldInv, NEW c \in Conns, NEW w, WriteBody(c, w), OthersStay(c, w)
  PROVE  HeldInv'
<1>1. lock[c] = w /\ \A d \in Conns : lock'[d] = IF d = c THEN Free ELSE lock[d]
  BY DEF WriteBody, Unlocked, TypeOK
<1>2. ASSUME NEW d \in Conns, lock'[d] # Free PROVE HolderWrites(d)'
  <2>1. d # c /\ lock'[d] = lock[d] /\ HolderWrites(d) BY <1>1, <1>2 DEF HeldInv
  <2>2. CASE lock[d] = Reader(d) /\ rd[d] = "invalid"
    BY <2>1, <2>2 DEF HolderWrites, Reader, OthersStay
  <2>3. CASE \E r \in Reqs : ConnOf[r] = d /\
              (\/ lock[d] = Handler(r) /\ hd[r] = "timeout"
               \/ lock[d] = Worker(r) /\ wk[r] = "write")
    BY <2>1, <2>3 DEF HolderWrites, Handler, Worker, OthersStay
  <2>4. QED BY <2>1, <2>2, <2>3 DEF HolderWrites
<1>3. QED BY <1>2 DEF HeldInv

LEMMA StepHeld ==
  ASSUME TypeOK, StreamInv, PhaseInv, HeldInv, [Next]_vars
  PROVE  HeldInv'
<1>1. CASE UNCHANGED vars BY <1>1, HeldQuiet DEF vars, reqVars
<1>2. CASE Client
  BY <1>2, HeldQuiet DEF Client, ClientSend, ClientClose, PeerReset, reqVars
<1>3. ASSUME NEW v \in Receivers, RegisterService(v) PROVE HeldInv'
  BY <1>3, HeldQuiet DEF RegisterService, reqVars
<1>4. ASSUME NEW c \in Conns, ReaderStep(c) PROVE HeldInv'
  <2>1. ASSUME NEW to, rd[c] # "invalid", rd' = [rd EXCEPT ![c] = to],
               UNCHANGED <<lock, hd, wk>>, \A d \in Conns : d # c => cur'[d] = cur[d]
        PROVE  HeldInv'
    BY <2>1, HeldQuiet DEF TypeOK
  <2>2. CASE ReadOptions(c) BY <2>1, <2>2 DEF ReadOptions, reqVars
  <2>3. CASE OptionsFail(c) BY <2>1, <2>3 DEF OptionsFail, EndConn, reqVars
  <2>4. CASE ReadHeader(c)
    <3>1. \A d \in Conns : d # c => cur'[d] = cur[d] BY <2>4 DEF ReadHeader, TypeOK
    <3>2. QED BY <2>1, <2>4, <3>1 DEF ReadHeader, reqVars
  <2>5. CASE ReadHeaderFails(c) BY <2>1, <2>5 DEF ReadHeaderFails, EndConn, reqVars
  <2>6. CASE ReadEof(c)
    <3>1. \A d \in Conns : d # c => cur'[d] = cur[d] BY <2>6 DEF ReadEof, TypeOK
    <3>2. QED BY <2>1, <2>6, <3>1 DEF ReadEof, reqVars
  <2>7. ASSUME NEW ok \in BOOLEAN, ReadBody(c, ok) PROVE HeldInv'
    <3>1. rd[c] = "body" /\ cur[c] # NoReq /\ hd[cur[c]] = "none" /\ wk[cur[c]] = "none"
      BY <2>7 DEF ReadBody, PhaseInv, TypeOK
    <3>2. UNCHANGED <<lock, cur>> /\ \A d \in Conns : d # c => rd'[d] = rd[d]
      BY <2>7 DEF ReadBody, TypeOK
    <3>3. \A r \in Reqs : (hd[r] = "timeout" => hd'[r] = "timeout")
                          /\ (wk[r] = "write" => wk'[r] = "write")
      BY <2>7, <3>1 DEF ReadBody, TypeOK, reqVars
    <3>4. QED BY <3>1, <3>2, <3>3, HeldQuiet
  <2>8. CASE RefuseHeader(c)
    BY <2>8, HeldHeader DEF RefuseHeader, WriteHeader
  <2>9. CASE RefuseBody(c)
    <3>1. /\ WriteBody(c, Reader(c)) /\ UNCHANGED <<cur, hd, wk>>
          /\ \A d \in Conns : d # c => rd'[d] = rd[d]
      BY <2>9 DEF RefuseBody, WriteBody, TypeOK
    <3>2. OthersStay(c, Reader(c)) BY <3>1 DEF OthersStay
    <3>3. QED BY <3>1, <3>2, HeldBody
  <2>10. QED
    BY <1>4, <2>2, <2>3, <2>4, <2>5, <2>6, <2>7, <2>8, <2>9 DEF ReaderStep
<1>5. ASSUME NEW r \in Reqs, HandlerStep(r) PROVE HeldInv'
  <2>1. CASE Timeout(r)
    <3>1. \A q \in Reqs : hd[q] = "timeout" => hd'[q] = "timeout"
      BY <2>1 DEF Timeout, TypeOK
    <3>2. QED BY <2>1, <3>1, HeldQuiet DEF Timeout
  <2>2. CASE TimeoutHeader(r)
    BY <2>2, HeldHeader, ServerAssumption DEF TimeoutHeader, WriteHeader
  <2>3. CASE TimeoutBody(r)
    <3>1. /\ WriteBody(ConnOf[r], Handler(r)) /\ UNCHANGED <<rd, cur, wk>>
          /\ \A q \in Reqs : q # r => hd'[q] = hd[q]
      BY <2>3 DEF TimeoutBody, WriteBody, TypeOK
    <3>2. OthersStay(ConnOf[r], Handler(r)) BY <3>1 DEF OthersStay
    <3>3. ConnOf[r] \in Conns BY ServerAssumption
    <3>4. QED BY <3>1, <3>2, <3>3, HeldBody
  <2>4. QED BY <1>5, <2>1, <2>2, <2>3 DEF HandlerStep
<1>6. ASSUME NEW r \in Reqs, MethodReturns(r) \/ WorkerStep(r) PROVE HeldInv'
  <2>1. CASE MethodReturns(r)
    <3>1. \A q \in Reqs : wk[q] = "write" => wk'[q] = "write"
      BY <2>1 DEF MethodReturns, TypeOK
    <3>2. QED BY <2>1, <3>1, HeldQuiet DEF MethodReturns
  <2>2. CASE Called(r)
    <3>1. \A q \in Reqs : (wk[q] = "write" => wk'[q] = "write")
                          /\ (hd[q] = "timeout" => hd'[q] = "timeout")
      BY <2>2 DEF Called, CalledReceived, TypeOK
    <3>2. QED BY <2>2, <3>1, HeldQuiet DEF Called
  <2>3. CASE ReplyHeader(r)
    BY <2>3, HeldHeader, ServerAssumption DEF ReplyHeader, WriteHeader
  <2>4. CASE ReplyBody(r)
    <3>1. /\ WriteBody(ConnOf[r], Worker(r)) /\ UNCHANGED <<rd, cur, hd>>
          /\ \A q \in Reqs : q # r => wk'[q] = wk[q]
      BY <2>4 DEF ReplyBody, WriteBody, TypeOK
    <3>2. OthersStay(ConnOf[r], Worker(r)) BY <3>1 DEF OthersStay
    <3>3. ConnOf[r] \in Conns BY ServerAssumption
    <3>4. QED BY <3>1, <3>2, <3>3, HeldBody
  <2>5. CASE Sent(r)
    <3>1. \A q \in Reqs : (wk[q] = "write" => wk'[q] = "write")
                          /\ (hd[q] = "timeout" => hd'[q] = "timeout")
      BY <2>5 DEF Sent, TypeOK
    <3>2. QED BY <2>5, <3>1, HeldQuiet DEF Sent
  <2>6. CASE Abandon(r)
    <3>1. \A q \in Reqs : wk[q] = "write" => wk'[q] = "write"
      BY <2>6 DEF Abandon, TypeOK
    <3>2. QED BY <2>6, <3>1, HeldQuiet DEF Abandon
  <2>7. QED BY <1>6, <2>1, <2>2, <2>3, <2>4, <2>5, <2>6 DEF WorkerStep
<1>7. QED BY <1>1, <1>2, <1>3, <1>4, <1>5, <1>6 DEF Next

\* server.go:166-172, 180-214: the lock of a connection is held only by a
\* goroutine that has nothing left to do but to write a body and unlock, and
\* a worker whose method has come back finds its handler at its select, done,
\* or on the way there.
THEOREM NobodyBlocks ==
  Spec => [](/\ \A c \in Conns : CanLock(c) \/ HolderWrites(c)
             /\ \A r \in Reqs : wk[r] = "select" =>
                  CalledReceived(r) \/ FinishClosed(r) \/ hd[r] = "timeout")
<1>1. Init => HeldInv BY DEF Init, HeldInv
<1>2. Inductive /\ HeldInv /\ [Next]_vars => HeldInv' BY StepHeld DEF Inductive
<1>3. Inductive /\ HeldInv =>
        /\ \A c \in Conns : CanLock(c) \/ HolderWrites(c)
        /\ \A r \in Reqs : wk[r] = "select" =>
             CalledReceived(r) \/ FinishClosed(r) \/ hd[r] = "timeout"
  <2> SUFFICES ASSUME Inductive, HeldInv
        PROVE  /\ \A c \in Conns : CanLock(c) \/ HolderWrites(c)
               /\ \A r \in Reqs : wk[r] = "select" =>
                    CalledReceived(r) \/ FinishClosed(r) \/ hd[r] = "timeout"
    OBVIOUS
  <2>1. \A c \in Conns : CanLock(c) \/ HolderWrites(c) BY DEF HeldInv, CanLock
  <2>2. ASSUME NEW r \in Reqs, wk[r] = "select"
        PROVE  CalledReceived(r) \/ FinishClosed(r) \/ hd[r] = "timeout"
    <3>1. hd[r] # "none" /\ hd[r] # "wait"
      BY <2>2 DEF Inductive, PhaseInv, TypeOK
    <3>2. hd[r] \in {"none", "select", "timeout", "wait", "done"}
      BY DEF Inductive, TypeOK
    <3>3. QED BY <3>1, <3>2 DEF CalledReceived, FinishClosed
  <2>3. QED BY <2>1, <2>2
<1>4. QED BY Invariant, <1>1, <1>2, <1>3, PTL DEF Spec

\* The steps that the reader of c, which can read nothing new, has left: two
\* parts are read for each request, and an answer is a header and a body.
ReaderLeft(c) ==
  4 * Len(inp[c]) +
    (IF rd[c] = "invalid" THEN IF lock[c] = Reader(c) THEN 2 ELSE 3
     ELSE IF rd[c] = "ended" THEN 0 ELSE 1)

\* One part of the stream is read.
LEMMA PartRead ==
  ASSUME TypeOK, NEW c \in Conns, inp[c] # <<>>, inp' = [inp EXCEPT ![c] = Tail(@)]
  PROVE  Len(inp[c]) \in Nat /\ Len(inp'[c]) \in Nat /\ Len(inp[c]) = Len(inp'[c]) + 1
<1>1. inp[c] \in Seq(Parts) /\ inp'[c] = Tail(inp[c]) BY DEF TypeOK
<1>2. Len(inp[c]) \in Nat /\ Len(inp[c]) > 0 BY <1>1, SeqFacts
<1>3. Len(Tail(inp[c])) = Len(inp[c]) - 1 BY <1>1
<1>4. Len(inp'[c]) = Len(inp[c]) - 1 BY <1>1, <1>3, Zenon
<1>5. QED BY <1>2, <1>4

LEMMA ReaderLeftType ==
  ASSUME TypeOK, NEW c \in Conns
  PROVE  ReaderLeft(c) \in Nat /\ Len(inp[c]) \in Nat
<1>1. inp[c] \in Seq(Parts) BY DEF TypeOK
<1>2. Len(inp[c]) \in Nat BY <1>1
<1>3. \E n \in {0, 1, 2, 3} : ReaderLeft(c) = 4 * Len(inp[c]) + n BY DEF ReaderLeft
<1>4. QED BY <1>2, <1>3

LEMMA ReaderGoesOn ==
  ASSUME TypeOK, StreamInv, NEW c \in Conns, Broken(c), ReaderStep(c), TypeOK'
  PROVE  Broken(c)' /\ ReaderLeft(c)' < ReaderLeft(c)
<1> USE DEF Broken
<1>n. Len(inp[c]) \in Nat /\ Len(inp'[c]) \in Nat
  BY ReaderLeftType DEF TypeOK
<1>t. net[c] \in {"reset", "closed"} BY DEF TypeOK
<1>1. ReadOptions(c) => FALSE BY <1>t DEF ReadOptions
<1>2. ReadEof(c) => FALSE BY <1>t DEF ReadEof
<1>3. CASE OptionsFail(c) \/ ReadHeaderFails(c)
  <2>1. /\ rd[c] \in {"options", "header"} /\ rd'[c] = "ended"
        /\ net'[c] = "closed" /\ inp'[c] = inp[c]
    BY <1>3 DEF OptionsFail, ReadHeaderFails, EndConn, TypeOK
  <2>2. ReaderLeft(c) = 4 * Len(inp[c]) + 1 /\ ReaderLeft(c)' = 4 * Len(inp[c]) + 0
    BY <2>1 DEF ReaderLeft
  <2>3. QED BY <1>n, <2>1, <2>2
<1>4. CASE ReadHeader(c)
  <2>1. /\ rd[c] = "header" /\ rd'[c] \in {"body", "invalid"}
        /\ net'[c] = net[c] /\ Len(inp[c]) = Len(inp'[c]) + 1
    BY <1>4, PartRead DEF ReadHeader, HeaderNext, TypeOK
  <2>2. \E n \in {1, 2, 3} : ReaderLeft(c)' = 4 * Len(inp'[c]) + n
    BY <2>1 DEF ReaderLeft
  <2>3. ReaderLeft(c) = 4 * Len(inp[c]) + 1 BY <2>1 DEF ReaderLeft
  <2>4. QED BY <1>n, <1>t, <2>1, <2>2, <2>3
<1>5. ASSUME NEW ok \in BOOLEAN, ReadBody(c, ok)
      PROVE  Broken(c)' /\ ReaderLeft(c)' < ReaderLeft(c)
  <2>1. /\ rd[c] = "body" /\ rd'[c] \in {"header", "invalid"}
        /\ net'[c] = net[c] /\ Len(inp[c]) = Len(inp'[c]) + 1
    BY <1>5, PartRead DEF ReadBody, StreamInv, TypeOK
  <2>2. \E n \in {1, 2, 3} : ReaderLeft(c)' = 4 * Len(inp'[c]) + n
    BY <2>1 DEF ReaderLeft
  <2>3. ReaderLeft(c) = 4 * Len(inp[c]) + 1 BY <2>1 DEF ReaderLeft
  <2>4. QED BY <1>n, <1>t, <2>1, <2>2, <2>3
<1>6. CASE RefuseHeader(c)
  <2>1. /\ rd[c] = "invalid" /\ rd'[c] = "invalid" /\ lock[c] # Reader(c)
        /\ lock'[c] = Reader(c) /\ cur'[c] = cur[c]
        /\ net'[c] = net[c] /\ inp'[c] = inp[c]
    BY <1>6 DEF RefuseHeader, WriteHeader, TypeOK
  <2>2. Reader(c)' = Reader(c) BY <2>1 DEF Reader
  <2>3. QED BY <1>n, <1>t, <2>1, <2>2 DEF ReaderLeft
<1>7. CASE RefuseBody(c)
  <2>1. /\ rd[c] = "invalid" /\ rd'[c] = "header" /\ lock[c] = Reader(c)
        /\ net'[c] \in {net[c], "closed"} /\ inp'[c] = inp[c]
    BY <1>7 DEF RefuseBody, WriteBody, TypeOK
  <2>2. QED BY <1>n, <1>t, <2>1 DEF ReaderLeft
<1>8. QED BY <1>1, <1>2, <1>3, <1>4, <1>5, <1>6, <1>7 DEF ReaderStep

\* The others neither add to its stream nor take its lock away.
LEMMA OthersGoOn ==
  ASSUME TypeOK, PhaseInv, NEW c \in Conns, Broken(c), [Next]_vars, ~ReaderStep(c)
  PROVE  Broken(c)' /\ ReaderLeft(c)' = ReaderLeft(c)
<1> DEFINE Same == /\ Broken(c)' /\ inp'[c] = inp[c] /\ rd'[c] = rd[c]
                   /\ cur'[c] = cur[c]
                   /\ lock'[c] = Reader(c) <=> lock[c] = Reader(c)
<1>1. ASSUME Same PROVE Broken(c)' /\ ReaderLeft(c)' = ReaderLeft(c)
  BY <1>1 DEF ReaderLeft, Reader
<1>0. Reader(c) # Free BY DEF Reader, Free
<1>2. ASSUME NEW d \in Conns, NEW w, w # Reader(c), WriteHeader(d, w) PROVE Same
  BY <1>0, <1>2 DEF WriteHeader, CanLock, Broken, TypeOK
<1>3. ASSUME NEW d \in Conns, NEW w, w # Reader(c), WriteBody(d, w),
             rd'[c] = rd[c]
      PROVE  Same
  BY <1>0, <1>3 DEF WriteBody, Unlocked, Broken, TypeOK
<1>4. CASE UNCHANGED vars
  <2>1. Same BY <1>4 DEF vars, Broken
  <2>2. QED BY <1>1, <2>1
<1>5. CASE Client
  <2>1. ASSUME NEW r \in Reqs, ClientSend(r) PROVE Same
    BY <2>1, ServerAssumption DEF ClientSend, Broken, TypeOK
  <2>2. ASSUME NEW d \in Conns, ClientClose(d) \/ PeerReset(d) PROVE Same
    BY <2>2 DEF ClientClose, PeerReset, Broken, TypeOK
  <2>3. QED BY <1>1, <1>5, <2>1, <2>2 DEF Client
<1>6. ASSUME NEW v \in Receivers, RegisterService(v) PROVE Same
  BY <1>6 DEF RegisterService, Broken
<1>7. ASSUME NEW d \in Conns, ReaderStep(d) PROVE Same
  <2>0. d # c BY <1>7
  <2> USE <2>0
  <2>1. CASE ReadOptions(d) BY <2>1 DEF ReadOptions, Broken, TypeOK
  <2>2. CASE OptionsFail(d) BY <2>2 DEF OptionsFail, EndConn, Broken, TypeOK
  <2>3. CASE ReadHeader(d) BY <2>3 DEF ReadHeader, Broken, TypeOK
  <2>4. CASE ReadHeaderFails(d) BY <2>4 DEF ReadHeaderFails, EndConn, Broken, TypeOK
  <2>5. CASE ReadEof(d) BY <2>5 DEF ReadEof, Broken, TypeOK
  <2>6. ASSUME NEW ok \in BOOLEAN, ReadBody(d, ok) PROVE Same
    BY <2>6 DEF ReadBody, Broken, TypeOK
  <2>7. CASE RefuseHeader(d)
    BY <2>7 DEF RefuseHeader, WriteHeader, Broken, TypeOK
  <2>8. CASE RefuseBody(d)
    BY <2>8 DEF RefuseBody, WriteBody, Broken, TypeOK
  <2>9. QED
    BY <1>7, <2>1, <2>2, <2>3, <2>4, <2>5, <2>6, <2>7, <2>8 DEF ReaderStep
<1>8. ASSUME NEW r \in Reqs, HandlerStep(r) \/ MethodReturns(r) \/ WorkerStep(r)
      PROVE  Same
  <2>1. ConnOf[r] \in Conns /\ Handler(r) # Reader(c) /\ Worker(r) # Reader(c)
    BY ServerAssumption DEF Handler, Worker, Reader
  <2>2. CASE Timeout(r) BY <2>2 DEF Timeout, Broken
  <2>3. CASE MethodReturns(r) BY <2>3 DEF MethodReturns, Broken
  <2>4. CASE Called(r) BY <2>4 DEF Called, Broken
  <2>5. CASE Sent(r) BY <2>5 DEF Sent, Broken
  <2>6. CASE Abandon(r) BY <2>6 DEF Abandon, Broken
  <2>7. CASE TimeoutHeader(r) BY <1>2, <2>1, <2>7 DEF TimeoutHeader
  <2>8. CASE ReplyHeader(r) BY <1>2, <2>1, <2>8 DEF ReplyHeader
  <2>9. CASE TimeoutBody(r)
    <3>1. WriteBody(ConnOf[r], Handler(r)) /\ rd'[c] = rd[c]
      BY <2>9 DEF TimeoutBody
    <3>2. QED BY <1>3, <2>1, <3>1
  <2>10. CASE ReplyBody(r)
    <3>1. WriteBody(ConnOf[r], Worker(r)) /\ rd'[c] = rd[c]
      BY <2>10 DEF ReplyBody
    <3>2. QED BY <1>3, <2>1, <3>1
  <2>11. QED
    BY <1>8, <2>2, <2>3, <2>4, <2>5, <2>6, <2>7, <2>8, <2>9, <2>10
     DEF HandlerStep, WorkerStep
<1>9. QED BY <1>1, <1>4, <1>5, <1>6, <1>7, <1>8 DEF Next

\* server.go:96-108, 121-131: once a connection is broken it stays so, nobody
\* gives its reader more to do, and each step of the reader takes from a number
\* that is never negative: it comes to its end, whatever is in the stream.
THEOREM ReaderRunsOut ==
  Spec => [][\A c \in Conns : Broken(c) =>
               /\ Broken(c)' /\ ReaderLeft(c)' \in Nat
               /\ ReaderLeft(c)' <= ReaderLeft(c)
               /\ ReaderStep(c) => ReaderLeft(c)' < ReaderLeft(c)]_vars
<1>1. Inductive /\ Inductive' /\ [Next]_vars =>
        \A c \in Conns : Broken(c) =>
          /\ Broken(c)' /\ ReaderLeft(c)' \in Nat
          /\ ReaderLeft(c)' <= ReaderLeft(c)
          /\ ReaderStep(c) => ReaderLeft(c)' < ReaderLeft(c)
  <2> SUFFICES ASSUME Inductive, Inductive', [Next]_vars, NEW c \in Conns, Broken(c)
        PROVE  /\ Broken(c)' /\ ReaderLeft(c)' \in Nat
               /\ ReaderLeft(c)' <= ReaderLeft(c)
               /\ ReaderStep(c) => ReaderLeft(c)' < ReaderLeft(c)
    OBVIOUS
  <2>1. ReaderLeft(c) \in Nat BY ReaderLeftType DEF Inductive
  <2>2. ReaderLeft(c)' \in Nat
    <3>1. inp'[c] \in Seq(Parts) BY DEF Inductive, TypeOK
    <3>2. Len(inp'[c]) \in Nat BY <3>1
    <3>3. \E n \in {0, 1, 2, 3} : ReaderLeft(c)' = 4 * Len(inp'[c]) + n
      BY DEF ReaderLeft
    <3>4. QED BY <3>2, <3>3
  <2>3. CASE ReaderStep(c)
    <3>1. Broken(c)' /\ ReaderLeft(c)' < ReaderLeft(c)
      BY <2>3, ReaderGoesOn DEF Inductive
    <3>2. QED BY <2>1, <2>2, <3>1
  <2>4. CASE ~ReaderStep(c)
    <3>1. Broken(c)' /\ ReaderLeft(c)' = ReaderLeft(c)
      BY <2>4, OthersGoOn DEF Inductive
    <3>2. QED BY <2>1, <2>2, <2>4, <3>1
  <2>5. QED BY <2>3, <2>4
<1>2. QED BY Invariant, <1>1, PTL DEF Spec

==============================================================================
