------------------------------ MODULE OrmProofs ------------------------------
(***************************************************************************)
(* Theorems about Orm, for any bounds and any set of columns.              *)
(*                                                                         *)
(* A transaction of the Engine is atomic because everything that succeeded *)
(* since Begin is the work of the open transaction and nothing of it is in *)
(* the database yet (ScopeInv), and because the Engine ends the            *)
(* transaction before it says how (OutcomeInv).  A statement is exact      *)
(* because between two operations there is at most an INSERT clause left   *)
(* (PieceInv), which no other operation asks for.                          *)
(***************************************************************************)
EXTENDS Orm, SequenceTheorems, TLAPS

\* The types of a session; the calls under way have been counted.
SessionType ==
  /\ model \in BOOLEAN /\ tx \in {"nil", "open", "finished"}
  /\ ops \in 0 .. MaxOps
CallType == calls \in Seq(Call) /\ \A i \in 1 .. Len(calls) : calls[i].id <= ops
WriteType == work \subseteq 1 .. ops /\ committed \subseteq 1 .. ops /\ scope \subseteq 1 .. ops

\* Between two steps there is no statement, and only INSERT may have been set,
\* while the hooks of an Insert run.
PieceInv ==
  /\ sql = {} /\ cla \subseteq {"INSERT"} \X Nat
  /\ cla # {} => calls # <<>> /\ calls[Len(calls)].kind = "insert"

\* The writes of an open transaction are all its own and not yet saved.
ScopeInv ==
  /\ tx = "nil" => scope = {}
  /\ tx = "open" => /\ scope = work /\ scope \cap committed = {}
                    /\ \A i \in 1 .. Len(calls) : calls[i].id \notin committed
  /\ scope \subseteq committed \/ scope \cap committed = {}

SInv == SessionType /\ CallType /\ WriteType /\ ScopeInv /\ exact = TRUE

\* The Engine has ended the transaction when it returns, not before.
OutcomeInv ==
  /\ outcome # "none" => mode = "idle" /\ tx # "open"
  /\ mode \in {"func", "migrate"} => tx = "open"
  /\ outcome \in {"error", "panic"} => scope \cap committed = {}
  /\ outcome = "nil" /\ ~dropped => scope \subseteq committed

IInv == SInv /\ OutcomeInv /\ (mode # "idle" => PieceInv)

\* What the assumptions say of the bounds.
LEMMA Bounds == MaxOps \in Nat /\ MaxRows \in Nat
  BY SessionAssumption

------------------------------------------------------------------------------
(* Statements and operations.                                              *)

\* One statement keeps the account of writes, if it is new to the database.
LEMMA ExecuteWrites ==
  ASSUME SInv, NEW id \in 1 .. ops', NEW kind, NEW pieces, NEW wanted,
         NEW ok \in BOOLEAN, Execute(id, kind, pieces, wanted, ok),
         ops' \in 0 .. MaxOps, ops <= ops', tx' = tx,
         tx = "open" => id \notin committed
  PROVE  /\ WriteType' /\ sql' = {}
         /\ tx = "open" => /\ committed' = committed
                           /\ scope' = work' /\ scope' \cap committed' = {}
         /\ tx = "nil" => scope' = {}
         /\ scope' \subseteq committed' \/ scope' \cap committed' = {}
<1> DEFINE wrote == IF ok /\ kind \in Writing THEN {id} ELSE {}
<1>1. /\ sql' = {}
      /\ tx = "finished" => wrote = {}
      /\ IF tx = "nil" THEN committed' = committed \cup wrote /\ work' = work
         ELSE work' = work \cup wrote /\ committed' = committed
      /\ scope' = IF tx = "open" THEN scope \cup wrote ELSE scope
  BY DEF Execute, Cleared, NoTx
<1>2. wrote \subseteq {id}
  OBVIOUS
<1> HIDE DEF wrote
<1>3. WriteType'
  <2>1. 1 .. ops \subseteq 1 .. ops'
    BY Bounds DEF SInv, SessionType
  <2>2. {id} \subseteq 1 .. ops'
    OBVIOUS
  <2>3. work \cup committed \cup scope \cup wrote \subseteq 1 .. ops'
    BY <1>2, <2>1, <2>2, Zenon DEF SInv, WriteType
  <2> QED
    BY <1>1, <2>3 DEF WriteType
<1>4. CASE tx = "open"
  BY <1>1, <1>2, <1>3, <1>4 DEF SInv, ScopeInv
<1>5. CASE tx = "nil"
  BY <1>1, <1>3, <1>5 DEF SInv, ScopeInv
<1>6. CASE tx = "finished"
  BY <1>1, <1>3, <1>6 DEF SInv, ScopeInv
<1> QED
  BY <1>4, <1>5, <1>6 DEF SInv, SessionType

\* The statement of an operation is made of its own pieces.
LEMMA OwnPieces ==
  ASSUME PieceInv, NEW id \in Nat, NEW kind \in Kinds,
         NEW chain \in SUBSET Chained[kind], NEW clauses, NEW ok,
         clauses = {p \in clauses : p[1] = "INSERT"} \cup Pieces(Own[kind] \cup chain, id),
         kind = "insert" => clauses = Pieces(Own[kind], id),
         Statement(id, kind, clauses, chain, ok), exact = TRUE
  PROVE  exact' = TRUE /\ cla' = {} /\ sql' = {}
<1>1. kind # "insert" => "INSERT" \notin Own[kind] \cup Chained[kind]
  BY DEF Own, Chained, Kinds
<1>2. kind = "insert" => Chained[kind] = {}
  BY DEF Chained, Kinds
<1>3. {p \in clauses : p[1] \in Own[kind] \cup Chained[kind]}
        = Pieces(Own[kind] \cup chain, id)
  BY <1>1, <1>2 DEF Pieces
<1> QED
  BY <1>3 DEF Statement, Execute, Cleared, AfterBuild, PieceInv

\* Clause.Set replaces what there is of its types.
LEMMA SetPieces ==
  ASSUME NEW clauses \in SUBSET ({"INSERT"} \X Nat), NEW types, NEW id \in Nat
  PROVE  LET new == Set(clauses, types, id) IN
         /\ new = {p \in new : p[1] = "INSERT"} \cup Pieces(types, id)
         /\ "INSERT" \in types => new = Pieces(types, id)
  BY DEF Set, Pieces

\* The calls under way have been counted and write what is not saved yet.
Counted(c, n) ==
  /\ c \in Seq(Call)
  /\ \A i \in 1 .. Len(c) : c[i].id <= n /\ (tx = "open" => c[i].id \notin committed)

\* What is left to show of a step after its statement.
LEMMA AccountKept ==
  ASSUME SInv, ops' \in 0 .. MaxOps, tx' = tx, model' \in BOOLEAN, WriteType',
         tx = "open" => /\ committed' = committed
                        /\ scope' = work' /\ scope' \cap committed' = {},
         tx = "nil" => scope' = {},
         scope' \subseteq committed' \/ scope' \cap committed' = {},
         exact' = TRUE, Counted(calls', ops')
  PROVE  SInv'
<1>1. SessionType' /\ CallType'
  BY DEF SInv, SessionType, CallType, Counted
<1>2. ScopeInv'
  <2>1. tx = "open" => \A i \in 1 .. Len(calls') : calls'[i].id \notin committed'
    BY DEF Counted
  <2> QED
    BY <2>1 DEF ScopeInv
<1> QED
  BY <1>1, <1>2 DEF SInv

LEMMA CallsCounted ==
  ASSUME SInv, NEW n \in Nat, ops <= n
  PROVE  Counted(calls, n)
<1>1. ops \in Nat /\ calls \in Seq(Call)
  BY Bounds DEF SInv, SessionType, CallType
<1>2. ASSUME NEW i \in 1 .. Len(calls) PROVE calls[i].id \in Nat
  <2>1. calls[i] \in Call
    BY <1>1, ElementOfSeq
  <2> QED
    BY <2>1, Bounds DEF Call
<1> QED
  BY <1>1, <1>2 DEF SInv, CallType, ScopeInv, Counted

LEMMA PushCounted ==
  ASSUME SInv, ops' = ops + 1, ops' \in 1 .. MaxOps,
         NEW kind \in {"insert", "find"}, NEW left \in 0 .. MaxRows
  PROVE  Counted(Append(calls, [id |-> ops', kind |-> kind, left |-> left]), ops')
<1> DEFINE c == [id |-> ops', kind |-> kind, left |-> left]
<1>1. c \in Call /\ c.id = ops' /\ ops' \notin committed /\ ops \in Nat
  BY Bounds DEF Call, SInv, SessionType, WriteType
<1> HIDE DEF c
<1>2. Counted(calls, ops') /\ calls \in Seq(Call)
  BY <1>1, CallsCounted DEF SInv, CallType
<1>3. /\ Append(calls, c) \in Seq(Call) /\ Len(Append(calls, c)) = Len(calls) + 1
      /\ \A i \in 1 .. Len(calls) : Append(calls, c)[i] = calls[i]
      /\ Append(calls, c)[Len(calls) + 1] = c
  BY <1>1, <1>2, AppendProperties
<1>4. Len(calls) \in Nat
  BY <1>2, LenProperties
<1>5. \A i \in 1 .. Len(calls) + 1 : i \in 1 .. Len(calls) \/ i = Len(calls) + 1
  BY <1>4
<1>6. ops' <= ops'
  BY <1>1
<1>7. Counted(Append(calls, c), ops')
  BY <1>1, <1>2, <1>3, <1>5, <1>6 DEF Counted
<1> QED
  BY <1>7 DEF c

LEMMA PopCounted ==
  ASSUME SInv, Len(calls) > 0
  PROVE  Counted(Front(calls), ops)
<1>1. calls \in Seq(Call) /\ Len(calls) \in Nat /\ ops \in Nat
  BY LenProperties, Bounds DEF SInv, CallType, SessionType
<1>2. Counted(calls, ops)
  BY <1>1, CallsCounted
<1>3. /\ Front(calls) \in Seq(Call) /\ Len(Front(calls)) = Len(calls) - 1
      /\ \A i \in 1 .. Len(calls) - 1 : Front(calls)[i] = calls[i]
  <2>1. \A i \in 1 .. Len(calls) - 1 : calls[i] \in Call
    BY <1>1, ElementOfSeq
  <2> DEFINE s == SubSeq(calls, 1, Len(calls) - 1)
  <2>2. /\ s \in Seq(Call)
        /\ Len(s) = IF 1 <= Len(calls) - 1 THEN Len(calls) - 1 - 1 + 1 ELSE 0
        /\ \A i \in 1 .. Len(calls) - 1 - 1 + 1 : s[i] = calls[1 + i - 1]
    BY <1>1, <2>1, SubSeqProperties
  <2> HIDE DEF s
  <2>3. s = Front(calls)
    BY DEF s, Front
  <2> QED
    BY <1>1, <2>2, <2>3
<1> QED
  BY <1>1, <1>2, <1>3 DEF Counted

\* Raw and Exec
LEMMA RawStep ==
  ASSUME SInv, PieceInv, NEW ok \in BOOLEAN, RawExec(ok)
  PROVE  SInv' /\ PieceInv'
<1>1. /\ ops' = ops + 1 /\ ops' \in 1 .. MaxOps /\ ops' \notin committed
      /\ ops \in Nat /\ ops' \in Nat
  BY Bounds DEF RawExec, Begun, SInv, SessionType, WriteType
<1>2. /\ UNCHANGED <<cla, model, tx, calls>>
      /\ Execute(ops', "raw", sql \cup Pieces({"RAW"}, ops'), Pieces({"RAW"}, ops'), ok)
  BY DEF RawExec
<1>3. /\ WriteType' /\ sql' = {}
      /\ tx = "open" => /\ committed' = committed
                        /\ scope' = work' /\ scope' \cap committed' = {}
      /\ tx = "nil" => scope' = {}
      /\ scope' \subseteq committed' \/ scope' \cap committed' = {}
  BY <1>1, <1>2, ExecuteWrites
<1>4. exact' = TRUE
  BY <1>2 DEF Execute, SInv, PieceInv
<1>5. Counted(calls', ops') /\ model' \in BOOLEAN
  BY <1>1, <1>2, CallsCounted DEF SInv, SessionType, RawExec
<1>6. SInv'
  BY <1>1, <1>2, <1>3, <1>4, <1>5, AccountKept
<1> QED
  BY <1>2, <1>3, <1>6 DEF PieceInv

\* A new statement of kind, whose clauses were set just now, keeps the account.
LEMMA StatementStep ==
  ASSUME SInv, PieceInv, NEW kind \in Kinds, NEW chain \in SUBSET Chained[kind],
         NEW id \in 1 .. ops', NEW clauses, NEW ok \in BOOLEAN,
         clauses = {p \in clauses : p[1] = "INSERT"} \cup Pieces(Own[kind] \cup chain, id),
         kind = "insert" => clauses = Pieces(Own[kind], id),
         Statement(id, kind, clauses, chain, ok),
         ops' \in 0 .. MaxOps, ops <= ops', tx' = tx, model' \in BOOLEAN,
         tx = "open" => id \notin committed, Counted(calls', ops')
  PROVE  SInv' /\ PieceInv'
<1>1. id \in Nat /\ exact = TRUE
  BY Bounds DEF SInv
<1>2. exact' = TRUE /\ cla' = {} /\ sql' = {}
  BY <1>1, OwnPieces
<1>3. PICK pieces, wanted : Execute(id, kind, pieces, wanted, ok)
  BY DEF Statement
<1>4. /\ WriteType' /\ sql' = {}
      /\ tx = "open" => /\ committed' = committed
                        /\ scope' = work' /\ scope' \cap committed' = {}
      /\ tx = "nil" => scope' = {}
      /\ scope' \subseteq committed' \/ scope' \cap committed' = {}
  BY <1>3, ExecuteWrites
<1>5. SInv'
  BY <1>2, <1>4, AccountKept
<1> QED
  BY <1>2, <1>5 DEF PieceInv

\* Update, Delete and Count
LEMMA DirectStep ==
  ASSUME SInv, PieceInv, NEW kind \in {"update", "delete", "count"},
         NEW chain \in SUBSET Chained[kind], NEW ok \in BOOLEAN,
         Direct(kind, chain, ok)
  PROVE  SInv' /\ PieceInv'
<1> DEFINE clauses == Set(cla, Own[kind] \cup chain, ops')
<1>1. /\ ops' = ops + 1 /\ ops' \in 1 .. MaxOps /\ ops' \notin committed
      /\ ops \in Nat /\ ops' \in Nat /\ kind \in Kinds /\ kind # "insert"
  BY Bounds DEF Direct, Begun, SInv, SessionType, WriteType, Kinds
<1>2. /\ UNCHANGED <<model, tx, calls>> /\ Statement(ops', kind, clauses, chain, ok)
  BY DEF Direct
<1>3. clauses = {p \in clauses : p[1] = "INSERT"} \cup Pieces(Own[kind] \cup chain, ops')
  BY <1>1, SetPieces DEF PieceInv
<1>4. Counted(calls', ops') /\ model' \in BOOLEAN
  BY <1>1, <1>2, CallsCounted DEF SInv, SessionType
<1> HIDE DEF clauses
<1> QED
  BY <1>1, <1>2, <1>3, <1>4, StatementStep

LEMMA FindStep ==
  ASSUME SInv, PieceInv, NEW chain \in SUBSET Chained["find"],
         NEW ok \in BOOLEAN, NEW rows \in 0 .. MaxRows, Find(chain, ok, rows)
  PROVE  SInv' /\ PieceInv'
<1> DEFINE clauses == Set(cla, {"SELECT"} \cup chain, ops')
<1>1. /\ ops' = ops + 1 /\ ops' \in 1 .. MaxOps /\ ops' \notin committed
      /\ ops \in Nat /\ ops' \in Nat /\ "find" \in Kinds
      /\ Own["find"] = {"SELECT"}
  BY Bounds DEF Find, Begun, SInv, SessionType, WriteType, Kinds, Own
<1>2. /\ tx' = tx /\ model' = TRUE /\ Statement(ops', "find", clauses, chain, ok)
  BY DEF Find
<1>3. clauses = {p \in clauses : p[1] = "INSERT"} \cup Pieces(Own["find"] \cup chain, ops')
  BY <1>1, SetPieces DEF PieceInv
<1>4. Counted(calls', ops')
  <2>1. CASE rows = 0
    BY <1>1, <2>1, CallsCounted DEF Find
  <2>2. CASE rows # 0
    BY <1>1, <2>2, PushCounted DEF Find
  <2> QED
    BY <2>1, <2>2
<1> HIDE DEF clauses
<1> QED
  BY <1>1, <1>2, <1>3, <1>4, StatementStep

\* Insert begins, and so do its hooks.
LEMMA InsertStep ==
  ASSUME SInv, PieceInv, NEW values \in 1 .. MaxRows, Insert(values)
  PROVE  SInv' /\ PieceInv'
<1>1. /\ ops' = ops + 1 /\ ops' \in 1 .. MaxOps /\ ops \in Nat
      /\ values \in 0 .. MaxRows
      /\ UNCHANGED <<sql, cla, model, tx, work, committed, scope, exact>>
  BY Bounds DEF Insert, Begun, SInv, SessionType
<1> DEFINE c == [id |-> ops', kind |-> "insert", left |-> values]
<1>2. calls' = Append(calls, c)
  BY DEF Insert
<1>3. Counted(calls', ops')
  BY <1>1, <1>2, PushCounted
<1>4. SInv'
  <2>1. WriteType'
    BY <1>1 DEF SInv, WriteType
  <2> QED
    BY <1>1, <1>3, <2>1, AccountKept DEF SInv, SessionType, ScopeInv
<1>5. PieceInv'
  <2>1. c \in Call /\ calls \in Seq(Call)
    BY <1>1 DEF Call, SInv, CallType
  <2>2. c.kind = "insert"
    OBVIOUS
  <2> HIDE DEF c
  <2>3. calls' # <<>> /\ calls'[Len(calls')] = c
    BY <1>2, <2>1, AppendProperties
  <2> QED
    BY <1>1, <2>2, <2>3 DEF PieceInv
<1> QED
  BY <1>4, <1>5

\* The innermost call of an Insert or a Find.
LEMMA TopCall ==
  ASSUME SInv, Depth > 0
  PROVE  /\ calls \in Seq(Call) /\ calls # <<>> /\ Len(calls) \in 1 .. Len(calls)
         /\ Top = calls[Len(calls)] /\ Top \in Call
         /\ Top.id \in 1 .. ops
         /\ tx = "open" => Top.id \notin committed
<1>1. calls \in Seq(Call) /\ Len(calls) \in Nat /\ Len(calls) > 0 /\ ops \in Nat
  BY LenProperties, Bounds DEF Depth, SInv, CallType, SessionType
<1>2. Top = calls[Len(calls)] /\ Len(calls) \in 1 .. Len(calls) /\ calls # <<>>
  BY <1>1 DEF Top, Last
<1>3. Top \in Call
  BY <1>1, <1>2, ElementOfSeq
<1>4. Top.id \in 1 .. MaxOps
  BY <1>3 DEF Call
<1>5. Top.id <= ops /\ (tx = "open" => Top.id \notin committed)
  BY <1>2 DEF SInv, CallType, ScopeInv
<1> QED
  BY <1>1, <1>2, <1>3, <1>4, <1>5, Bounds

\* One call is one value or one row further.
LEMMA OneLess ==
  ASSUME SInv, Depth > 0, Top.left > 1
  PROVE  LET c == [calls EXCEPT ![Depth].left = @ - 1] IN
         /\ Counted(c, ops) /\ c # <<>> /\ c[Len(c)].kind = Top.kind
<1> DEFINE n == Len(calls)
           less == [Top EXCEPT !.left = @ - 1]
           c == [calls EXCEPT ![n] = less]
<1>1. /\ calls \in Seq(Call) /\ n \in 1 .. n /\ Top = calls[n] /\ Top \in Call
      /\ Top.id \in 1 .. ops /\ (tx = "open" => Top.id \notin committed)
  BY TopCall
<1>2. less \in Call /\ less.id = Top.id /\ less.kind = Top.kind
  <2>1. /\ Top.left \in 0 .. MaxRows /\ Top.id \in 1 .. MaxOps
        /\ Top.kind \in {"insert", "find"}
        /\ Top = [id |-> Top.id, kind |-> Top.kind, left |-> Top.left]
    BY <1>1 DEF Call
  <2>2. less = [id |-> Top.id, kind |-> Top.kind, left |-> Top.left - 1]
    BY <2>1
  <2>3. Top.left - 1 \in 0 .. MaxRows
    BY <2>1, Bounds
  <2> QED
    BY <2>1, <2>2, <2>3 DEF Call
<1>3. [calls EXCEPT ![Depth].left = @ - 1] = c
  BY <1>1 DEF Depth
<1> HIDE DEF less
<1>4. c \in Seq(Call) /\ Len(c) = n
  BY <1>1, <1>2, ExceptSeq
<1>5. \A i \in 1 .. n : c[i] = IF i = n THEN less ELSE calls[i]
  BY <1>1
<1>6. Counted(calls, ops)
  BY CallsCounted, Bounds DEF SInv, SessionType
<1>7. ops \in Nat
  BY Bounds DEF SInv, SessionType
<1> HIDE DEF c, n
<1>8. Counted(c, ops)
  BY <1>1, <1>2, <1>4, <1>5, <1>6, <1>7 DEF Counted, n
<1>9. c # <<>> /\ c[Len(c)].kind = Top.kind
  BY <1>1, <1>2, <1>4, <1>5
<1> QED
  BY <1>3, <1>8, <1>9

\* A hook returns in the middle of an Insert.
LEMMA NextValueStep ==
  ASSUME SInv, PieceInv, NextValue
  PROVE  SInv' /\ PieceInv'
<1>1. /\ Depth > 0 /\ Top.left > 1 /\ Top.kind = "insert"
      /\ cla' = SetInsert(cla, Top.id)
      /\ calls' = [calls EXCEPT ![Depth].left = @ - 1]
      /\ UNCHANGED <<sql, model, tx, ops, work, committed, scope, exact>>
  BY DEF NextValue
<1>2. Counted(calls', ops') /\ calls' # <<>> /\ calls'[Len(calls')].kind = "insert"
  BY <1>1, OneLess
<1>3. SInv'
  <2>1. WriteType'
    BY <1>1 DEF SInv, WriteType
  <2> QED
    BY <1>1, <1>2, <2>1, AccountKept DEF SInv, SessionType, ScopeInv
<1>4. Top.id \in Nat
  BY <1>1, TopCall, Bounds DEF SInv, SessionType
<1>5. cla' \subseteq {"INSERT"} \X Nat
  BY <1>1, <1>4 DEF PieceInv, SetInsert, Set, Pieces
<1> QED
  BY <1>1, <1>2, <1>3, <1>5 DEF PieceInv

\* The hook of the last value returns.
LEMMA InsertRunsStep ==
  ASSUME SInv, PieceInv, NEW ok \in BOOLEAN, InsertRuns(ok)
  PROVE  SInv' /\ PieceInv'
<1> DEFINE clauses == Set(SetInsert(cla, Top.id), {"VALUES"}, Top.id)
<1>1. /\ Depth > 0 /\ Statement(Top.id, "insert", clauses, {}, ok)
      /\ calls' = Front(calls) /\ UNCHANGED <<model, tx, ops>>
  BY DEF InsertRuns
<1>2. /\ Top.id \in 1 .. ops /\ (tx = "open" => Top.id \notin committed)
      /\ ops \in 0 .. MaxOps /\ ops \in Nat /\ model \in BOOLEAN
  BY <1>1, TopCall, Bounds DEF SInv, SessionType
<1>3. Counted(calls', ops')
  BY <1>1, PopCounted DEF Depth
<1>4. clauses = Pieces(Own["insert"], Top.id)
  <2>1. Top.id \in Nat
    BY <1>2
  <2>2. cla \subseteq {"INSERT"} \X Nat
    BY DEF PieceInv
  <2> DEFINE id == Top.id
  <2> HIDE DEF id
  <2>3. Set(cla, {"INSERT"}, id) = Pieces({"INSERT"}, id)
    BY <2>1, <2>2, SetPieces DEF id
  <2>4. Set(Pieces({"INSERT"}, id), {"VALUES"}, id) = Pieces({"INSERT", "VALUES"}, id)
    BY DEF Set, Pieces
  <2> QED
    BY <2>3, <2>4 DEF SetInsert, Own, id
<1>5. clauses = {p \in clauses : p[1] = "INSERT"} \cup Pieces(Own["insert"] \cup {}, Top.id)
  BY <1>4
<1>6. "insert" \in Kinds /\ {} \in SUBSET Chained["insert"]
  BY DEF Kinds
<1> HIDE DEF clauses
<1> QED
  BY <1>1, <1>2, <1>3, <1>4, <1>5, <1>6, StatementStep

\* A hook returns in the middle of a Find.
LEMMA NextRowStep ==
  ASSUME SInv, PieceInv, NEW scanned, NextRow(scanned)
  PROVE  SInv' /\ PieceInv'
<1>1. /\ Depth > 0 /\ Top.kind = "find"
      /\ calls' = IF scanned /\ Top.left > 1
                  THEN [calls EXCEPT ![Depth].left = @ - 1] ELSE Front(calls)
      /\ UNCHANGED <<sql, cla, model, tx, ops, work, committed, scope, exact>>
  BY DEF NextRow
<1>2. Counted(calls', ops')
  <2>1. CASE scanned /\ Top.left > 1
    BY <1>1, <2>1, OneLess
  <2>2. CASE ~(scanned /\ Top.left > 1)
    BY <1>1, <2>2, PopCounted DEF Depth
  <2> QED
    BY <2>1, <2>2
<1>3. SInv'
  <2>1. WriteType'
    BY <1>1 DEF SInv, WriteType
  <2> QED
    BY <1>1, <1>2, <2>1, AccountKept DEF SInv, SessionType, ScopeInv
<1>4. cla = {}
  BY <1>1, TopCall DEF PieceInv
<1> QED
  BY <1>1, <1>3, <1>4 DEF PieceInv

\* Whatever the user or a hook does with a session.
LEMMA OperationStep ==
  ASSUME SInv, PieceInv, Operation
  PROVE  SInv' /\ PieceInv' /\ tx' = tx
<1>1. SInv' /\ PieceInv'
  BY RawStep, DirectStep, FindStep, InsertStep, NextValueStep, InsertRunsStep,
     NextRowStep DEF Operation
<1>2. tx' = tx
  BY DEF Operation, RawExec, Direct, Find, Insert, NextValue, InsertRuns, NextRow
<1> QED
  BY <1>1, <1>2

------------------------------------------------------------------------------
(* Sessions and transactions.                                              *)

\* No call is under way.
LEMMA NoCalls == <<>> \in Seq(Call) /\ Len(<<>>) = 0
  OBVIOUS

\* A new session, with or without a transaction.
LEMMA FreshStep ==
  ASSUME Fresh, tx' \in {"nil", "open"}
  PROVE  SInv' /\ PieceInv'
<1>1. /\ sql' = {} /\ cla' = {} /\ model' = FALSE /\ calls' = <<>> /\ ops' = 0
      /\ work' = {} /\ committed' = {} /\ scope' = {} /\ exact' = TRUE
  BY DEF Fresh
<1>2. model' \in BOOLEAN
  BY <1>1, Zenon
<1>5. ops' \in 0 .. MaxOps
  BY <1>1, Bounds
<1>3. CallType' /\ WriteType' /\ ScopeInv'
  BY <1>1, NoCalls DEF CallType, WriteType, ScopeInv
<1>4. SessionType'
  BY <1>2, <1>5 DEF SessionType
<1> QED
  BY <1>1, <1>3, <1>4 DEF SInv, PieceInv

LEMMA BeginStep ==
  ASSUME SInv, PieceInv, NEW ok, Begin(ok)
  PROVE  SInv' /\ PieceInv'
<1>1. /\ calls = <<>> /\ tx' \in {"nil", "open"} /\ work' = {} /\ scope' = {}
      /\ UNCHANGED <<sql, cla, model, calls, ops, committed, exact>>
  BY DEF Begin
<1>2. WriteType'
  BY <1>1 DEF SInv, WriteType
<1>3. SessionType' /\ CallType'
  BY <1>1 DEF SInv, SessionType, CallType
<1>4. ScopeInv'
  BY <1>1, NoCalls DEF ScopeInv
<1> QED
  BY <1>1, <1>2, <1>3, <1>4 DEF SInv, PieceInv

\* A session that is given up or that has no call under way has no calls.
LEMMA LeaveStep ==
  ASSUME SInv, calls' = <<>>, UNCHANGED <<model, tx, ops, work, committed, scope, exact>>
  PROVE  SInv'
  BY NoCalls DEF SInv, SessionType, CallType, WriteType, ScopeInv

\* The end of a transaction saves all of its work or nothing.
LEMMA EndedStep ==
  ASSUME SInv, NEW saved, Ended(saved), saved = {} \/ (tx = "open" /\ saved = work)
  PROVE  /\ SInv'
         /\ tx = "open" /\ saved = work => scope' \subseteq committed'
         /\ tx = "open" /\ saved = {} => scope' \cap committed' = {}
<1>1. /\ tx' = "finished" /\ committed' = committed \cup saved
      /\ work' = {} /\ calls' = <<>> /\ UNCHANGED <<model, ops, scope, exact>>
  BY DEF Ended
<1>2. WriteType'
  BY <1>1 DEF SInv, WriteType
<1>3. /\ tx = "open" => scope = work /\ scope \cap committed = {}
      /\ scope \subseteq committed \/ scope \cap committed = {}
  BY DEF SInv, ScopeInv
<1>4. /\ tx = "open" /\ saved = work => scope' \subseteq committed'
      /\ tx = "open" /\ saved = {} => scope' \cap committed' = {}
      /\ scope' \subseteq committed' \/ scope' \cap committed' = {}
  BY <1>1, <1>3
<1>5. SessionType' /\ CallType' /\ ScopeInv'
  BY <1>1, <1>4, NoCalls DEF SInv, SessionType, CallType, ScopeInv
<1> QED
  BY <1>1, <1>2, <1>4, <1>5 DEF SInv

\* The Engine ends a transaction and returns.
LEMMA CommitStep ==
  ASSUME IInv, tx = "open", NEW ok \in BOOLEAN, CommitDeferred(ok)
  PROVE  IInv'
<1>1. /\ Ended(IF ok /\ tx = "open" THEN work ELSE {})
      /\ dropped' = ~ok /\ mode' = "idle" /\ outcome' = "nil" /\ tx' = "finished"
  BY DEF CommitDeferred, Commit, Returns, Ended
<1>2. SInv' /\ (ok => scope' \subseteq committed')
  <2>1. CASE ok
    BY <1>1, <2>1, EndedStep DEF IInv
  <2>2. CASE ~ok
    <3>1. Ended({})
      BY <1>1, <2>2
    <3> QED
      BY <3>1, <2>2, EndedStep DEF IInv
  <2> QED
    BY <2>1, <2>2
<1>3. dropped' = FALSE => scope' \subseteq committed'
  BY <1>1, <1>2
<1>4. OutcomeInv'
  BY <1>1, <1>2, <1>3 DEF OutcomeInv
<1> QED
  BY <1>1, <1>2, <1>4 DEF IInv

LEMMA RollbackStep ==
  ASSUME IInv, tx = "open", NEW result \in {"error", "panic"},
         RollbackDeferred(result)
  PROVE  IInv'
<1>1. Ended({}) /\ mode' = "idle" /\ outcome' = result /\ tx' = "finished"
  BY DEF RollbackDeferred, Rollback, Returns, Ended
<1>2. SInv' /\ scope' \cap committed' = {}
  BY <1>1, EndedStep DEF IInv
<1>3. OutcomeInv'
  BY <1>1, <1>2 DEF OutcomeInv
<1> QED
  BY <1>1, <1>2, <1>3 DEF IInv

LEMMA TransactionStep ==
  ASSUME IInv, NEW f \in {"func", "migrate"}, NEW ok \in BOOLEAN,
         Transaction(f, ok)
  PROVE  IInv'
<1>1. /\ Fresh /\ tx' = (IF ok THEN "open" ELSE "nil")
      /\ mode' = (IF ok THEN f ELSE "idle")
      /\ outcome' = (IF ok THEN "none" ELSE "error")
  BY DEF Transaction
<1>2. SInv' /\ PieceInv' /\ scope' = {}
  BY <1>1, FreshStep DEF Fresh
<1> QED
  BY <1>1, <1>2 DEF IInv, OutcomeInv

\* The steps of the user, within Transaction or not.
LEMMA UserStep ==
  ASSUME IInv, NewSession \/ SetModel \/ UseSession \/ OwnTransaction \/ Leave
  PROVE  IInv'
<1>1. CASE NewSession
  <2>1. SInv' /\ PieceInv'
    BY <1>1, FreshStep DEF NewSession
  <2> QED
    BY <1>1, <2>1 DEF IInv, OutcomeInv, NewSession
<1>2. CASE SetModel
  BY <1>2 DEF SetModel, IInv, OutcomeInv, SInv, SessionType, CallType, WriteType,
    ScopeInv, PieceInv
<1>3. CASE UseSession
  <2>1. /\ mode \in {"plain", "func"} /\ Operation
        /\ UNCHANGED <<mode, outcome, dropped>>
    BY <1>3 DEF UseSession
  <2>2. SInv' /\ PieceInv' /\ tx' = tx
    BY <2>1, OperationStep DEF IInv
  <2> QED
    BY <2>1, <2>2 DEF IInv, OutcomeInv
<1>4. CASE OwnTransaction
  <2>1. /\ mode = "plain" /\ calls = <<>> /\ UNCHANGED <<mode, outcome, dropped>>
        /\ (\E ok \in BOOLEAN : Begin(ok) \/ Commit(ok)) \/ Rollback
    BY <1>4 DEF OwnTransaction
  <2>2. SInv' /\ PieceInv'
    <3>1. CASE \E ok \in BOOLEAN : Begin(ok)
      BY <2>1, <3>1, BeginStep DEF IInv
    <3>2. ASSUME NEW saved, Ended(saved), saved = {} \/ (tx = "open" /\ saved = work)
          PROVE SInv' /\ PieceInv'
      <4>1. SInv'
        BY <3>2, EndedStep DEF IInv
      <4>2. PieceInv /\ UNCHANGED <<sql, cla, calls>>
        BY <2>1, <3>2 DEF IInv, Ended
      <4> QED
        BY <4>1, <4>2 DEF PieceInv
    <3>3. ASSUME NEW ok \in BOOLEAN, Commit(ok) PROVE SInv' /\ PieceInv'
      <4> DEFINE saved == IF ok /\ tx = "open" THEN work ELSE {}
      <4>1. Ended(saved)
        BY <3>3 DEF Commit
      <4>2. saved = {} \/ (tx = "open" /\ saved = work)
        OBVIOUS
      <4> HIDE DEF saved
      <4> QED
        BY <4>1, <4>2, <3>2
    <3>4. CASE Rollback
      BY <3>4, <3>2 DEF Rollback
    <3> QED
      BY <2>1, <3>1, <3>3, <3>4
  <2> QED
    BY <2>1, <2>2 DEF IInv, OutcomeInv
<1>5. CASE Leave
  <2>1. SInv'
    BY <1>5, LeaveStep DEF IInv, Leave
  <2> QED
    BY <1>5, <2>1 DEF IInv, OutcomeInv, Leave
<1> QED
  BY <1>1, <1>2, <1>3, <1>4, <1>5

\* Migrate: only its end touches the session.
LEMMA MigrateStep ==
  ASSUME IInv, Migrate
  PROVE  IInv'
<1>1. mode = "migrate"
  BY DEF Migrate, At, HasTable, CreateTable, ReadColumns, AddColumn, Rebuild,
    MigrateEnds
<1>2. tx = "open"
  BY <1>1 DEF IInv, OutcomeInv
<1>3. \/ UNCHANGED <<sessionVars, mode, outcome, dropped>>
      \/ \E ok \in BOOLEAN : CommitDeferred(ok)
      \/ \E result \in {"error", "panic"} : RollbackDeferred(result)
  BY DEF Migrate, At, Goes, HasTable, CreateTable, ReadColumns, AddColumn,
    Rebuild, MigrateEnds, Panic
<1>4. CASE UNCHANGED <<sessionVars, mode, outcome, dropped>>
  BY <1>4 DEF sessionVars, IInv, OutcomeInv, SInv, SessionType, CallType,
    WriteType, ScopeInv, PieceInv
<1> QED
  BY <1>2, <1>3, <1>4, CommitStep, RollbackStep

LEMMA IInvInit == Init => IInv
<1> SUFFICES ASSUME Init PROVE IInv
  OBVIOUS
<1>1. /\ sql = {} /\ cla = {} /\ model = FALSE /\ tx = "nil" /\ calls = <<>>
      /\ ops = 0 /\ work = {} /\ committed = {} /\ scope = {} /\ exact = TRUE
      /\ mode = "idle" /\ outcome = "none"
  BY DEF Init, SessionInit
<1>2. model \in BOOLEAN
  BY <1>1, Zenon
<1>3. ops \in 0 .. MaxOps
  BY <1>1, Bounds
<1>4. SessionType /\ CallType /\ WriteType /\ ScopeInv
  BY <1>1, <1>2, <1>3, NoCalls DEF SessionType, CallType, WriteType, ScopeInv
<1> QED
  BY <1>1, <1>4 DEF IInv, SInv, OutcomeInv

\* Every step keeps IInv.
LEMMA IInvStep == IInv /\ [Next]_vars => IInv'
<1> SUFFICES ASSUME IInv, [Next]_vars PROVE IInv'
  OBVIOUS
<1>1. CASE UNCHANGED vars
  BY <1>1 DEF vars, sessionVars, IInv, OutcomeInv, SInv, SessionType, CallType,
    WriteType, ScopeInv, PieceInv
<1>2. CASE FuncEnds
  <2>1. tx = "open"
    BY <1>2 DEF FuncEnds, IInv, OutcomeInv
  <2> QED
    BY <1>2, <2>1, CommitStep, RollbackStep DEF FuncEnds, Panic
<1> QED
  BY <1>1, <1>2, UserStep, TransactionStep, MigrateStep DEF Next

\* IInv is an invariant of the Engine and its sessions.
THEOREM Invariance == Spec => []IInv
  BY IInvInit, IInvStep, PTL DEF Spec

\* For any number of operations, hooks and failures, a statement is made of
\* the clauses of its own operation only (clause.go:24-51, raw.go:42-85).
THEOREM OwnStatements == Spec => []StatementsExact
<1>1. IInv => StatementsExact
  BY DEF IInv, SInv, StatementsExact
<1> QED
  BY Invariance, <1>1, PTL

\* A transaction saves all of its operations or none, whatever fails in it, and
\* as Transaction says unless Commit failed; none is left open
\* (transaction.go:7-31, orm.go:61-71).
THEOREM Atomic == Spec => []AllOrNothing
<1>1. IInv => AllOrNothing
  BY DEF IInv, SInv, ScopeInv, OutcomeInv, AllOrNothing
<1> QED
  BY Invariance, <1>1, PTL

------------------------------------------------------------------------------
(* Migrate.                                                                *)

OrmType ==
  /\ mode \in {"idle", "plain", "func", "migrate"}
  /\ outcome \in {"none", "nil", "error", "panic"} /\ dropped \in BOOLEAN
  /\ step \in {"none", "exists", "create", "columns", "add", "done"}
TableType ==
  /\ stored \in Tables \cup {Absent} /\ table \in Tables \cup {Absent}
  /\ before \in Tables \cup {Absent}
  /\ adds \subseteq Fields /\ dels \subseteq Columns

\* Where Migrate is, and what the table is before it begins to change it.
PlaceInv ==
  /\ mode = "idle" => step \in {"none", "done"}
  /\ mode \in {"plain", "func"} => step = "none"
  /\ mode = "migrate" => step \notin {"none", "done"}
  /\ mode = "func" => table = stored
  /\ step \in {"exists", "create", "columns"} =>
       table = before /\ adds = {} /\ dels = {}
  /\ step = "columns" => table # Absent

\* What is still to be added is what the table lacks.
AddInv ==
  step = "add" =>
    /\ table \in Tables
    /\ Fields \subseteq DOMAIN table \cup adds /\ adds \cap DOMAIN table = {}
    /\ \A c \in adds : Migrated(before)[c] = "empty"
    /\ \A c \in Fields \cap DOMAIN table : table[c] = Migrated(before)[c]
    /\ dels = {} => DOMAIN table \subseteq Fields

MInv == OrmType /\ TableType /\ PlaceInv /\ AddInv /\ MigrateExact

LEMMA TableIn ==
  ASSUME NEW S \in SUBSET Columns, S # {}, NEW t \in [S -> {"old", "empty"}]
  PROVE  t \in Tables
  BY DEF Tables

LEMMA TableIs ==
  ASSUME NEW t \in Tables
  PROVE  /\ DOMAIN t \subseteq Columns /\ DOMAIN t # {}
         /\ t \in [DOMAIN t -> {"old", "empty"}]
  BY DEF Tables

\* A column that is new has nothing, a column that is kept has what it had.
LEMMA MigratedIs ==
  ASSUME NEW t, NEW c \in Fields
  PROVE  Migrated(t)[c] = IF t # Absent /\ c \in DOMAIN t THEN t[c] ELSE "empty"
  BY DEF Migrated

\* The places of Migrate, one lemma for each.
LEMMA HasTableStep ==
  ASSUME MInv, NEW seen \in BOOLEAN, HasTable(seen)
  PROVE  MInv'
<1>1. /\ mode = "migrate" /\ step = "exists" /\ (seen => table # Absent)
      /\ step' = IF seen THEN "columns" ELSE "create"
      /\ UNCHANGED <<mode, outcome, dropped, stored, before, table, adds, dels>>
  BY DEF HasTable, At, Goes
<1>2. OrmType' /\ TableType' /\ PlaceInv' /\ AddInv'
  BY <1>1 DEF MInv, OrmType, TableType, PlaceInv, AddInv
<1>3. MigrateExact'
  BY <1>1 DEF MInv, MigrateExact
<1> QED
  BY <1>2, <1>3 DEF MInv

LEMMA ReadColumnsStep ==
  ASSUME MInv, At("columns"), Goes("add"), UNCHANGED table,
         adds' = Difference(Fields, DOMAIN table),
         dels' = Difference(DOMAIN table, Fields)
  PROVE  MInv'
<1>1. /\ mode = "migrate" /\ step = "columns" /\ step' = "add"
      /\ adds' = Fields \ DOMAIN table /\ dels' = DOMAIN table \ Fields
      /\ UNCHANGED <<mode, outcome, dropped, stored, before, table>>
  BY DEF At, Goes, Difference
<1>2. table = before /\ table \in Tables /\ before # Absent
  BY <1>1 DEF MInv, TableType, PlaceInv
<1>3. OrmType' /\ TableType' /\ PlaceInv'
  BY <1>1, <1>2, TableIs DEF MInv, OrmType, TableType, PlaceInv
<1>4. AddInv'
  <2>1. \A c \in adds' : Migrated(before)[c] = "empty"
    BY <1>1, <1>2, MigratedIs
  <2>2. \A c \in Fields \cap DOMAIN table : table[c] = Migrated(before)[c]
    BY <1>2, MigratedIs
  <2>3. Migrated(before)' = Migrated(before)
    BY <1>1 DEF Migrated
  <2> QED
    BY <1>1, <1>2, <2>1, <2>2, <2>3 DEF AddInv
<1>5. MigrateExact'
  BY <1>1 DEF MInv, MigrateExact
<1> QED
  BY <1>3, <1>4, <1>5 DEF MInv

LEMMA CreateStep ==
  ASSUME MInv, At("create"), table = Absent, table' = [c \in Fields |-> "empty"],
         step' = "add",
         UNCHANGED <<mode, outcome, dropped, stored, before, adds, dels>>
  PROVE  MInv'
<1>1. /\ mode = "migrate" /\ step = "create" /\ before = Absent
      /\ adds = {} /\ dels = {}
  BY DEF At, MInv, PlaceInv
<1>2. table' \in Tables /\ DOMAIN table' = Fields
  BY OrmAssumption, TableIn
<1>3. OrmType' /\ TableType' /\ PlaceInv'
  BY <1>1, <1>2 DEF MInv, OrmType, TableType, PlaceInv
<1>4. \A c \in Fields : table'[c] = Migrated(before')[c]
  BY <1>1, MigratedIs
<1>5. AddInv'
  BY <1>1, <1>2, <1>4 DEF AddInv
<1>6. MigrateExact'
  BY <1>1 DEF MInv, MigrateExact
<1> QED
  BY <1>3, <1>5, <1>6 DEF MInv

LEMMA AddColumnStep ==
  ASSUME MInv, At("add"), Goes("add"), UNCHANGED dels, NEW c \in adds,
         table' = [x \in DOMAIN table \cup {c} |->
                     IF x \in DOMAIN table THEN table[x] ELSE "empty"],
         adds' = adds \ {c}
  PROVE  MInv'
<1>1. /\ mode = "migrate" /\ step = "add" /\ step' = "add"
      /\ UNCHANGED <<mode, outcome, dropped, stored, before, dels>>
  BY DEF At, Goes
<1>2. /\ table \in Tables /\ c \in Fields /\ c \in Columns
      /\ Fields \subseteq DOMAIN table \cup adds /\ adds \cap DOMAIN table = {}
      /\ \A x \in adds : Migrated(before)[x] = "empty"
      /\ \A x \in Fields \cap DOMAIN table : table[x] = Migrated(before)[x]
      /\ dels = {} => DOMAIN table \subseteq Fields
  BY <1>1, OrmAssumption DEF MInv, AddInv, TableType
<1>3. DOMAIN table' = DOMAIN table \cup {c}
  OBVIOUS
<1>4. table' \in Tables
  <2>1. DOMAIN table' \in SUBSET Columns /\ DOMAIN table' # {}
    BY <1>2, <1>3, TableIs
  <2>2. table' \in [DOMAIN table' -> {"old", "empty"}]
    BY <1>2, <1>3, TableIs
  <2> QED
    BY <2>1, <2>2, TableIn
<1>5. OrmType' /\ TableType' /\ PlaceInv'
  BY <1>1, <1>4 DEF MInv, OrmType, TableType, PlaceInv
<1>6. \A x \in Fields \cap DOMAIN table' : table'[x] = Migrated(before)[x]
  BY <1>2, <1>3
<1>7. Migrated(before)' = Migrated(before)
  BY <1>1 DEF Migrated
<1>8. AddInv'
  BY <1>1, <1>2, <1>3, <1>4, <1>6, <1>7 DEF AddInv
<1>9. MigrateExact'
  BY <1>1 DEF MInv, MigrateExact
<1> QED
  BY <1>5, <1>8, <1>9 DEF MInv

LEMMA RebuildStep ==
  ASSUME MInv, At("add"), Goes("add"), UNCHANGED adds, adds = {},
         table' = Copied(table), dels' = {}
  PROVE  MInv'
<1>1. /\ mode = "migrate" /\ step = "add" /\ step' = "add"
      /\ UNCHANGED <<mode, outcome, dropped, stored, before, adds>>
  BY DEF At, Goes
<1>2. /\ table \in Tables /\ Fields \subseteq DOMAIN table
      /\ \A x \in Fields : table[x] = Migrated(before)[x]
  BY <1>1 DEF MInv, AddInv
<1>3. DOMAIN table' = Fields /\ \A x \in Fields : table'[x] = table[x]
  BY DEF Copied
<1>4. table' \in Tables
  <2>1. table' \in [Fields -> {"old", "empty"}]
    BY <1>2, TableIs DEF Copied
  <2> QED
    BY <2>1, TableIn, OrmAssumption
<1>5. OrmType' /\ TableType' /\ PlaceInv'
  BY <1>1, <1>4 DEF MInv, OrmType, TableType, PlaceInv
<1>6. Migrated(before)' = Migrated(before)
  BY <1>1 DEF Migrated
<1>7. AddInv'
  BY <1>1, <1>2, <1>3, <1>4, <1>6 DEF AddInv
<1>8. MigrateExact'
  BY <1>1 DEF MInv, MigrateExact
<1> QED
  BY <1>5, <1>7, <1>8 DEF MInv

\* The Engine returns: the table is saved if the transaction is.
LEMMA CommitTable ==
  ASSUME MInv, NEW ok \in BOOLEAN, CommitDeferred(ok),
         mode = "func" \/ (At("add") /\ adds = {} /\ dels = {})
  PROVE  MInv'
<1>1. /\ stored' = (IF ok THEN table ELSE stored) /\ table' = stored'
      /\ dropped' = ~ok /\ mode' = "idle" /\ outcome' = "nil"
      /\ step' = IF mode = "migrate" THEN "done" ELSE "none"
      /\ UNCHANGED <<before, adds, dels>>
  BY DEF CommitDeferred, Returns
<1>2. OrmType'
  <2>1. dropped' \in BOOLEAN
    BY <1>1, Zenon
  <2> QED
    BY <1>1, <2>1 DEF OrmType
<1>3. TableType' /\ PlaceInv' /\ AddInv'
  BY <1>1 DEF MInv, TableType, PlaceInv, AddInv
<1>4. CASE mode = "func"
  BY <1>1, <1>2, <1>3, <1>4 DEF MInv, PlaceInv, MigrateExact
<1>5. CASE At("add") /\ adds = {} /\ dels = {}
  <2>1. mode = "migrate" /\ step = "add" /\ stored = before
    BY <1>5 DEF At, MInv, MigrateExact
  <2>2. /\ table \in Tables /\ DOMAIN table = Fields
        /\ \A c \in Fields : table[c] = Migrated(before)[c]
    BY <1>5, <2>1 DEF MInv, AddInv
  <2>3. table = [c \in Fields |-> table[c]]
    BY <2>2, TableIs
  <2>4. table = Migrated(before)
    BY <2>2, <2>3, MigratedIs DEF Migrated
  <2>5. Migrated(before)' = Migrated(before)
    BY <1>1 DEF Migrated
  <2>6. ok => dropped' = FALSE
    BY <1>1
  <2>7. ~ok => dropped' = TRUE
    BY <1>1
  <2>8. MigrateExact'
    BY <1>1, <2>1, <2>4, <2>5, <2>6, <2>7 DEF MigrateExact
  <2> QED
    BY <1>2, <1>3, <2>8 DEF MInv
<1> QED
  BY <1>4, <1>5

LEMMA RollbackTable ==
  ASSUME MInv, NEW result \in {"error", "panic"}, RollbackDeferred(result),
         mode \in {"func", "migrate"}
  PROVE  MInv'
<1>1. /\ table' = stored /\ mode' = "idle" /\ outcome' = result
      /\ step' = IF mode = "migrate" THEN "done" ELSE "none"
      /\ UNCHANGED <<before, adds, dels, stored, dropped>>
  BY DEF RollbackDeferred, Returns
<1>2. OrmType' /\ TableType' /\ PlaceInv' /\ AddInv'
  BY <1>1 DEF MInv, OrmType, TableType, PlaceInv, AddInv
<1>3. stored = before
  BY DEF MInv, PlaceInv, OrmType, MigrateExact
<1> QED
  BY <1>1, <1>2, <1>3 DEF MInv, MigrateExact

LEMMA MigrateTable ==
  ASSUME MInv, Migrate
  PROVE  MInv'
<1>1. CASE \E seen \in BOOLEAN : HasTable(seen)
  BY <1>1, HasTableStep
<1>2. CASE CreateTable
  BY <1>2, CreateStep, RollbackTable DEF CreateTable, At, sessionVars
<1>3. CASE ReadColumns
  BY <1>3, ReadColumnsStep, RollbackTable DEF ReadColumns, At, Panic
<1>4. CASE \E c \in Columns : AddColumn(c)
  BY <1>4, AddColumnStep, RollbackTable DEF AddColumn, At
<1>5. CASE Rebuild
  BY <1>5, RebuildStep, RollbackTable DEF Rebuild, At
<1>6. CASE MigrateEnds
  BY <1>6, CommitTable DEF MigrateEnds
<1> QED
  BY <1>1, <1>2, <1>3, <1>4, <1>5, <1>6 DEF Migrate

LEMMA TransactionTable ==
  ASSUME MInv, NEW f \in {"func", "migrate"}, NEW ok \in BOOLEAN,
         Transaction(f, ok)
  PROVE  MInv'
<1>1. /\ mode' = (IF ok THEN f ELSE "idle")
      /\ outcome' = (IF ok THEN "none" ELSE "error") /\ dropped' = FALSE
      /\ table' = stored /\ before' = stored /\ stored' = stored
      /\ step' = (IF ok /\ f = "migrate" THEN "exists" ELSE "none")
      /\ adds' = {} /\ dels' = {}
  BY DEF Transaction
<1>2. dropped' \in BOOLEAN
  BY <1>1, Zenon
<1>3. OrmType'
  BY <1>1, <1>2 DEF OrmType
<1>4. TableType' /\ PlaceInv' /\ AddInv' /\ MigrateExact'
  BY <1>1 DEF MInv, TableType, PlaceInv, AddInv, MigrateExact
<1> QED
  BY <1>3, <1>4 DEF MInv

LEMMA UserTable ==
  ASSUME MInv, NewSession \/ SetModel \/ UseSession \/ OwnTransaction \/ Leave
  PROVE  MInv'
<1>1. CASE NewSession
  <2>1. /\ mode = "idle" /\ mode' = "plain" /\ outcome' = "none"
        /\ dropped' = FALSE /\ before' = stored /\ step' = "none"
        /\ UNCHANGED <<stored, table, adds, dels>>
    BY <1>1 DEF NewSession
  <2>2. dropped' \in BOOLEAN
    BY <2>1, Zenon
  <2>3. OrmType'
    BY <2>1, <2>2 DEF OrmType
  <2> QED
    BY <2>1, <2>3 DEF MInv, TableType, PlaceInv, AddInv, MigrateExact
<1>2. CASE SetModel \/ UseSession \/ OwnTransaction
  <2>1. UNCHANGED <<mode, outcome, dropped, migrateVars>>
    BY <1>2 DEF SetModel, UseSession, OwnTransaction
  <2> QED
    BY <2>1 DEF migrateVars, MInv, OrmType, TableType, PlaceInv, AddInv,
      MigrateExact, Migrated
<1>3. CASE Leave
  <2>1. /\ mode = "plain" /\ mode' = "idle"
        /\ UNCHANGED <<outcome, dropped, migrateVars>>
    BY <1>3 DEF Leave
  <2> QED
    BY <2>1 DEF migrateVars, MInv, OrmType, TableType, PlaceInv, AddInv,
      MigrateExact, Migrated
<1> QED
  BY <1>1, <1>2, <1>3

LEMMA MInvInit == Init => MInv
<1> SUFFICES ASSUME Init PROVE MInv
  OBVIOUS
<1>1. /\ mode = "idle" /\ outcome = "none" /\ dropped = FALSE /\ table = stored
      /\ before = stored /\ step = "none" /\ adds = {} /\ dels = {}
  BY DEF Init
<1>2. stored \in Tables \cup {Absent}
  <2>1. stored = Absent \/ \E S \in (SUBSET Columns) \ {{}} : stored = [c \in S |-> "old"]
    BY DEF Init
  <2>2. ASSUME NEW S \in (SUBSET Columns) \ {{}}, stored = [c \in S |-> "old"]
        PROVE stored \in Tables
    <3>1. stored \in [S -> {"old", "empty"}]
      BY <2>2
    <3> QED
      BY <3>1, TableIn
  <2> QED
    BY <2>1, <2>2
<1>3. dropped \in BOOLEAN
  BY <1>1, Zenon
<1>4. OrmType /\ TableType
  BY <1>1, <1>2, <1>3 DEF OrmType, TableType
<1> QED
  BY <1>1, <1>4 DEF MInv, PlaceInv, AddInv, MigrateExact

\* Every step keeps MInv.
LEMMA MInvStep == MInv /\ [Next]_vars => MInv'
<1> SUFFICES ASSUME MInv, [Next]_vars PROVE MInv'
  OBVIOUS
<1>1. CASE UNCHANGED vars
  BY <1>1 DEF vars, migrateVars, MInv, OrmType, TableType, PlaceInv, AddInv,
    MigrateExact, Migrated
<1>2. CASE FuncEnds
  BY <1>2, CommitTable, RollbackTable DEF FuncEnds, Panic
<1> QED
  BY <1>1, <1>2, UserTable, TransactionTable, MigrateTable DEF Next

\* MInv is an invariant of the Engine.
THEOREM TableInvariance == Spec => []MInv
  BY MInvInit, MInvStep, PTL DEF Spec

\* For any columns of the table and any fields of the model, and whichever
\* statement fails, Migrate does all of its work or none (orm.go:88-127).
THEOREM MigratesExactly == Spec => []MigrateExact
<1>1. MInv => MigrateExact
  BY DEF MInv
<1> QED
  BY TableInvariance, <1>1, PTL

\* Every variable keeps its type, and no statement is left between operations
\* (raw.go:42-85).
THEOREM TypeCorrect == Spec => []TypeOK
<1>1. IInv /\ MInv => TypeOK
  <2> SUFFICES ASSUME IInv, MInv PROVE TypeOK
    OBVIOUS
  <2>1. SessionTypeOK
    BY DEF IInv, SInv, SessionType, CallType, WriteType, SessionTypeOK
  <2>2. mode # "idle" /\ calls = <<>> => sql = {} /\ cla = {}
    BY DEF IInv, PieceInv
  <2> QED
    BY <2>1, <2>2 DEF MInv, OrmType, TableType, TypeOK
<1> QED
  BY Invariance, TableInvariance, <1>1, PTL

==============================================================================
