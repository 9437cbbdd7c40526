------------------------------- MODULE Session -------------------------------
(***************************************************************************)
(* aoiorm/session with clause/clause.go: one session, used by the code of  *)
(* the user and by the hooks he has defined, which the session calls in    *)
(* the middle of Insert and Find.  A piece of a statement (the text and    *)
(* the arguments of one clause or of one Raw) is a pair of its type and of *)
(* the operation it was made for.  Any statement may fail.                 *)
(***************************************************************************)
EXTENDS Naturals, SequencesExt

CONSTANTS
  MaxOps,     \* operations of one session
  MaxRows     \* values of one Insert, rows of one Find

ASSUME SessionAssumption == MaxOps \in Nat /\ MaxRows \in Nat

VARIABLES
  sql,        \* Session.sql and args
  cla,        \* Session.cla
  model,      \* refTable is set
  tx,         \* "nil", "open" or "finished"
  calls,      \* the operations under way: hooks call the session again
  ops,        \* the operations begun
  work,       \* those that wrote in the open transaction
  committed,  \* those whose writes are in the database for good
  scope,      \* those that succeeded since the last Begin (history)
  exact       \* every statement was made of its own pieces (history)

sessionVars == <<sql, cla, model, tx, calls, ops, work, committed, scope, exact>>

Kinds == {"insert", "find", "update", "delete", "count", "raw"}
Writing == {"insert", "update", "delete", "raw"}

\* The clauses an operation sets itself ...
Own == [insert |-> {"INSERT", "VALUES"}, find |-> {"SELECT"},
        update |-> {"UPDATE"}, delete |-> {"DELETE"}, count |-> {"COUNT"},
        raw |-> {"RAW"}]

\* ... and those of Where, OrderBy and Limit it may be given in a chain.
Chained == [k \in Kinds |->
  CASE k = "find" -> {"WHERE", "ORDERBY", "LIMIT"}
    [] k \in {"update", "delete", "count"} -> {"WHERE"}
    [] OTHER -> {}]

Pieces(types, id) == types \X {id}

\* A frame of calls: what is left are values to insert or rows to return.
Call == [id : 1 .. MaxOps, kind : {"insert", "find"}, left : 0 .. MaxRows]

SessionTypeOK ==
  /\ model \in BOOLEAN /\ tx \in {"nil", "open", "finished"}
  /\ calls \in Seq(Call) /\ ops \in 0 .. MaxOps
  /\ work \cup committed \cup scope \subseteq 1 .. ops

\* New
Fresh ==
  /\ sql' = {} /\ cla' = {} /\ model' = FALSE /\ calls' = <<>> /\ ops' = 0
  /\ work' = {} /\ committed' = {} /\ scope' = {} /\ exact' = TRUE

SessionInit ==
  /\ sql = {} /\ cla = {} /\ model = FALSE /\ tx = "nil" /\ calls = <<>>
  /\ ops = 0 /\ work = {} /\ committed = {} /\ scope = {} /\ exact = TRUE

------------------------------------------------------------------------------
(* Clauses and statements.                                                 *)

\* Clause.Set: one clause of each type.
Set(clauses, types, id) ==
  {p \in clauses : p[1] \notin types} \cup Pieces(types, id)

\* Fault: Build leaves the clauses it has used.
BuildKeeps(clauses) == clauses

\* Clause.Build empties the clauses, the ones it was not asked for included.
AfterBuild(clauses) == {}

\* Fault: Clear is not deferred, and an error returns before it.
ClearedOnSuccess(pieces, ok) == IF ok THEN {} ELSE pieces

\* defer s.Clear()
Cleared(pieces, ok) == {}

\* Fault: DB() is always the database.
OutsideTx == TRUE

\* DB() is the database itself.
NoTx == tx = "nil"

\* Exec, QueryRow and QueryRows: the statement is cleared whatever happens,
\* and a finished transaction refuses it.
Execute(id, kind, pieces, wanted, ok) ==
  LET wrote == IF ok /\ kind \in Writing THEN {id} ELSE {} IN
  /\ ok => tx # "finished"
  /\ sql' = Cleared(pieces, ok)
  /\ exact' = (exact /\ pieces = wanted)
  /\ IF NoTx THEN committed' = committed \cup wrote /\ UNCHANGED work
     ELSE work' = work \cup wrote /\ UNCHANGED committed
  /\ scope' = IF tx = "open" THEN scope \cup wrote ELSE scope

\* The statement of a call with the chained clauses, from the clauses there are.
Statement(id, kind, clauses, chain, ok) ==
  LET types == Own[kind] \cup Chained[kind] IN
  /\ Execute(id, kind, sql \cup {p \in clauses : p[1] \in types},
             Pieces(Own[kind] \cup chain, id), ok)
  /\ cla' = AfterBuild(clauses)

------------------------------------------------------------------------------
(* Operations.  They are called by the user at the top or in a hook.       *)

Depth == Len(calls)
Begun == ops < MaxOps /\ Depth < 2 /\ ops' = ops + 1

\* Raw and Exec
RawExec(ok) ==
  /\ Begun
  /\ Execute(ops', "raw", sql \cup Pieces({"RAW"}, ops'), Pieces({"RAW"}, ops'), ok)
  /\ UNCHANGED <<cla, model, tx, calls>>

\* Update, Delete and Count panic without a model.
Direct(kind, chain, ok) ==
  /\ Begun /\ model
  /\ Statement(ops', kind, Set(cla, Own[kind] \cup chain, ops'), chain, ok)
  /\ UNCHANGED <<model, tx, calls>>

\* Find sets the model itself, and AfterQuery is called for every row.
Find(chain, ok, rows) ==
  /\ Begun
  /\ ~ok => rows = 0
  /\ model' = TRUE
  /\ Statement(ops', "find", Set(cla, {"SELECT"} \cup chain, ops'), chain, ok)
  /\ calls' = IF rows = 0 THEN calls
              ELSE Append(calls, [id |-> ops', kind |-> "find", left |-> rows])
  /\ UNCHANGED tx

\* Insert calls the hook BeforeInsert of its first value, by way of the model.
Insert(values) ==
  /\ Begun /\ model
  /\ calls' = Append(calls, [id |-> ops', kind |-> "insert", left |-> values])
  /\ UNCHANGED <<sql, cla, model, tx, work, committed, scope, exact>>

Top == Last(calls)

\* The clause INSERT is set again for each value.
SetInsert(clauses, id) == Set(clauses, {"INSERT"}, id)

\* The hook of a value returns; there are more values.
NextValue ==
  /\ Depth > 0 /\ Top.kind = "insert" /\ Top.left > 1
  /\ cla' = SetInsert(cla, Top.id)
  /\ calls' = [calls EXCEPT ![Depth].left = @ - 1]
  /\ UNCHANGED <<sql, model, tx, ops, work, committed, scope, exact>>

\* The hook of the last value returns, and the statement is executed.
InsertRuns(ok) ==
  /\ Depth > 0 /\ Top.kind = "insert" /\ Top.left = 1
  /\ Statement(Top.id, "insert",
               Set(SetInsert(cla, Top.id), {"VALUES"}, Top.id), {}, ok)
  /\ calls' = Front(calls)
  /\ UNCHANGED <<model, tx, ops>>

\* The hook AfterQuery returns: Find goes on to the next row, or returns.
NextRow(scanned) ==
  /\ Depth > 0 /\ Top.kind = "find"
  /\ calls' = IF scanned /\ Top.left > 1
              THEN [calls EXCEPT ![Depth].left = @ - 1] ELSE Front(calls)
  /\ UNCHANGED <<sql, cla, model, tx, ops, work, committed, scope, exact>>

Operation ==
  \/ \E ok \in BOOLEAN :
       \/ RawExec(ok) \/ InsertRuns(ok) \/ NextRow(ok)
       \/ \E kind \in {"update", "delete", "count"} :
            \E chain \in SUBSET Chained[kind] : Direct(kind, chain, ok)
       \/ \E chain \in SUBSET Chained["find"], rows \in 0 .. MaxRows :
            Find(chain, ok, rows)
  \/ \E n \in 1 .. MaxRows : Insert(n)
  \/ NextValue

------------------------------------------------------------------------------
(* Transactions.  Both ends of one may fail, and then it is finished, too. *)

\* Begin of a new transaction; one that is open is left to itself.
Begin(ok) ==
  /\ calls = <<>>
  /\ tx' = IF ok THEN "open" ELSE "nil"
  /\ work' = {} /\ scope' = {}
  /\ UNCHANGED <<sql, cla, model, calls, ops, committed, exact>>

Ended(saved) ==
  /\ tx' = "finished"
  /\ committed' = committed \cup saved
  /\ work' = {} /\ calls' = <<>>
  /\ UNCHANGED <<sql, cla, model, ops, scope, exact>>

Commit(ok) == tx # "nil" /\ Ended(IF ok /\ tx = "open" THEN work ELSE {})

Rollback == tx # "nil" /\ Ended({})

==============================================================================
