--------------------------------- MODULE Orm ---------------------------------
(***************************************************************************)
(* aoiorm/orm.go over Session: the Engine gives a session to the user, or  *)
(* runs a function of the user or Migrate with a session inside a          *)
(* transaction.  One session at a time; the database keeps sessions apart. *)
(* A function of the user leaves the transaction itself to the Engine.     *)
(***************************************************************************)
EXTENDS Session

CONSTANTS
  Columns,    \* names of columns
  Fields,     \* those of the model that Migrate is called with
  Absent      \* no such table

ASSUME OrmAssumption ==
  Fields \subseteq Columns /\ Fields # {} /\ Absent \notin [Fields -> {"old"}]

VARIABLES
  mode,       \* "idle", "plain", "func" or "migrate": who has the session
  outcome,    \* what Transaction returned, "none" before
  dropped,    \* Commit has failed, and its error was dropped
  stored,     \* the table in the database: what its columns hold
  table,      \* the table as the transaction sees it
  before,     \* the table at the beginning of Migrate (history)
  step,       \* where Migrate is
  adds, dels  \* addCols and delCols

migrateVars == <<stored, table, before, step, adds, dels>>
vars == <<sessionVars, mode, outcome, dropped, migrateVars>>

Tables == UNION {[S -> {"old", "empty"}] : S \in (SUBSET Columns) \ {{}}}

TypeOK ==
  /\ SessionTypeOK
  /\ mode # "idle" /\ calls = <<>> => sql = {} /\ cla = {}
  /\ mode \in {"idle", "plain", "func", "migrate"}
  /\ outcome \in {"none", "nil", "error", "panic"} /\ dropped \in BOOLEAN
  /\ {stored, table, before} \subseteq Tables \cup {Absent}
  /\ step \in {"none", "exists", "create", "columns", "add", "done"}
  /\ adds \subseteq Fields /\ dels \subseteq Columns

Init ==
  /\ SessionInit
  /\ mode = "idle" /\ outcome = "none" /\ dropped = FALSE
  /\ stored \in {Absent} \cup {[c \in S |-> "old"] : S \in (SUBSET Columns) \ {{}}}
  /\ table = stored /\ before = stored
  /\ step = "none" /\ adds = {} /\ dels = {}

------------------------------------------------------------------------------
(* Sessions of the user.                                                   *)

NewSession ==
  /\ mode = "idle"
  /\ Fresh /\ tx' = "nil"
  /\ mode' = "plain" /\ outcome' = "none" /\ dropped' = FALSE
  /\ before' = stored /\ step' = "none"
  /\ UNCHANGED <<stored, table, adds, dels>>

\* Model
SetModel ==
  /\ mode \in {"plain", "func"} /\ ~model /\ calls = <<>>
  /\ model' = TRUE
  /\ UNCHANGED <<sql, cla, tx, calls, ops, work, committed, scope, exact,
                 mode, outcome, dropped, migrateVars>>

UseSession ==
  /\ mode \in {"plain", "func"} /\ Operation
  /\ UNCHANGED <<mode, outcome, dropped, migrateVars>>

OwnTransaction ==
  /\ mode = "plain" /\ calls = <<>>
  /\ \/ \E ok \in BOOLEAN : Begin(ok) \/ Commit(ok)
     \/ Rollback
  /\ UNCHANGED <<mode, outcome, dropped, migrateVars>>

\* The session is given up, after a panic in the middle of an operation, too.
Leave ==
  /\ mode = "plain"
  /\ mode' = "idle" /\ calls' = <<>>
  /\ UNCHANGED <<sql, cla, model, tx, ops, work, committed, scope, exact,
                 outcome, dropped, migrateVars>>

------------------------------------------------------------------------------
(* Engine.Transaction.                                                     *)

\* NewSession and Begin; f runs when Begin has succeeded.
Transaction(f, ok) ==
  /\ mode = "idle"
  /\ Fresh
  /\ tx' = IF ok THEN "open" ELSE "nil"
  /\ mode' = IF ok THEN f ELSE "idle"
  /\ outcome' = IF ok THEN "none" ELSE "error"
  /\ dropped' = FALSE
  /\ table' = stored /\ before' = stored
  /\ step' = IF ok /\ f = "migrate" THEN "exists" ELSE "none"
  /\ adds' = {} /\ dels' = {}
  /\ UNCHANGED stored

Returns(result) ==
  /\ mode' = "idle" /\ outcome' = result
  /\ step' = IF mode = "migrate" THEN "done" ELSE "none"
  /\ UNCHANGED <<before, adds, dels>>

\* f has returned no error.  What Commit returns is dropped.
CommitDeferred(ok) ==
  /\ Commit(ok)
  /\ stored' = IF ok THEN table ELSE stored
  /\ table' = stored'
  /\ dropped' = ~ok
  /\ Returns("nil")

RollbackDeferred(result) ==
  /\ Rollback
  /\ table' = stored
  /\ Returns(result)
  /\ UNCHANGED <<stored, dropped>>

\* Fault: a panic goes on without a rollback.
PanicOpen ==
  /\ calls' = <<>> /\ Returns("panic")
  /\ UNCHANGED <<sql, cla, model, tx, ops, work, committed, scope, exact,
                 stored, table, dropped>>

\* The deferred function recovers, rolls back and panics again.
Panic == RollbackDeferred("panic")

\* The pieces of a statement that was cut short are gone with the session.
FuncEnds ==
  /\ mode = "func"
  /\ \/ calls = <<>> /\ \E ok \in BOOLEAN : CommitDeferred(ok)
     \/ calls = <<>> /\ RollbackDeferred("error")
     \/ Panic

------------------------------------------------------------------------------
(* Migrate.  Each statement may fail; the table is that of the transaction. *)

At(s) == mode = "migrate" /\ step = s

Goes(s) ==
  /\ step' = s
  /\ UNCHANGED <<sessionVars, mode, outcome, dropped, stored, before>>

\* HasTable drops its error: then there seems to be no table.
HasTable(seen) ==
  /\ At("exists")
  /\ seen => table # Absent
  /\ Goes(IF seen THEN "columns" ELSE "create")
  /\ UNCHANGED <<table, adds, dels>>

\* Create table fails when there is a table after all.
CreateTable ==
  \/ /\ At("create") /\ table = Absent
     /\ table' = [c \in Fields |-> "empty"]
     /\ step' = "add"
     /\ UNCHANGED <<sessionVars, mode, outcome, dropped, stored, before,
                    adds, dels>>
  \/ At("create") /\ RollbackDeferred("error")

\* difference
Difference(a, b) == a \ b

\* The rows of the query are used without a look at its error.
ReadColumns ==
  /\ At("columns")
  /\ \/ /\ adds' = Difference(Fields, DOMAIN table)
        /\ dels' = Difference(DOMAIN table, Fields)
        /\ Goes("add") /\ UNCHANGED table
     \/ Panic

AddColumn(c) ==
  /\ At("add") /\ c \in adds
  /\ \/ /\ table' = [x \in DOMAIN table \cup {c} |->
                       IF x \in DOMAIN table THEN table[x] ELSE "empty"]
        /\ adds' = adds \ {c}
        /\ Goes("add") /\ UNCHANGED dels
     \/ RollbackDeferred("error")

\* Fault: the new table has all the columns of the old one.
CopiedAll(t) == t

\* SELECT of the fields of the model
Copied(t) == [c \in Fields |-> t[c]]

\* The three statements that copy the table, in one Exec.
Rebuild ==
  /\ At("add") /\ adds = {} /\ dels # {}
  /\ \/ /\ table' = Copied(table)
        /\ dels' = {}
        /\ Goes("add") /\ UNCHANGED adds
     \/ RollbackDeferred("error")

MigrateEnds ==
  /\ At("add") /\ adds = {} /\ dels = {}
  /\ \E ok \in BOOLEAN : CommitDeferred(ok)

Migrate ==
  \/ \E seen \in BOOLEAN : HasTable(seen)
  \/ CreateTable \/ ReadColumns
  \/ \E c \in Columns : AddColumn(c)
  \/ Rebuild \/ MigrateEnds

Next ==
  \/ NewSession \/ SetModel \/ UseSession \/ OwnTransaction \/ Leave
  \/ \E f \in {"func", "migrate"}, ok \in BOOLEAN : Transaction(f, ok)
  \/ FuncEnds \/ Migrate

Spec == Init /\ [][Next]_vars

------------------------------------------------------------------------------
(* Properties.                                                             *)

\* clause.go:24-51, raw.go:42-85: whatever failed before and whatever hooks
\* did in the middle of it, the statement of an operation is made of all of
\* its own clauses, texts and arguments and of none of another operation.
StatementsExact == exact

\* transaction.go:7-31, orm.go:61-71: the operations since Begin are in the
\* database all or none: none while the transaction is open, none when the
\* function returned an error or panicked, all when it succeeded and its
\* Commit did, too; and no transaction is left open, however f ends.
AllOrNothing ==
  /\ scope \subseteq committed \/ scope \cap committed = {}
  /\ tx = "open" \/ outcome \in {"error", "panic"} => scope \cap committed = {}
  /\ outcome = "nil" /\ ~dropped => scope \subseteq committed
  /\ outcome # "none" => tx # "open"

\* What Migrate should make of a table.
Migrated(t) ==
  [c \in Fields |-> IF t # Absent /\ c \in DOMAIN t THEN t[c] ELSE "empty"]

\* orm.go:88-127: whichever statement fails, Migrate leaves the table as it was
\* or with the fields of the model, and what the columns it keeps have held.
MigrateExact ==
  /\ step # "done" => stored = before
  /\ step = "done" =>
       stored = IF outcome = "nil" /\ ~dropped THEN Migrated(before) ELSE before

==============================================================================
