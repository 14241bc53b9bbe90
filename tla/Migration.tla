------------------------------- MODULE Migration -------------------------------
(***************************************************************************)
(* Opening the local ledger's file (durable/sqlite_store.py): it is created *)
(* at the current schema version, or taken there version by version, after  *)
(* a copy of it was put beside it.                                          *)
(*                                                                         *)
(* sqlite3 opens a transaction before an UPDATE and never before DDL, so    *)
(* every CREATE, ALTER and DROP is durable on its own, whatever `with conn` *)
(* is around it: a statement is a step.  A process may die after any.  The  *)
(* columns that a version adds to a table are one column here, and indexes, *)
(* which are created and dropped IF [NOT] EXISTS, are left out.             *)
(***************************************************************************)
EXTENDS Naturals, Sequences

CONSTANTS
  Procs,      \* the processes that open the file
  Starts,     \* the versions the file may be found at, 0 for no file
  MaxCrashes  \* bound

ASSUME MigrationAssumption == Starts \subseteq 0..15 /\ MaxCrashes \in Nat

VARIABLES
  file,     \* the database file: its tables and its version
  backups,  \* the copies beside it, by the version they were made at
  opener,   \* what each process is at
  start,    \* history: the version the file was found at
  crashes

vars == <<file, backups, opener, start, crashes>>

Current == 14
\* The version that is read: _meta without a row counts as version 1.
Version(f) == IF f.version = 0 THEN 1 ELSE f.version

-----------------------------------------------------------------------------
(* The statements. *)

Statement(do, table, column, to, guarded) ==
  [do |-> do, table |-> table, column |-> column, to |-> to, guarded |-> guarded]

AddMissing(t, c) == Statement("add", t, c, "", TRUE)
Add(t, c) == Statement("add", t, c, "", FALSE)
DropPresent(t, c) == Statement("dropColumn", t, c, "", TRUE)
RenameColumn(t, c, to) == Statement("renameColumn", t, c, to, FALSE)
Rename(t, to) == Statement("rename", t, "", to, FALSE)
DropTable(t) == Statement("drop", t, "", "", TRUE)
CreateTable(t) == Statement("create", t, "", "", TRUE)

\* What takes a file from version v to the next.
Migration ==
  << <<CreateTable("batches"), AddMissing("runs", "batch_id"), AddMissing("steps", "v2")>>,
     <<AddMissing("tasks", "item_id"), AddMissing("tasks", "v3"), AddMissing("runs", "item_id")>>,
     <<DropPresent("runs", "cost"), DropPresent("tasks", "cost"),
       DropPresent("steps", "cost"), DropPresent("batches", "cost")>>,
     <<AddMissing("tasks", "v5")>>,
     <<AddMissing("runs", "v6")>>,
     <<AddMissing("runs", "v7"), AddMissing("tasks", "v7")>>,
     <<AddMissing("tasks", "v8")>>,
     <<AddMissing("runs", "v9"), AddMissing("tasks", "v9")>>,
     <<AddMissing("runs", "v10")>>,
     <<AddMissing("tasks", "v11"), AddMissing("runs", "v11")>>,
     <<DropTable("steps"), Rename("runs", "items"),
       RenameColumn("items", "run_id", "id"), RenameColumn("items", "batch_id", "run_id"),
       Rename("batches", "runs"), RenameColumn("runs", "batch_id", "run_id"),
       AddMissing("runs", "replayed_from"),
       RenameColumn("tasks", "item_id", "customer_item_id"),
       RenameColumn("tasks", "run_id", "item_id"), Rename("tasks", "steps")>>,
     <<Add("steps", "execution_token"), Add("steps", "attempt")>>,
     <<Add("steps", "tainted_by"), Add("steps", "tainted_reason")>> >>

\* A table has columns, and the rows of the table it once was.
Table(rows, columns) == [rows |-> rows, columns |-> columns]

Since(v, first, column) == IF v >= first THEN {column} ELSE {}
Until(v, last, column) == IF v <= last THEN {column} ELSE {}

\* What rows about an item and about a step had been given by version v.
PerItem(v) ==
  Since(v, 3, "item_id") \cup Since(v, 6, "v6") \cup Since(v, 7, "v7") \cup Since(v, 9, "v9")
    \cup Since(v, 10, "v10") \cup Since(v, 11, "v11")
PerStep(v) ==
  Since(v, 3, "v3") \cup Since(v, 5, "v5") \cup Since(v, 7, "v7") \cup Since(v, 8, "v8")
    \cup Since(v, 9, "v9") \cup Since(v, 11, "v11")
    \cup Since(v, 13, "execution_token") \cup Since(v, 13, "attempt")
    \cup Since(v, 14, "tainted_by") \cup Since(v, 14, "tainted_reason")

\* A table of version v, under the names there were before the rebuild, and after it.
Before(v, t) ==
  CASE t = "runs" -> Table("items", {"run_id"} \cup Since(v, 2, "batch_id")
                                      \cup PerItem(v) \cup Until(v, 3, "cost"))
    [] t = "tasks" -> Table("checkpoints", {"run_id"} \cup Since(v, 3, "item_id")
                                             \cup PerStep(v) \cup Until(v, 3, "cost"))
    [] t = "steps" -> Table("legacy", {"run_id"} \cup Since(v, 2, "v2") \cup Until(v, 3, "cost"))
    [] t = "batches" -> Table("batches", {"batch_id"} \cup Until(v, 3, "cost"))

Rebuilt(v, t) ==
  CASE t = "items" -> Table("items", {"id", "run_id"} \cup PerItem(v))
    [] t = "runs" -> Table("batches", {"run_id", "replayed_from"})
    [] t = "steps" -> Table("checkpoints", {"item_id", "customer_item_id"} \cup PerStep(v))

\* The tables of a file of version v: a new file is created with those of the current
\* version, and the migrations have to lead there.
Schema(v) ==
  IF v <= 11 THEN [t \in {"runs", "tasks", "steps"} \cup Since(v, 2, "batches") |-> Before(v, t)]
  ELSE [t \in {"items", "runs", "steps"} |-> Rebuilt(v, t)]

Put(tables, t, table) ==
  [u \in DOMAIN tables \cup {t} |-> IF u = t THEN table ELSE tables[u]]
Without(tables, t) == [u \in DOMAIN tables \ {t} |-> tables[u]]
Has(tables, s) == s.table \in DOMAIN tables /\ s.column \in tables[s.table].columns

\* (mutant) Columns are added without a look at those that are there.
MutSkipped(tables, s) == s.guarded /\ s.do = "drop" /\ s.table \notin DOMAIN tables

\* What a guarded statement finds done, it leaves alone.
Skipped(tables, s) ==
  /\ s.guarded
  /\ CASE s.do = "add" -> Has(tables, s)
       [] s.do = "dropColumn" -> s.table \in DOMAIN tables /\ ~Has(tables, s)
       [] s.do = "create" -> s.table \in DOMAIN tables
       [] s.do = "drop" -> s.table \notin DOMAIN tables

\* SQLite refuses a table or column that is missing, or is there already.
Refused(tables, s) ==
  /\ ~Skipped(tables, s)
  /\ CASE s.do = "create" -> s.table \in DOMAIN tables
       [] s.do = "drop" -> FALSE
       [] s.do = "rename" -> s.table \notin DOMAIN tables \/ s.to \in DOMAIN tables
       [] s.do = "add" -> s.table \notin DOMAIN tables \/ Has(tables, s)
       [] s.do = "dropColumn" -> ~Has(tables, s)
       [] s.do = "renameColumn" -> ~Has(tables, s) \/ s.to \in tables[s.table].columns

Executed(tables, s) ==
  IF Skipped(tables, s) THEN tables
  ELSE LET columns == tables[s.table].columns
       IN CASE s.do = "create" -> Put(tables, s.table, Table("batches", {"batch_id", "cost"}))
            [] s.do = "drop" -> Without(tables, s.table)
            [] s.do = "rename" -> Put(Without(tables, s.table), s.to, tables[s.table])
            [] s.do = "add" -> [tables EXCEPT ![s.table].columns = @ \cup {s.column}]
            [] s.do = "dropColumn" -> [tables EXCEPT ![s.table].columns = @ \ {s.column}]
            [] s.do = "renameColumn" ->
                 [tables EXCEPT ![s.table].columns = (@ \ {s.column}) \cup {s.to}]

\* The tables of a new file, in the order its script creates them.
Script == <<"runs", "items", "steps">>

-----------------------------------------------------------------------------
(* Opening the file. *)

Set(p, o) == opener' = [opener EXCEPT ![p] = o]
State(at, version, n) == [at |-> at, version |-> version, n |-> n]
Closed == State("closed", 1, 1)
At(p, at) == opener[p].at = at

\* (mutant) Every attempt copies the file anew.
MutBackedUp(v) == FALSE

\* The backup exists if so much as a part of it was copied.
BackedUp(v) == backups[v].state # "none"

\* Every migration makes its backup first.
FirstStep(v) == State("backup", v, 1)

\* _migrate with the version it now thinks the file has.
Continue(v) ==
  IF v = Current THEN State("open", v, 1)
  ELSE IF v \in 1..(Current - 1) THEN FirstStep(v)
  ELSE State("raised", v, 1)

\* (mutant) The last statement is forgotten.
MutAfter(v, n) ==
  IF n + 1 < Len(Migration[v]) THEN State("execute", v, n + 1) ELSE State("stamp", v, 1)

\* Statement n of the migration from v is followed by the next, or by the version.
After(v, n) ==
  IF n < Len(Migration[v]) THEN State("execute", v, n + 1) ELSE State("stamp", v, 1)

\* The schema is created when _meta is missing, and migrated otherwise.
Open(p) ==
  /\ opener[p].at \in {"closed", "open", "raised"}
  /\ Set(p, IF file.meta THEN Continue(Version(file)) ELSE State("create", 1, 1))
  /\ UNCHANGED <<file, backups, start, crashes>>

\* The script of a new file: _meta, the version it will have, then the tables.
Create(p) ==
  /\ At(p, "create")
  /\ LET n == opener[p].n
     IN /\ file' = CASE n = 1 -> [file EXCEPT !.meta = TRUE]
                     [] n = 2 -> [file EXCEPT !.version = IF @ = 0 THEN Current ELSE @]
                     [] n \in 3..5 ->
                          LET t == Script[n - 2]
                          IN IF t \in DOMAIN file.tables THEN file
                             ELSE [file EXCEPT !.tables = Put(@, t, Schema(Current)[t])]
        /\ Set(p, IF n = 5 THEN State("open", Current, 1) ELSE State("create", 1, n + 1))
  /\ UNCHANGED <<backups, start, crashes>>

\* _backup_db: the copy takes a while, and is in place from its first byte on.
Backup(p) ==
  /\ At(p, "backup")
  /\ LET v == opener[p].version
     IN IF BackedUp(v)
        THEN /\ Set(p, State("execute", v, 1))
             /\ UNCHANGED backups
        ELSE /\ backups' = [backups EXCEPT ![v] = [state |-> "torn", tables |-> file.tables]]
             /\ Set(p, State("copy", v, 1))
  /\ UNCHANGED <<file, start, crashes>>

\* It is whole if the file stayed as it was.
CopyEnds(p) ==
  /\ At(p, "copy")
  /\ LET v == opener[p].version
     IN /\ backups' = [backups EXCEPT ![v].state = IF backups[v].tables = file.tables
                                                   THEN "whole" ELSE @]
        /\ Set(p, State("execute", v, 1))
  /\ UNCHANGED <<file, start, crashes>>

\* The migration's next statement.
Execute(p) ==
  /\ At(p, "execute")
  /\ LET v == opener[p].version
         n == opener[p].n
         s == Migration[v][n]
     IN IF Refused(file.tables, s)
        THEN /\ Set(p, State("raised", v, n))
             /\ UNCHANGED file
        ELSE /\ file' = [file EXCEPT !.tables = Executed(@, s)]
             /\ Set(p, After(v, n))
  /\ UNCHANGED <<backups, start, crashes>>

\* The version is written last.
Stamp(p) ==
  /\ At(p, "stamp")
  /\ LET v == opener[p].version
     IN /\ file' = [file EXCEPT !.version = v + 1]
        /\ Set(p, Continue(v + 1))
  /\ UNCHANGED <<backups, start, crashes>>

Crash(p) ==
  /\ opener[p].at \notin {"closed", "open", "raised"}
  /\ crashes < MaxCrashes
  /\ crashes' = crashes + 1
  /\ Set(p, Closed)
  /\ UNCHANGED <<file, backups, start>>

-----------------------------------------------------------------------------
MigrationInit ==
  /\ start \in Starts
  /\ file = [meta |-> start # 0, version |-> start,
              tables |-> IF start = 0 THEN << >>
                         ELSE Schema(IF start > Current THEN Current ELSE start)]
  /\ backups = [v \in 1..(Current - 1) |-> [state |-> "none", tables |-> << >>]]
  /\ opener = [p \in Procs |-> Closed]
  /\ crashes = 0

Acts(p) == Open(p) \/ Create(p) \/ Backup(p) \/ CopyEnds(p) \/ Execute(p) \/ Stamp(p) \/ Crash(p)

MigrationNext == \E p \in Procs : Acts(p)

MigrationSpec == MigrationInit /\ [][MigrationNext]_vars
-----------------------------------------------------------------------------
(* What must hold of a file that one process opens at a time. *)

\* The tables of version v after the first n statements of its migration, told from
\* what these are about.
PartOf(v, n) ==
  LET done == {Migration[v][k] : k \in 1..n}
      created == {s.table : s \in {x \in done : x.do = "create"}}
      of(t, do) == {s.column : s \in {x \in done : x.table = t /\ x.do = do}}
      was(t) == IF t \in DOMAIN Schema(v) THEN Schema(v)[t]
                ELSE Table("batches", {"batch_id", "cost"})
  IN [t \in DOMAIN Schema(v) \cup created |->
        Table(was(t).rows, (was(t).columns \cup of(t, "add")) \ of(t, "dropColumn"))]

\* The tables are those of the version the file says, with a first part of the next
\* migration on top and nothing else: no crash and no second attempt skips a
\* statement or applies one to another version's tables.  Version 11 is left out,
\* whose migration cannot be run again from its middle.
BetweenVersions ==
  start # 0 /\ file.version \notin {11, Current, Current + 1} =>
    \E n \in 0..Len(Migration[file.version]) : file.tables = PartOf(file.version, n)

\* A file that was opened has the tables that a new file of the current version has,
\* column for column, whichever version it was found at and however often its
\* migrations were cut off (the order in _apply_v11_to_v12 is "load-bearing").  A new
\* file whose creation was cut off is left out, which is not taken up again.
OpenedIsCurrent ==
  \A p \in Procs : At(p, "open") /\ (start # 0 \/ crashes = 0) =>
    file.version = Current /\ file.tables = Schema(Current)

\* The version a file says tells its tables: what is between two versions is on its way
\* from one to the next, and what a process was handed is the current one.
VersionTellsTables == BetweenVersions /\ OpenedIsCurrent

\* An open that raises found a file of a newer SDK, or one that a crash left half
\* way through one of the last three migrations: the older ones can be run again
\* after a crash at any statement (the _existing_columns guards).
OlderVersionsReopen ==
  \A p \in Procs : At(p, "raised") =>
    \/ file.version > Current \/ start = 0
    \/ crashes > 0 /\ file.version \in 11..13

Holds(tables) == \E t \in DOMAIN tables : tables[t].rows = "checkpoints"

\* The checkpoints are in the file, or in the copy made before version 11's tables
\* were rebuilt unless that copy was cut short (a second attempt drops the table
\* `steps`, which by then may be theirs); and a copy that was not cut short is of the
\* file as it was before the first statement, however often that was tried.
CheckpointsSurvive ==
  start # 0 =>
    /\ Holds(file.tables) \/ backups[11].state # "none"
    /\ \A v \in DOMAIN backups : backups[v].state = "whole" => backups[v].tables = Schema(v)

\* _migrate's docstring calls it "Idempotent: safe to call on any schema version" and
\* says that a crash in the middle leaves no half-applied ALTERs: whatever happens
\* between two calls, the checkpoints stay in the file.
SafeToCallAgain == start # 0 => Holds(file.tables)
================================================================================
