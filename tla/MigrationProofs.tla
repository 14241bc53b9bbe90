---------------------------- MODULE MigrationProofs ----------------------------
(***************************************************************************)
(* Theorems about Migration, for a file that one process opens at a time,   *)
(* found at any set of versions, and any number of crashes.                 *)
(*                                                                          *)
(* What the properties say of a file does not say where the process is that *)
(* migrates it.  Located adds that: how many statements of the migration    *)
(* from its version are in the file, that a process does not stand further  *)
(* on than these, that there is a copy from before them, and that without a *)
(* crash they are as many as the process has executed.  A statement then    *)
(* takes the tables from one place to the next, finds itself done and       *)
(* leaves them alone, or is refused.                                        *)
(*                                                                          *)
(* All but the migration from version 11 only add columns, or only drop     *)
(* them, besides one table that is created: their places are told by        *)
(* PartOf.  Version 11's are written out, Rebuilding(0) to Rebuilding(10).  *)
(***************************************************************************)
EXTENDS Migration, TLAPS

--------------------------------------------------------------------------------
(* The statements, one by one. *)

Steps(v) == 1..Len(Migration[v])

LEMMA Listed1 ==
  /\ Steps(1) = 1..3
  /\ Migration[1][1] = CreateTable("batches")
  /\ Migration[1][2] = AddMissing("runs", "batch_id")
  /\ Migration[1][3] = AddMissing("steps", "v2")
BY DEF Migration, Steps

LEMMA Listed2 ==
  /\ Steps(2) = 1..3
  /\ Migration[2][1] = AddMissing("tasks", "item_id")
  /\ Migration[2][2] = AddMissing("tasks", "v3")
  /\ Migration[2][3] = AddMissing("runs", "item_id")
BY DEF Migration, Steps

LEMMA Listed3 ==
  /\ Steps(3) = 1..4
  /\ Migration[3][1] = DropPresent("runs", "cost")
  /\ Migration[3][2] = DropPresent("tasks", "cost")
  /\ Migration[3][3] = DropPresent("steps", "cost")
  /\ Migration[3][4] = DropPresent("batches", "cost")
BY DEF Migration, Steps

LEMMA Listed4 ==
  /\ Steps(4) = 1..1
  /\ Migration[4][1] = AddMissing("tasks", "v5")
BY DEF Migration, Steps

LEMMA Listed5 ==
  /\ Steps(5) = 1..1
  /\ Migration[5][1] = AddMissing("runs", "v6")
BY DEF Migration, Steps

LEMMA Listed6 ==
  /\ Steps(6) = 1..2
  /\ Migration[6][1] = AddMissing("runs", "v7")
  /\ Migration[6][2] = AddMissing("tasks", "v7")
BY DEF Migration, Steps

LEMMA Listed7 ==
  /\ Steps(7) = 1..1
  /\ Migration[7][1] = AddMissing("tasks", "v8")
BY DEF Migration, Steps

LEMMA Listed8 ==
  /\ Steps(8) = 1..2
  /\ Migration[8][1] = AddMissing("runs", "v9")
  /\ Migration[8][2] = AddMissing("tasks", "v9")
BY DEF Migration, Steps

LEMMA Listed9 ==
  /\ Steps(9) = 1..1
  /\ Migration[9][1] = AddMissing("runs", "v10")
BY DEF Migration, Steps

LEMMA Listed10 ==
  /\ Steps(10) = 1..2
  /\ Migration[10][1] = AddMissing("tasks", "v11")
  /\ Migration[10][2] = AddMissing("runs", "v11")
BY DEF Migration, Steps

LEMMA Listed12 ==
  /\ Steps(12) = 1..2
  /\ Migration[12][1] = Add("steps", "execution_token")
  /\ Migration[12][2] = Add("steps", "attempt")
BY DEF Migration, Steps

LEMMA Listed13 ==
  /\ Steps(13) = 1..2
  /\ Migration[13][1] = Add("steps", "tainted_by")
  /\ Migration[13][2] = Add("steps", "tainted_reason")
BY DEF Migration, Steps

\* What a statement says.
LEMMA Fields ==
  \A t, c : /\ AddMissing(t, c).do = "add" /\ AddMissing(t, c).table = t
            /\ AddMissing(t, c).column = c /\ AddMissing(t, c).guarded
            /\ Add(t, c).do = "add" /\ Add(t, c).table = t
            /\ Add(t, c).column = c /\ ~Add(t, c).guarded
            /\ DropPresent(t, c).do = "dropColumn" /\ DropPresent(t, c).table = t
            /\ DropPresent(t, c).column = c /\ DropPresent(t, c).guarded
            /\ CreateTable(t).do = "create" /\ CreateTable(t).table = t
            /\ CreateTable(t).guarded
BY DEF Statement, AddMissing, Add, DropPresent, CreateTable

\* Up to version 10 every statement looks first whether it was done.
LEMMA Guarded == \A v \in 1..10 : \A k \in Steps(v) : Migration[v][k].guarded
<1> SUFFICES ASSUME NEW v \in 1..10, NEW k \in Steps(v)
             PROVE  Migration[v][k].guarded
  OBVIOUS
<1> USE Fields
<1>1. CASE v = 1 BY <1>1, Listed1
<1>2. CASE v = 2 BY <1>2, Listed2
<1>3. CASE v = 3 BY <1>3, Listed3
<1>4. CASE v = 4 BY <1>4, Listed4
<1>5. CASE v = 5 BY <1>5, Listed5
<1>6. CASE v = 6 BY <1>6, Listed6
<1>7. CASE v = 7 BY <1>7, Listed7
<1>8. CASE v = 8 BY <1>8, Listed8
<1>9. CASE v = 9 BY <1>9, Listed9
<1>10. CASE v = 10 BY <1>10, Listed10
<1> QED BY <1>1, <1>2, <1>3, <1>4, <1>5, <1>6, <1>7, <1>8, <1>9, <1>10

\* The names of the tables, before the rebuild and after it.
LEMMA NamesThen ==
  \A v \in 1..11 : DOMAIN Schema(v) = {"runs", "tasks", "steps"} \cup Since(v, 2, "batches")
BY DEF Schema

LEMMA NamesNow ==
  \A v \in 12..14 : DOMAIN Schema(v) = {"items", "runs", "steps"}
BY DEF Schema

\* Statements about a column of a table that is there, or about the one new table.
Plain(s, tables) ==
  \/ s.do = "add" /\ s.table \in DOMAIN tables
  \/ s.do = "dropColumn" /\ s.table \in DOMAIN tables /\ s.guarded
  \/ s.do = "create" /\ s.table = "batches" /\ s.table \notin DOMAIN tables /\ s.guarded

LEMMA AllPlain ==
  \A v \in (1..13) \ {11} : \A k \in Steps(v) : Plain(Migration[v][k], Schema(v))
<1> SUFFICES ASSUME NEW v \in (1..13) \ {11}, NEW k \in Steps(v)
             PROVE  Plain(Migration[v][k], Schema(v))
  OBVIOUS
<1> USE Fields DEF Plain
<1>1. CASE v = 1 BY <1>1, Listed1, NamesThen DEF Since
<1>2. CASE v = 2 BY <1>2, Listed2, NamesThen DEF Since
<1>3. CASE v = 3 BY <1>3, Listed3, NamesThen DEF Since
<1>4. CASE v = 4 BY <1>4, Listed4, NamesThen DEF Since
<1>5. CASE v = 5 BY <1>5, Listed5, NamesThen DEF Since
<1>6. CASE v = 6 BY <1>6, Listed6, NamesThen DEF Since
<1>7. CASE v = 7 BY <1>7, Listed7, NamesThen DEF Since
<1>8. CASE v = 8 BY <1>8, Listed8, NamesThen DEF Since
<1>9. CASE v = 9 BY <1>9, Listed9, NamesThen DEF Since
<1>10. CASE v = 10 BY <1>10, Listed10, NamesThen DEF Since
<1>12. CASE v = 12 BY <1>12, Listed12, NamesNow DEF Since
<1>13. CASE v = 13 BY <1>13, Listed13, NamesNow DEF Since
<1> QED BY <1>1, <1>2, <1>3, <1>4, <1>5, <1>6, <1>7, <1>8, <1>9, <1>10, <1>12, <1>13

\* No version adds a column and drops one.
LEMMA DropsAlone ==
  \A v \in (1..13) \ {11} : \A k \in Steps(v) : Migration[v][k].do = "dropColumn" <=> v = 3
<1> SUFFICES ASSUME NEW v \in (1..13) \ {11}, NEW k \in Steps(v)
             PROVE  Migration[v][k].do = "dropColumn" <=> v = 3
  OBVIOUS
<1> USE Fields
<1>1. CASE v = 1 BY <1>1, Listed1
<1>2. CASE v = 2 BY <1>2, Listed2
<1>3. CASE v = 3 BY <1>3, Listed3
<1>4. CASE v = 4 BY <1>4, Listed4
<1>5. CASE v = 5 BY <1>5, Listed5
<1>6. CASE v = 6 BY <1>6, Listed6
<1>7. CASE v = 7 BY <1>7, Listed7
<1>8. CASE v = 8 BY <1>8, Listed8
<1>9. CASE v = 9 BY <1>9, Listed9
<1>10. CASE v = 10 BY <1>10, Listed10
<1>12. CASE v = 12 BY <1>12, Listed12
<1>13. CASE v = 13 BY <1>13, Listed13
<1> QED BY <1>1, <1>2, <1>3, <1>4, <1>5, <1>6, <1>7, <1>8, <1>9, <1>10, <1>12, <1>13

\* Only version 1 lacks a table.
LEMMA Creates ==
  \A v \in (1..13) \ {11} : \A k \in Steps(v) :
    Migration[v][k].do = "create" <=> v = 1 /\ k = 1
<1> SUFFICES ASSUME NEW v \in (1..13) \ {11}, NEW k \in Steps(v)
             PROVE  Migration[v][k].do = "create" <=> v = 1 /\ k = 1
  OBVIOUS
<1> USE Fields
<1>1. CASE v = 1 BY <1>1, Listed1
<1>2. CASE v = 2 BY <1>2, Listed2
<1>3. CASE v = 3 BY <1>3, Listed3
<1>4. CASE v = 4 BY <1>4, Listed4
<1>5. CASE v = 5 BY <1>5, Listed5
<1>6. CASE v = 6 BY <1>6, Listed6
<1>7. CASE v = 7 BY <1>7, Listed7
<1>8. CASE v = 8 BY <1>8, Listed8
<1>9. CASE v = 9 BY <1>9, Listed9
<1>10. CASE v = 10 BY <1>10, Listed10
<1>12. CASE v = 12 BY <1>12, Listed12
<1>13. CASE v = 13 BY <1>13, Listed13
<1> QED BY <1>1, <1>2, <1>3, <1>4, <1>5, <1>6, <1>7, <1>8, <1>9, <1>10, <1>12, <1>13

--------------------------------------------------------------------------------
(* A file between two versions. *)

\* One of the first n statements does this to column c of table t.
Told(v, n, t, do, c) ==
  \E k \in 1..n : Migration[v][k].table = t /\ Migration[v][k].do = do /\ Migration[v][k].column = c

\* Tables that are told by their rows and columns.
WellFormed(tables) == tables = [t \in DOMAIN tables |-> Table(tables[t].rows, tables[t].columns)]

LEMMA TableFields == \A r, c : Table(r, c).rows = r /\ Table(r, c).columns = c
BY DEF Table

LEMMA SchemaForm == \A v \in 1..14 : WellFormed(Schema(v))
<1>1. ASSUME NEW r, NEW c PROVE Table(r, c) = Table(Table(r, c).rows, Table(r, c).columns)
  <2>1. Table(r, c).rows = r /\ Table(r, c).columns = c BY TableFields
  <2> QED BY <2>1, Zenon
<1>2. ASSUME NEW v \in 1..14
      PROVE  Schema(v) = [t \in DOMAIN Schema(v) |-> Schema(v)[t]]
  BY DEF Schema
<1>3. ASSUME NEW v \in 1..11, NEW t \in DOMAIN Schema(v)
      PROVE  \E r, c : Schema(v)[t] = Table(r, c)
  <2>1. Schema(v)[t] = Before(v, t) BY DEF Schema
  <2>2. t \in {"runs", "tasks", "steps", "batches"} BY NamesThen DEF Since
  <2> QED BY <2>1, <2>2 DEF Before
<1>4. ASSUME NEW v \in 12..14, NEW t \in DOMAIN Schema(v)
      PROVE  \E r, c : Schema(v)[t] = Table(r, c)
  <2>1. Schema(v)[t] = Rebuilt(v, t) BY DEF Schema
  <2> QED BY <2>1, NamesNow DEF Rebuilt
<1> SUFFICES ASSUME NEW v \in 1..14 PROVE WellFormed(Schema(v))
  OBVIOUS
<1>5. \A t \in DOMAIN Schema(v) : \E r, c : Schema(v)[t] = Table(r, c) BY <1>3, <1>4
<1> QED BY <1>1, <1>2, <1>5 DEF WellFormed

\* Two files are the same if their tables have the same rows and columns.
LEMMA SameTables ==
  ASSUME NEW T, NEW U, WellFormed(T), WellFormed(U), DOMAIN T = DOMAIN U,
         \A t \in DOMAIN T : /\ T[t].rows = U[t].rows
                             /\ \A c : c \in T[t].columns <=> c \in U[t].columns
  PROVE  T = U
<1>1. \A t \in DOMAIN T : T[t].columns = U[t].columns OBVIOUS
<1> QED BY <1>1 DEF WellFormed

Was(v, t) == IF t \in DOMAIN Schema(v) THEN Schema(v)[t] ELSE Table("batches", {"batch_id", "cost"})

\* PartOf, table by table and column by column.
LEMMA PartIs ==
  ASSUME NEW v, NEW n \in Nat
  PROVE  /\ WellFormed(PartOf(v, n))
         /\ \A t : t \in DOMAIN PartOf(v, n) <=>
              \/ t \in DOMAIN Schema(v)
              \/ \E k \in 1..n : Migration[v][k].do = "create" /\ Migration[v][k].table = t
         /\ \A t \in DOMAIN PartOf(v, n) :
              /\ PartOf(v, n)[t].rows = Was(v, t).rows
              /\ \A c : c \in PartOf(v, n)[t].columns <=>
                   /\ c \in Was(v, t).columns \/ Told(v, n, t, "add", c)
                   /\ ~Told(v, n, t, "dropColumn", c)
<1> DEFINE done == {Migration[v][k] : k \in 1..n}
           created == {s.table : s \in {x \in done : x.do = "create"}}
           of(t, do) == {s.column : s \in {x \in done : x.table = t /\ x.do = do}}
           cols(t) == (Was(v, t).columns \cup of(t, "add")) \ of(t, "dropColumn")
<1>1. PartOf(v, n) = [t \in DOMAIN Schema(v) \cup created |-> Table(Was(v, t).rows, cols(t))]
  BY DEF PartOf, Was
<1>2. \A t, do, c : c \in of(t, do) <=> Told(v, n, t, do, c)
  BY DEF Told
<1>3. \A t : t \in created <=>
               \E k \in 1..n : Migration[v][k].do = "create" /\ Migration[v][k].table = t
  OBVIOUS
<1> HIDE DEF of, created
<1>4. \A t \in DOMAIN PartOf(v, n) :
        PartOf(v, n)[t].rows = Was(v, t).rows /\ PartOf(v, n)[t].columns = cols(t)
  BY <1>1 DEF Table
<1>5. WellFormed(PartOf(v, n))
  BY <1>1, <1>4 DEF WellFormed
<1> QED BY <1>1, <1>2, <1>3, <1>4, <1>5

\* Nothing executed is the version itself.
LEMMA PartZero == ASSUME NEW v \in (1..13) \ {11} PROVE PartOf(v, 0) = Schema(v)
<1>1. DOMAIN PartOf(v, 0) = DOMAIN Schema(v) BY PartIs
<1> QED BY <1>1, PartIs, SameTables, SchemaForm DEF Told, Was

LEMMA ToldMore ==
  ASSUME NEW v, NEW n \in Nat, NEW t, NEW do, NEW c
  PROVE  Told(v, n + 1, t, do, c) <=>
           \/ Told(v, n, t, do, c)
           \/ /\ Migration[v][n + 1].table = t /\ Migration[v][n + 1].do = do
              /\ Migration[v][n + 1].column = c
<1>1. 1..(n + 1) = 1..n \cup {n + 1} OBVIOUS
<1> QED BY <1>1 DEF Told

\* What each kind of statement does to tables that it fits: it is not refused, and
\* these are the tables, rows and columns that there are then.
LEMMA AddEffect ==
  ASSUME NEW T, NEW s, WellFormed(T), s.do = "add", s.table \in DOMAIN T, s.guarded \/ ~Has(T, s)
  PROVE  /\ ~Refused(T, s)
         /\ WellFormed(Executed(T, s)) /\ DOMAIN Executed(T, s) = DOMAIN T
         /\ \A t \in DOMAIN T :
              /\ Executed(T, s)[t].rows = T[t].rows
              /\ \A c : c \in Executed(T, s)[t].columns <=>
                          c \in T[t].columns \/ (t = s.table /\ c = s.column)
<1>1. ~Refused(T, s) BY DEF Skipped, Refused
<1>2. CASE Skipped(T, s)
  BY <1>1, <1>2 DEF Skipped, Has, Executed
<1>3. CASE ~Skipped(T, s)
  <2> DEFINE X == Executed(T, s)
             more == Table(T[s.table].rows, T[s.table].columns \cup {s.column})
  <2>1. X = [T EXCEPT ![s.table].columns = @ \cup {s.column}]
    BY <1>3 DEF Executed
  <2>2. \A t \in DOMAIN T : T[t] = Table(T[t].rows, T[t].columns)
    BY DEF WellFormed
  <2>3. X = [t \in DOMAIN T |-> IF t = s.table THEN more ELSE T[t]]
    BY <2>1, <2>2 DEF Table
  <2> HIDE DEF X
  <2>4. ASSUME NEW t \in DOMAIN T
        PROVE  /\ X[t] = Table(X[t].rows, X[t].columns)
               /\ X[t].rows = T[t].rows
               /\ \A c : c \in X[t].columns <=> c \in T[t].columns \/ (t = s.table /\ c = s.column)
    <3>1. CASE t = s.table
      <4>1. X[t] = more BY <2>3, <3>1
      <4>2. X[t].rows = T[s.table].rows /\ X[t].columns = T[s.table].columns \cup {s.column}
        BY <4>1, TableFields
      <4> QED BY <3>1, <4>1, <4>2
    <3>2. CASE t # s.table
      <4>1. X[t] = T[t] BY <2>3, <3>2
      <4> QED BY <2>2, <3>2, <4>1
    <3> QED BY <3>1, <3>2
  <2>5. X = [t \in DOMAIN X |-> X[t]] /\ DOMAIN X = DOMAIN T BY <2>3
  <2>6. WellFormed(X) BY <2>4, <2>5 DEF WellFormed
  <2> QED BY <1>1, <2>4, <2>5, <2>6 DEF X
<1> QED BY <1>2, <1>3

LEMMA DropEffect ==
  ASSUME NEW T, NEW s, WellFormed(T), s.do = "dropColumn", s.table \in DOMAIN T, s.guarded
  PROVE  /\ ~Refused(T, s)
         /\ WellFormed(Executed(T, s)) /\ DOMAIN Executed(T, s) = DOMAIN T
         /\ \A t \in DOMAIN T :
              /\ Executed(T, s)[t].rows = T[t].rows
              /\ \A c : c \in Executed(T, s)[t].columns <=>
                          c \in T[t].columns /\ ~(t = s.table /\ c = s.column)
<1>1. ~Refused(T, s) BY DEF Skipped, Refused
<1>2. CASE Skipped(T, s)
  BY <1>1, <1>2 DEF Skipped, Has, Executed
<1>3. CASE ~Skipped(T, s)
  <2> DEFINE X == Executed(T, s)
             less == Table(T[s.table].rows, T[s.table].columns \ {s.column})
  <2>1. X = [T EXCEPT ![s.table].columns = @ \ {s.column}]
    BY <1>3 DEF Executed
  <2>2. \A t \in DOMAIN T : T[t] = Table(T[t].rows, T[t].columns)
    BY DEF WellFormed
  <2>3. X = [t \in DOMAIN T |-> IF t = s.table THEN less ELSE T[t]]
    BY <2>1, <2>2 DEF Table
  <2> HIDE DEF X
  <2>4. ASSUME NEW t \in DOMAIN T
        PROVE  /\ X[t] = Table(X[t].rows, X[t].columns)
               /\ X[t].rows = T[t].rows
               /\ \A c : c \in X[t].columns <=> c \in T[t].columns /\ ~(t = s.table /\ c = s.column)
    <3>1. CASE t = s.table
      <4>1. X[t] = less BY <2>3, <3>1
      <4>2. X[t].rows = T[s.table].rows /\ X[t].columns = T[s.table].columns \ {s.column}
        BY <4>1, TableFields
      <4> QED BY <3>1, <4>1, <4>2
    <3>2. CASE t # s.table
      <4>1. X[t] = T[t] BY <2>3, <3>2
      <4> QED BY <2>2, <3>2, <4>1
    <3> QED BY <3>1, <3>2
  <2>5. X = [t \in DOMAIN X |-> X[t]] /\ DOMAIN X = DOMAIN T BY <2>3
  <2>6. WellFormed(X) BY <2>4, <2>5 DEF WellFormed
  <2> QED BY <1>1, <2>4, <2>5, <2>6 DEF X
<1> QED BY <1>2, <1>3

NewTable == Table("batches", {"batch_id", "cost"})

LEMMA CreateEffect ==
  ASSUME NEW T, NEW s, WellFormed(T), s.do = "create", s.table \notin DOMAIN T
  PROVE  /\ ~Refused(T, s)
         /\ WellFormed(Executed(T, s))
         /\ DOMAIN Executed(T, s) = DOMAIN T \cup {s.table}
         /\ Executed(T, s)[s.table] = NewTable
         /\ \A t \in DOMAIN T : Executed(T, s)[t] = T[t]
<1> DEFINE X == Executed(T, s)
<1>1. ~Refused(T, s) BY DEF Skipped, Refused
<1>2. ~Skipped(T, s) BY DEF Skipped
<1>3. X = Put(T, s.table, NewTable) BY <1>2 DEF Executed, NewTable
<1>4. X = [t \in DOMAIN T \cup {s.table} |-> IF t = s.table THEN NewTable ELSE T[t]]
  BY <1>3 DEF Put
<1> HIDE DEF X
<1>5. /\ DOMAIN X = DOMAIN T \cup {s.table} /\ X = [t \in DOMAIN X |-> X[t]]
      /\ X[s.table] = NewTable
      /\ \A t \in DOMAIN T : X[t] = T[t]
  BY <1>4
<1>6. NewTable = Table(NewTable.rows, NewTable.columns) BY TableFields DEF NewTable
<1>7. WellFormed(X) BY <1>5, <1>6 DEF WellFormed
<1> QED BY <1>1, <1>5, <1>7 DEF X

\* The next statement leads to the next part.
LEMMA NextPart ==
  ASSUME NEW v \in (1..13) \ {11}, NEW n \in Nat, n + 1 \in Steps(v),
         NEW s, s = Migration[v][n + 1],
         s.guarded \/ ~Has(PartOf(v, n), s)
  PROVE  /\ ~Refused(PartOf(v, n), s)
         /\ Executed(PartOf(v, n), s) = PartOf(v, n + 1)
<1> DEFINE T == PartOf(v, n)
           U == PartOf(v, n + 1)
           X == Executed(T, s)
<1>1. Plain(s, Schema(v)) BY AllPlain
<1>2. WellFormed(T) /\ WellFormed(U) BY PartIs
<1>3. \A t \in DOMAIN Schema(v) : t \in DOMAIN T /\ t \in DOMAIN U BY PartIs
<1>4. 1..(n + 1) = 1..n \cup {n + 1} OBVIOUS
<1>5. \A m \in {n, n + 1} : \A k \in 1..m : k \in Steps(v) BY DEF Steps
<1>6. \A t, do, c : Told(v, n + 1, t, do, c) <=>
         Told(v, n, t, do, c) \/ (s.table = t /\ s.do = do /\ s.column = c)
  BY ToldMore
<1>7. CASE s.do = "add"
  <2>1. s.table \in DOMAIN T BY <1>1, <1>3, <1>7 DEF Plain
  <2>2. \A t : t \in DOMAIN U <=> t \in DOMAIN T
    BY <1>4, <1>7, PartIs
  <2>3. v # 3 BY <1>7, DropsAlone
  <2>4. \A t, c : ~Told(v, n + 1, t, "dropColumn", c) /\ ~Told(v, n, t, "dropColumn", c)
    BY <1>5, <2>3, DropsAlone DEF Told
  <2>5. \A t \in DOMAIN T :
          /\ U[t].rows = T[t].rows
          /\ \A c : c \in U[t].columns <=> c \in T[t].columns \/ (t = s.table /\ c = s.column)
    BY <1>6, <1>7, <2>2, <2>4, PartIs
  <2>6. DOMAIN U = DOMAIN T BY <2>2
  <2>7. /\ ~Refused(T, s) /\ WellFormed(X) /\ DOMAIN X = DOMAIN T
        /\ \A t \in DOMAIN T :
             /\ X[t].rows = T[t].rows
             /\ \A c : c \in X[t].columns <=> c \in T[t].columns \/ (t = s.table /\ c = s.column)
    BY <1>2, <1>7, <2>1, AddEffect
  <2> HIDE DEF T, U, X
  <2>8. X = U BY <1>2, <2>5, <2>6, <2>7, SameTables
  <2> QED BY <2>7, <2>8 DEF T, U, X
<1>8. CASE s.do = "dropColumn"
  <2>1. s.table \in DOMAIN T /\ s.guarded BY <1>1, <1>3, <1>8 DEF Plain
  <2>2. \A t : t \in DOMAIN U <=> t \in DOMAIN T
    BY <1>4, <1>8, PartIs
  <2>3. v = 3 BY <1>8, DropsAlone
  <2>4. \A t, c : ~Told(v, n + 1, t, "add", c) /\ ~Told(v, n, t, "add", c)
    BY <1>5, <2>3, DropsAlone DEF Told
  <2>5. \A t \in DOMAIN T :
          /\ U[t].rows = T[t].rows
          /\ \A c : c \in U[t].columns <=> c \in T[t].columns /\ ~(t = s.table /\ c = s.column)
    BY <1>6, <1>8, <2>2, <2>4, PartIs
  <2>6. DOMAIN U = DOMAIN T BY <2>2
  <2>7. /\ ~Refused(T, s) /\ WellFormed(X) /\ DOMAIN X = DOMAIN T
        /\ \A t \in DOMAIN T :
             /\ X[t].rows = T[t].rows
             /\ \A c : c \in X[t].columns <=> c \in T[t].columns /\ ~(t = s.table /\ c = s.column)
    BY <1>2, <1>8, <2>1, DropEffect
  <2> HIDE DEF T, U, X
  <2>8. X = U BY <1>2, <2>5, <2>6, <2>7, SameTables
  <2> QED BY <2>7, <2>8 DEF T, U, X
<1>9. CASE s.do = "create"
  <2>1. s.table = "batches" /\ s.table \notin DOMAIN Schema(v) /\ s.guarded BY <1>1, <1>9 DEF Plain
  <2>2. \A t : t \in DOMAIN U <=> t \in DOMAIN T \/ t = s.table
    BY <1>4, <1>9, PartIs
  <2>3. \A t, c : \A do \in {"add", "dropColumn"} :
          /\ Told(v, n + 1, t, do, c) <=> Told(v, n, t, do, c)
          /\ ~Told(v, n + 1, s.table, do, c)
    <3>1. \A k \in Steps(v) :
            Migration[v][k].do \in {"add", "dropColumn"} => Migration[v][k].table # s.table
      BY <2>1, AllPlain DEF Plain
    <3> QED BY <1>5, <1>6, <1>9, <3>1 DEF Told
  <2>4. \A t \in DOMAIN T : /\ U[t].rows = T[t].rows
                           /\ \A c : c \in U[t].columns <=> c \in T[t].columns
    BY <2>2, <2>3, PartIs
  <2>5. /\ U[s.table].rows = NewTable.rows
        /\ \A c : c \in U[s.table].columns <=> c \in NewTable.columns
    BY <2>1, <2>2, <2>3, PartIs DEF Was, NewTable
  <2>6. s.table \notin DOMAIN T
    <3>1. \A k \in 1..n : Migration[v][k].do = "create" => Migration[v][k].table # s.table
      BY <1>9, <1>5, <2>1, Creates
    <3> QED BY <2>1, <3>1, PartIs
  <2> HIDE DEF T
  <2>7. /\ ~Refused(T, s) /\ WellFormed(X) /\ DOMAIN X = DOMAIN T \cup {s.table}
        /\ X[s.table] = NewTable
        /\ \A t \in DOMAIN T : X[t] = T[t]
    BY <1>2, <1>9, <2>1, <2>6, CreateEffect
  <2>8. DOMAIN U = DOMAIN X BY <2>2, <2>7
  <2> HIDE DEF T, U, X
  <2>9. X = U BY <1>2, <2>4, <2>5, <2>7, <2>8, SameTables
  <2> QED BY <2>7, <2>9 DEF T, U, X
<1> QED BY <1>1, <1>7, <1>8, <1>9 DEF Plain

\* Up to version 10, a statement that was executed is left alone.
LEMMA PartAgain ==
  ASSUME NEW v \in 1..10, NEW m \in Nat, NEW n \in 1..m,
         m \in 0..Len(Migration[v]), NEW s, s = Migration[v][n]
  PROVE  /\ ~Refused(PartOf(v, m), s)
         /\ Executed(PartOf(v, m), s) = PartOf(v, m)
<1> DEFINE T == PartOf(v, m)
<1>1. s.guarded /\ Plain(s, Schema(v)) /\ n \in Steps(v) BY Guarded, AllPlain DEF Steps
<1>2. WellFormed(T) BY PartIs
<1>3. CASE s.do = "add"
  <2>1. s.table \in DOMAIN T BY <1>1, <1>3, PartIs DEF Plain
  <2>2. v # 3 BY <1>1, <1>3, DropsAlone
  <2>3. ~Told(v, m, s.table, "dropColumn", s.column)
    BY <2>2, DropsAlone DEF Told, Steps
  <2>4. Told(v, m, s.table, "add", s.column) BY <1>3 DEF Told
  <2>5. s.column \in T[s.table].columns BY <2>1, <2>3, <2>4, PartIs
  <2>6. Skipped(T, s) BY <1>1, <1>3, <2>1, <2>5 DEF Skipped, Has
  <2> QED BY <2>6 DEF Executed, Refused
<1>4. CASE s.do = "dropColumn"
  <2>1. s.table \in DOMAIN T BY <1>1, <1>4, PartIs DEF Plain
  <2>2. Told(v, m, s.table, "dropColumn", s.column) BY <1>4 DEF Told
  <2>3. s.column \notin T[s.table].columns BY <2>1, <2>2, PartIs
  <2>4. Skipped(T, s) BY <1>1, <1>4, <2>1, <2>3 DEF Skipped, Has
  <2> QED BY <2>4 DEF Executed, Refused
<1>5. CASE s.do = "create"
  <2>1. s.table \in DOMAIN T BY <1>5, PartIs
  <2>2. Skipped(T, s) BY <1>1, <1>5, <2>1 DEF Skipped
  <2> QED BY <2>2 DEF Executed, Refused
<1> QED BY <1>1, <1>3, <1>4, <1>5 DEF Plain

--------------------------------------------------------------------------------
(* All statements of a migration lead to the next version. *)

About(s, t, do, c) == s.table = t /\ s.do = do /\ s.column = c

LEMMA AboutWhat ==
  ASSUME NEW u, NEW d, NEW t, NEW do, NEW c
  PROVE  /\ About(AddMissing(u, d), t, do, c) <=> t = u /\ do = "add" /\ c = d
         /\ About(Add(u, d), t, do, c) <=> t = u /\ do = "add" /\ c = d
         /\ About(DropPresent(u, d), t, do, c) <=> t = u /\ do = "dropColumn" /\ c = d
         /\ About(CreateTable(u), t, do, c) => do = "create"
BY Fields DEF About

\* No migration but version 11's has more than four statements.
LEMMA ToldUpTo ==
  ASSUME NEW v, NEW t, NEW do, NEW c
  PROVE  /\ Told(v, 1, t, do, c) <=> About(Migration[v][1], t, do, c)
         /\ Told(v, 2, t, do, c) <=>
              About(Migration[v][1], t, do, c) \/ About(Migration[v][2], t, do, c)
         /\ Told(v, 3, t, do, c) <=>
              \/ About(Migration[v][1], t, do, c) \/ About(Migration[v][2], t, do, c)
              \/ About(Migration[v][3], t, do, c)
         /\ Told(v, 4, t, do, c) <=>
              \/ About(Migration[v][1], t, do, c) \/ About(Migration[v][2], t, do, c)
              \/ About(Migration[v][3], t, do, c) \/ About(Migration[v][4], t, do, c)
BY DEF Told, About

LEMMA PartNames ==
  \A v \in (1..13) \ {11} : \A n \in Steps(v) :
    DOMAIN PartOf(v, n) =
      IF v = 1 THEN DOMAIN Schema(1) \cup {"batches"} ELSE DOMAIN Schema(v)
<1> SUFFICES ASSUME NEW v \in (1..13) \ {11}, NEW n \in Steps(v)
             PROVE  DOMAIN PartOf(v, n) =
                      IF v = 1 THEN DOMAIN Schema(1) \cup {"batches"} ELSE DOMAIN Schema(v)
  OBVIOUS
<1>1. \A k \in 1..n : Migration[v][k].do = "create" <=> v = 1 /\ k = 1
  BY Creates DEF Steps
<1>2. Migration[1][1].table = "batches" BY Listed1, Fields
<1>3. 1 \in 1..n /\ n \in Nat BY DEF Steps
<1>4. \A t : t \in DOMAIN PartOf(v, n) <=>
               t \in DOMAIN Schema(v) \/ (v = 1 /\ t = "batches")
  BY <1>1, <1>2, <1>3, PartIs
<1>5. CASE v = 1 BY <1>4, <1>5
<1>6. CASE v # 1 BY <1>4, <1>6
<1> QED BY <1>5, <1>6

\* What a whole migration leaves is what the schema of the next version asks for.
LEMMA PartLast ==
  \A v \in (1..13) \ {11} : PartOf(v, Len(Migration[v])) = Schema(v + 1)
<1> SUFFICES ASSUME NEW v \in (1..13) \ {11} PROVE PartOf(v, Len(Migration[v])) = Schema(v + 1)
  OBVIOUS
<1>1. CASE v = 1
  <2>1. Len(Migration[1]) = 3 BY DEF Migration
  <2>2. \A t, c : /\ Told(1, 3, t, "add", c) <=>
                          \/ (t = "runs" /\ c = "batch_id") \/ (t = "steps" /\ c = "v2")
                  /\ ~Told(1, 3, t, "dropColumn", c)
    <3> TAKE t, c
    <3>1. \A do \in {"add", "dropColumn"} :
            /\ ~About(Migration[1][1], t, do, c)
            /\ About(Migration[1][2], t, do, c) <=> t = "runs" /\ do = "add" /\ c = "batch_id"
            /\ About(Migration[1][3], t, do, c) <=> t = "steps" /\ do = "add" /\ c = "v2"
      BY AboutWhat, Listed1
    <3> QED BY <3>1, ToldUpTo
  <2>3. DOMAIN PartOf(1, 3) = DOMAIN Schema(2)
    <3>1. 3 \in Steps(1) BY Listed1
    <3>2. DOMAIN PartOf(1, 3) = DOMAIN Schema(1) \cup {"batches"} BY <3>1, PartNames
    <3> QED BY <3>2, NamesThen DEF Since
  <2>4. ASSUME NEW t \in DOMAIN Schema(2)
        PROVE  /\ Schema(2)[t].rows = PartOf(1, 3)[t].rows
               /\ \A c : c \in Schema(2)[t].columns <=> c \in PartOf(1, 3)[t].columns
    <3>1. t \in {"runs", "tasks", "steps", "batches"} BY NamesThen DEF Since
    <3>2. Schema(2)[t] = Before(2, t) BY NamesThen DEF Schema
    <3>3. t # "batches" => Was(1, t) = Before(1, t) BY <3>1, NamesThen DEF Schema, Was
    <3>4. Was(1, "batches") = Table("batches", {"batch_id", "cost"}) BY NamesThen DEF Was, Since
    <3> QED BY <2>2, <2>3, <3>1, <3>2, <3>3, <3>4, PartIs, TableFields
            DEF Before, Since, Until, PerItem, PerStep
  <2> QED BY <1>1, <2>1, <2>3, <2>4, PartIs, SchemaForm, SameTables
<1>2. CASE v = 2
  <2>1. Len(Migration[2]) = 3 BY DEF Migration
  <2>2. \A t, c : /\ Told(2, 3, t, "add", c) <=>
                          \/ (t = "tasks" /\ c = "item_id") \/ (t = "tasks" /\ c = "v3")
                          \/ (t = "runs" /\ c = "item_id")
                  /\ ~Told(2, 3, t, "dropColumn", c)
    BY ToldUpTo, AboutWhat, Listed2
  <2>3. DOMAIN PartOf(2, 3) = DOMAIN Schema(3)
    <3>1. 3 \in Steps(2) BY Listed2
    <3>2. DOMAIN PartOf(2, 3) = DOMAIN Schema(2) BY <3>1, PartNames
    <3> QED BY <3>2, NamesThen DEF Since
  <2>4. ASSUME NEW t \in DOMAIN Schema(3)
        PROVE  /\ Schema(3)[t].rows = PartOf(2, 3)[t].rows
               /\ \A c : c \in Schema(3)[t].columns <=> c \in PartOf(2, 3)[t].columns
    <3>1. t \in {"runs", "tasks", "steps", "batches"} BY NamesThen DEF Since
    <3>2. Schema(3)[t] = Before(3, t) BY NamesThen DEF Schema
    <3>3. Was(2, t) = Before(2, t) BY <3>1, NamesThen DEF Schema, Was, Since
    <3> QED BY <2>2, <2>3, <3>1, <3>2, <3>3, PartIs, TableFields
            DEF Before, Since, Until, PerItem, PerStep
  <2> QED BY <1>2, <2>1, <2>3, <2>4, PartIs, SchemaForm, SameTables
<1>3. CASE v = 3
  <2>1. Len(Migration[3]) = 4 BY DEF Migration
  <2>2. \A t, c : /\ ~Told(3, 4, t, "add", c)
                  /\ Told(3, 4, t, "dropColumn", c) <=>
                          \/ (t = "runs" /\ c = "cost") \/ (t = "tasks" /\ c = "cost")
                          \/ (t = "steps" /\ c = "cost") \/ (t = "batches" /\ c = "cost")
    BY ToldUpTo, AboutWhat, Listed3
  <2>3. DOMAIN PartOf(3, 4) = DOMAIN Schema(4)
    <3>1. 4 \in Steps(3) BY Listed3
    <3>2. DOMAIN PartOf(3, 4) = DOMAIN Schema(3) BY <3>1, PartNames
    <3> QED BY <3>2, NamesThen DEF Since
  <2>4. ASSUME NEW t \in DOMAIN Schema(4)
        PROVE  /\ Schema(4)[t].rows = PartOf(3, 4)[t].rows
               /\ \A c : c \in Schema(4)[t].columns <=> c \in PartOf(3, 4)[t].columns
    <3>1. t \in {"runs", "tasks", "steps", "batches"} BY NamesThen DEF Since
    <3>2. Schema(4)[t] = Before(4, t) BY NamesThen DEF Schema
    <3>3. Was(3, t) = Before(3, t) BY <3>1, NamesThen DEF Schema, Was, Since
    <3> QED BY <2>2, <2>3, <3>1, <3>2, <3>3, PartIs, TableFields
            DEF Before, Since, Until, PerItem, PerStep
  <2> QED BY <1>3, <2>1, <2>3, <2>4, PartIs, SchemaForm, SameTables
<1>4. CASE v = 4
  <2>1. Len(Migration[4]) = 1 BY DEF Migration
  <2>2. \A t, c : /\ Told(4, 1, t, "add", c) <=> (t = "tasks" /\ c = "v5")
                  /\ ~Told(4, 1, t, "dropColumn", c)
    BY ToldUpTo, AboutWhat, Listed4
  <2>3. DOMAIN PartOf(4, 1) = DOMAIN Schema(5)
    <3>1. 1 \in Steps(4) BY Listed4
    <3>2. DOMAIN PartOf(4, 1) = DOMAIN Schema(4) BY <3>1, PartNames
    <3> QED BY <3>2, NamesThen DEF Since
  <2>4. ASSUME NEW t \in DOMAIN Schema(5)
        PROVE  /\ Schema(5)[t].rows = PartOf(4, 1)[t].rows
               /\ \A c : c \in Schema(5)[t].columns <=> c \in PartOf(4, 1)[t].columns
    <3>1. t \in {"runs", "tasks", "steps", "batches"} BY NamesThen DEF Since
    <3>2. Schema(5)[t] = Before(5, t) BY NamesThen DEF Schema
    <3>3. Was(4, t) = Before(4, t) BY <3>1, NamesThen DEF Schema, Was, Since
    <3> QED BY <2>2, <2>3, <3>1, <3>2, <3>3, PartIs, TableFields
            DEF Before, Since, Until, PerItem, PerStep
  <2> QED BY <1>4, <2>1, <2>3, <2>4, PartIs, SchemaForm, SameTables
<1>5. CASE v = 5
  <2>1. Len(Migration[5]) = 1 BY DEF Migration
  <2>2. \A t, c : /\ Told(5, 1, t, "add", c) <=> (t = "runs" /\ c = "v6")
                  /\ ~Told(5, 1, t, "dropColumn", c)
    BY ToldUpTo, AboutWhat, Listed5
  <2>3. DOMAIN PartOf(5, 1) = DOMAIN Schema(6)
    <3>1. 1 \in Steps(5) BY Listed5
    <3>2. DOMAIN PartOf(5, 1) = DOMAIN Schema(5) BY <3>1, PartNames
    <3> QED BY <3>2, NamesThen DEF Since
  <2>4. ASSUME NEW t \in DOMAIN Schema(6)
        PROVE  /\ Schema(6)[t].rows = PartOf(5, 1)[t].rows
               /\ \A c : c \in Schema(6)[t].columns <=> c \in PartOf(5, 1)[t].columns
    <3>1. t \in {"runs", "tasks", "steps", "batches"} BY NamesThen DEF Since
    <3>2. Schema(6)[t] = Before(6, t) BY NamesThen DEF Schema
    <3>3. Was(5, t) = Before(5, t) BY <3>1, NamesThen DEF Schema, Was, Since
    <3> QED BY <2>2, <2>3, <3>1, <3>2, <3>3, PartIs, TableFields
            DEF Before, Since, Until, PerItem, PerStep
  <2> QED BY <1>5, <2>1, <2>3, <2>4, PartIs, SchemaForm, SameTables
<1>6. CASE v = 6
  <2>1. Len(Migration[6]) = 2 BY DEF Migration
  <2>2. \A t, c : /\ Told(6, 2, t, "add", c) <=>
                          \/ (t = "runs" /\ c = "v7") \/ (t = "tasks" /\ c = "v7")
                  /\ ~Told(6, 2, t, "dropColumn", c)
    BY ToldUpTo, AboutWhat, Listed6
  <2>3. DOMAIN PartOf(6, 2) = DOMAIN Schema(7)
    <3>1. 2 \in Steps(6) BY Listed6
    <3>2. DOMAIN PartOf(6, 2) = DOMAIN Schema(6) BY <3>1, PartNames
    <3> QED BY <3>2, NamesThen DEF Since
  <2>4. ASSUME NEW t \in DOMAIN Schema(7)
        PROVE  /\ Schema(7)[t].rows = PartOf(6, 2)[t].rows
               /\ \A c : c \in Schema(7)[t].columns <=> c \in PartOf(6, 2)[t].columns
    <3>1. t \in {"runs", "tasks", "steps", "batches"} BY NamesThen DEF Since
    <3>2. Schema(7)[t] = Before(7, t) BY NamesThen DEF Schema
    <3>3. Was(6, t) = Before(6, t) BY <3>1, NamesThen DEF Schema, Was, Since
    <3> QED BY <2>2, <2>3, <3>1, <3>2, <3>3, PartIs, TableFields
            DEF Before, Since, Until, PerItem, PerStep
  <2> QED BY <1>6, <2>1, <2>3, <2>4, PartIs, SchemaForm, SameTables
<1>7. CASE v = 7
  <2>1. Len(Migration[7]) = 1 BY DEF Migration
  <2>2. \A t, c : /\ Told(7, 1, t, "add", c) <=> (t = "tasks" /\ c = "v8")
                  /\ ~Told(7, 1, t, "dropColumn", c)
    BY ToldUpTo, AboutWhat, Listed7
  <2>3. DOMAIN PartOf(7, 1) = DOMAIN Schema(8)
    <3>1. 1 \in Steps(7) BY Listed7
    <3>2. DOMAIN PartOf(7, 1) = DOMAIN Schema(7) BY <3>1, PartNames
    <3> QED BY <3>2, NamesThen DEF Since
  <2>4. ASSUME NEW t \in DOMAIN Schema(8)
        PROVE  /\ Schema(8)[t].rows = PartOf(7, 1)[t].rows
               /\ \A c : c \in Schema(8)[t].columns <=> c \in PartOf(7, 1)[t].columns
    <3>1. t \in {"runs", "tasks", "steps", "batches"} BY NamesThen DEF Since
    <3>2. Schema(8)[t] = Before(8, t) BY NamesThen DEF Schema
    <3>3. Was(7, t) = Before(7, t) BY <3>1, NamesThen DEF Schema, Was, Since
    <3> QED BY <2>2, <2>3, <3>1, <3>2, <3>3, PartIs, TableFields
            DEF Before, Since, Until, PerItem, PerStep
  <2> QED BY <1>7, <2>1, <2>3, <2>4, PartIs, SchemaForm, SameTables
<1>8. CASE v = 8
  <2>1. Len(Migration[8]) = 2 BY DEF Migration
  <2>2. \A t, c : /\ Told(8, 2, t, "add", c) <=>
                          \/ (t = "runs" /\ c = "v9") \/ (t = "tasks" /\ c = "v9")
                  /\ ~Told(8, 2, t, "dropColumn", c)
    BY ToldUpTo, AboutWhat, Listed8
  <2>3. DOMAIN PartOf(8, 2) = DOMAIN Schema(9)
    <3>1. 2 \in Steps(8) BY Listed8
    <3>2. DOMAIN PartOf(8, 2) = DOMAIN Schema(8) BY <3>1, PartNames
    <3> QED BY <3>2, NamesThen DEF Since
  <2>4. ASSUME NEW t \in DOMAIN Schema(9)
        PROVE  /\ Schema(9)[t].rows = PartOf(8, 2)[t].rows
               /\ \A c : c \in Schema(9)[t].columns <=> c \in PartOf(8, 2)[t].columns
    <3>1. t \in {"runs", "tasks", "steps", "batches"} BY NamesThen DEF Since
    <3>2. Schema(9)[t] = Before(9, t) BY NamesThen DEF Schema
    <3>3. Was(8, t) = Before(8, t) BY <3>1, NamesThen DEF Schema, Was, Since
    <3> QED BY <2>2, <2>3, <3>1, <3>2, <3>3, PartIs, TableFields
            DEF Before, Since, Until, PerItem, PerStep
  <2> QED BY <1>8, <2>1, <2>3, <2>4, PartIs, SchemaForm, SameTables
<1>9. CASE v = 9
  <2>1. Len(Migration[9]) = 1 BY DEF Migration
  <2>2. \A t, c : /\ Told(9, 1, t, "add", c) <=> (t = "runs" /\ c = "v10")
                  /\ ~Told(9, 1, t, "dropColumn", c)
    BY ToldUpTo, AboutWhat, Listed9
  <2>3. DOMAIN PartOf(9, 1) = DOMAIN Schema(10)
    <3>1. 1 \in Steps(9) BY Listed9
    <3>2. DOMAIN PartOf(9, 1) = DOMAIN Schema(9) BY <3>1, PartNames
    <3> QED BY <3>2, NamesThen DEF Since
  <2>4. ASSUME NEW t \in DOMAIN Schema(10)
        PROVE  /\ Schema(10)[t].rows = PartOf(9, 1)[t].rows
               /\ \A c : c \in Schema(10)[t].columns <=> c \in PartOf(9, 1)[t].columns
    <3>1. t \in {"runs", "tasks", "steps", "batches"} BY NamesThen DEF Since
    <3>2. Schema(10)[t] = Before(10, t) BY NamesThen DEF Schema
    <3>3. Was(9, t) = Before(9, t) BY <3>1, NamesThen DEF Schema, Was, Since
    <3> QED BY <2>2, <2>3, <3>1, <3>2, <3>3, PartIs, TableFields
            DEF Before, Since, Until, PerItem, PerStep
  <2> QED BY <1>9, <2>1, <2>3, <2>4, PartIs, SchemaForm, SameTables
<1>10. CASE v = 10
  <2>1. Len(Migration[10]) = 2 BY DEF Migration
  <2>2. \A t, c : /\ Told(10, 2, t, "add", c) <=>
                          \/ (t = "tasks" /\ c = "v11") \/ (t = "runs" /\ c = "v11")
                  /\ ~Told(10, 2, t, "dropColumn", c)
    BY ToldUpTo, AboutWhat, Listed10
  <2>3. DOMAIN PartOf(10, 2) = DOMAIN Schema(11)
    <3>1. 2 \in Steps(10) BY Listed10
    <3>2. DOMAIN PartOf(10, 2) = DOMAIN Schema(10) BY <3>1, PartNames
    <3> QED BY <3>2, NamesThen DEF Since
  <2>4. ASSUME NEW t \in DOMAIN Schema(11)
        PROVE  /\ Schema(11)[t].rows = PartOf(10, 2)[t].rows
               /\ \A c : c \in Schema(11)[t].columns <=> c \in PartOf(10, 2)[t].columns
    <3>1. t \in {"runs", "tasks", "steps", "batches"} BY NamesThen DEF Since
    <3>2. Schema(11)[t] = Before(11, t) BY NamesThen DEF Schema
    <3>3. Was(10, t) = Before(10, t) BY <3>1, NamesThen DEF Schema, Was, Since
    <3> QED BY <2>2, <2>3, <3>1, <3>2, <3>3, PartIs, TableFields
            DEF Before, Since, Until, PerItem, PerStep
  <2> QED BY <1>10, <2>1, <2>3, <2>4, PartIs, SchemaForm, SameTables
<1>12. CASE v = 12
  <2>1. Len(Migration[12]) = 2 BY DEF Migration
  <2>2. \A t, c : /\ Told(12, 2, t, "add", c) <=>
                          \/ (t = "steps" /\ c = "execution_token") \/ (t = "steps" /\ c = "attempt")
                  /\ ~Told(12, 2, t, "dropColumn", c)
    BY ToldUpTo, AboutWhat, Listed12
  <2>3. DOMAIN PartOf(12, 2) = DOMAIN Schema(13)
    <3>1. 2 \in Steps(12) BY Listed12
    <3>2. DOMAIN PartOf(12, 2) = DOMAIN Schema(12) BY <3>1, PartNames
    <3> QED BY <3>2, NamesNow
  <2>4. ASSUME NEW t \in DOMAIN Schema(13)
        PROVE  /\ Schema(13)[t].rows = PartOf(12, 2)[t].rows
               /\ \A c : c \in Schema(13)[t].columns <=> c \in PartOf(12, 2)[t].columns
    <3>1. t \in {"items", "runs", "steps"} BY NamesNow
    <3>2. Schema(13)[t] = Rebuilt(13, t) BY NamesNow DEF Schema
    <3>3. Was(12, t) = Rebuilt(12, t) BY <3>1, NamesNow DEF Schema, Was, Since
    <3> QED BY <2>2, <2>3, <3>1, <3>2, <3>3, PartIs, TableFields
            DEF Rebuilt, Since, Until, PerItem, PerStep
  <2> QED BY <1>12, <2>1, <2>3, <2>4, PartIs, SchemaForm, SameTables
<1>13. CASE v = 13
  <2>1. Len(Migration[13]) = 2 BY DEF Migration
  <2>2. \A t, c : /\ Told(13, 2, t, "add", c) <=>
                          \/ (t = "steps" /\ c = "tainted_by") \/ (t = "steps" /\ c = "tainted_reason")
                  /\ ~Told(13, 2, t, "dropColumn", c)
    BY ToldUpTo, AboutWhat, Listed13
  <2>3. DOMAIN PartOf(13, 2) = DOMAIN Schema(14)
    <3>1. 2 \in Steps(13) BY Listed13
    <3>2. DOMAIN PartOf(13, 2) = DOMAIN Schema(13) BY <3>1, PartNames
    <3> QED BY <3>2, NamesNow
  <2>4. ASSUME NEW t \in DOMAIN Schema(14)
        PROVE  /\ Schema(14)[t].rows = PartOf(13, 2)[t].rows
               /\ \A c : c \in Schema(14)[t].columns <=> c \in PartOf(13, 2)[t].columns
    <3>1. t \in {"items", "runs", "steps"} BY NamesNow
    <3>2. Schema(14)[t] = Rebuilt(14, t) BY NamesNow DEF Schema
    <3>3. Was(13, t) = Rebuilt(13, t) BY <3>1, NamesNow DEF Schema, Was, Since
    <3> QED BY <2>2, <2>3, <3>1, <3>2, <3>3, PartIs, TableFields
            DEF Rebuilt, Since, Until, PerItem, PerStep
  <2> QED BY <1>13, <2>1, <2>3, <2>4, PartIs, SchemaForm, SameTables
<1> QED BY <1>1, <1>2, <1>3, <1>4, <1>5, <1>6, <1>7, <1>8, <1>9, <1>10, <1>12, <1>13

--------------------------------------------------------------------------------
(* The rebuild of version 11. *)

\* The three tables that there are in the end, after m statements.
ItemsTable(m) ==
  Table("items", PerItem(11) \cup Since(2, m, "run_id") \cup Since(m, 3, "id")
                   \cup Since(3, m, "batch_id") \cup Since(m, 4, "run_id"))
RunsTable(m) ==
  Table("batches", Since(5, m, "batch_id") \cup Since(m, 6, "run_id")
                     \cup Since(m, 7, "replayed_from"))
StepsTable(m) ==
  Table("checkpoints", PerStep(11) \cup Since(7, m, "item_id") \cup Since(m, 8, "customer_item_id")
                         \cup Since(8, m, "run_id") \cup Since(m, 9, "item_id"))

\* The tables of version 11 after m statements of their rebuild.
NamesOf(m) ==
  Since(1, m, "runs") \cup Since(m, 2, "items") \cup Since(4, m, "batches") \cup Since(m, 5, "runs")
    \cup Since(9, m, "tasks") \cup Since(m, 10, "steps") \cup Since(0, m, "steps")
TableOf(m, t) ==
  CASE t = "items" -> ItemsTable(m)
    [] t = "runs" -> IF m <= 1 THEN ItemsTable(m) ELSE RunsTable(m)
    [] t = "batches" -> RunsTable(m)
    [] t = "tasks" -> StepsTable(m)
    [] t = "steps" -> IF m = 0 THEN Table("legacy", {"run_id", "v2"}) ELSE StepsTable(m)
Rebuilding(m) == [t \in NamesOf(m) |-> TableOf(m, t)]

\* What a second attempt leaves of a rebuild that only lacked its version.
Wrecked == Without(Rebuilding(10), "steps")

--------------------------------------------------------------------------------
(* Where a process is with a file. *)

\* How many statements have been executed by a process that never crashed.
Exactly(o, v) ==
  CASE o.at = "execute" -> o.n - 1
    [] o.at = "stamp" -> Len(Migration[v])
    [] OTHER -> 0

\* A process at o and a file at version v after m statements of its migration, which
\* has a copy from before them and, unless there was a crash, has had them once.
Aligned(o, v, m, saved, crashed) ==
  /\ o.at = "stamp" => m = Len(Migration[v])
  /\ m > 0 => saved
  /\ ~crashed => m = Exactly(o, v)

AtPart(o, v, T, saved, crashed) ==
  \E m \in 0..Len(Migration[v]) :
    /\ T = PartOf(v, m)
    /\ o.at = "execute" => m >= o.n - 1
    /\ Aligned(o, v, m, saved, crashed)

\* Version 11 is not taken up from its middle: the second statement refuses.
AtRebuilding(o, T, saved, crashed) ==
  \E m \in 0..10 :
    /\ T = Rebuilding(m)
    /\ o.at = "execute" => o.n = m + 1 \/ o.n = 1 \/ (o.n = 2 /\ m \in 1..9)
    /\ Aligned(o, 11, m, saved, crashed)

AtWreck(o, T, saved, crashed) ==
  /\ T = Wrecked
  /\ saved /\ crashed
  /\ o.at # "stamp"
  /\ o.at = "execute" => o.n \in {1, 2}

Located(o, v, T, saved, crashed) ==
  IF v = 11 THEN AtRebuilding(o, T, saved, crashed) \/ AtWreck(o, T, saved, crashed)
  ELSE AtPart(o, v, T, saved, crashed)

LEMMA Listed11 ==
  /\ Len(Migration[11]) = 10
  /\ Migration[11][1] = DropTable("steps")
  /\ Migration[11][2] = Rename("runs", "items")
  /\ Migration[11][3] = RenameColumn("items", "run_id", "id")
  /\ Migration[11][4] = RenameColumn("items", "batch_id", "run_id")
  /\ Migration[11][5] = Rename("batches", "runs")
  /\ Migration[11][6] = RenameColumn("runs", "batch_id", "run_id")
  /\ Migration[11][7] = AddMissing("runs", "replayed_from")
  /\ Migration[11][8] = RenameColumn("tasks", "item_id", "customer_item_id")
  /\ Migration[11][9] = RenameColumn("tasks", "run_id", "item_id")
  /\ Migration[11][10] = Rename("tasks", "steps")
BY DEF Migration

LEMMA RebuildFields ==
  /\ \A t : DropTable(t).do = "drop" /\ DropTable(t).table = t /\ DropTable(t).guarded
  /\ \A t, to : /\ Rename(t, to).do = "rename" /\ Rename(t, to).table = t
                /\ Rename(t, to).to = to /\ ~Rename(t, to).guarded
  /\ \A t, c, to : /\ RenameColumn(t, c, to).do = "renameColumn"
                   /\ RenameColumn(t, c, to).table = t /\ RenameColumn(t, c, to).column = c
                   /\ RenameColumn(t, c, to).to = to /\ ~RenameColumn(t, c, to).guarded
BY DEF Statement, DropTable, Rename, RenameColumn

\* What its kinds of statement do.
LEMMA DropTableEffect ==
  ASSUME NEW T, NEW s, WellFormed(T), s.do = "drop", s.table \in DOMAIN T
  PROVE  /\ ~Refused(T, s)
         /\ WellFormed(Executed(T, s))
         /\ \A t : t \in DOMAIN Executed(T, s) <=> t \in DOMAIN T /\ t # s.table
         /\ \A t \in DOMAIN T : t # s.table => Executed(T, s)[t] = T[t]
<1> DEFINE X == Executed(T, s)
<1>1. ~Refused(T, s) /\ ~Skipped(T, s) BY DEF Refused, Skipped
<1>2. X = [t \in DOMAIN T \ {s.table} |-> T[t]] BY <1>1 DEF Executed, Without
<1> HIDE DEF X
<1>3. WellFormed(X) BY <1>2 DEF WellFormed
<1> QED BY <1>1, <1>2, <1>3 DEF X

LEMMA RenameEffect ==
  ASSUME NEW T, NEW s, WellFormed(T), s.do = "rename", ~s.guarded,
         s.table \in DOMAIN T, s.to \notin DOMAIN T
  PROVE  /\ ~Refused(T, s)
         /\ WellFormed(Executed(T, s))
         /\ \A t : t \in DOMAIN Executed(T, s) <=> (t \in DOMAIN T /\ t # s.table) \/ t = s.to
         /\ Executed(T, s)[s.to] = T[s.table]
         /\ \A t \in DOMAIN T : t # s.table => Executed(T, s)[t] = T[t]
<1> DEFINE X == Executed(T, s)
<1>1. ~Refused(T, s) /\ ~Skipped(T, s) BY DEF Refused, Skipped
<1>2. X = [t \in (DOMAIN T \ {s.table}) \cup {s.to} |-> IF t = s.to THEN T[s.table] ELSE T[t]]
  BY <1>1 DEF Executed, Put, Without
<1> HIDE DEF X
<1>3. /\ DOMAIN X = (DOMAIN T \ {s.table}) \cup {s.to} /\ X = [t \in DOMAIN X |-> X[t]]
      /\ X[s.to] = T[s.table]
      /\ \A t \in DOMAIN T \ {s.table} : X[t] = T[t]
  BY <1>2
<1>4. WellFormed(X) BY <1>3 DEF WellFormed
<1> QED BY <1>1, <1>3, <1>4 DEF X

LEMMA RenameColumnEffect ==
  ASSUME NEW T, NEW s, WellFormed(T), s.do = "renameColumn", ~s.guarded,
         Has(T, s), s.to \notin T[s.table].columns
  PROVE  /\ ~Refused(T, s)
         /\ WellFormed(Executed(T, s)) /\ DOMAIN Executed(T, s) = DOMAIN T
         /\ \A t \in DOMAIN T :
              /\ Executed(T, s)[t].rows = T[t].rows
              /\ \A c : c \in Executed(T, s)[t].columns <=>
                          IF t = s.table THEN (c \in T[t].columns /\ c # s.column) \/ c = s.to
                          ELSE c \in T[t].columns
<1> DEFINE X == Executed(T, s)
           named == Table(T[s.table].rows, (T[s.table].columns \ {s.column}) \cup {s.to})
<1>1. ~Refused(T, s) /\ ~Skipped(T, s) BY DEF Refused, Skipped
<1>2. X = [T EXCEPT ![s.table].columns = (@ \ {s.column}) \cup {s.to}]
  BY <1>1 DEF Executed
<1>3. s.table \in DOMAIN T /\ \A t \in DOMAIN T : T[t] = Table(T[t].rows, T[t].columns)
  BY DEF WellFormed, Has
<1>4. X = [t \in DOMAIN T |-> IF t = s.table THEN named ELSE T[t]]
  BY <1>2, <1>3 DEF Table
<1> HIDE DEF X
<1>5. ASSUME NEW t \in DOMAIN T
      PROVE  /\ X[t] = Table(X[t].rows, X[t].columns)
             /\ X[t].rows = T[t].rows
             /\ \A c : c \in X[t].columns <=>
                         IF t = s.table THEN (c \in T[t].columns /\ c # s.column) \/ c = s.to
                         ELSE c \in T[t].columns
  <2>1. CASE t = s.table
    <3>1. X[t] = named BY <1>4, <2>1
    <3>2. /\ X[t].rows = T[s.table].rows
          /\ X[t].columns = (T[s.table].columns \ {s.column}) \cup {s.to}
      BY <3>1, TableFields
    <3> QED BY <2>1, <3>1, <3>2
  <2>2. CASE t # s.table
    <3>1. X[t] = T[t] BY <1>4, <2>2
    <3> QED BY <1>3, <2>2, <3>1
  <2> QED BY <2>1, <2>2
<1>6. X = [t \in DOMAIN X |-> X[t]] /\ DOMAIN X = DOMAIN T BY <1>4
<1>7. WellFormed(X) BY <1>5, <1>6 DEF WellFormed
<1> QED BY <1>1, <1>5, <1>6, <1>7 DEF X

\* The ten places, by their tables' names, tables and columns.
LEMMA RebuildingNames ==
  /\ DOMAIN Rebuilding(0) = {"runs", "batches", "tasks", "steps"}
  /\ DOMAIN Rebuilding(1) = {"runs", "batches", "tasks"}
  /\ \A m \in 2..4 : DOMAIN Rebuilding(m) = {"items", "batches", "tasks"}
  /\ \A m \in 5..9 : DOMAIN Rebuilding(m) = {"items", "runs", "tasks"}
  /\ DOMAIN Rebuilding(10) = {"items", "runs", "steps"}
BY DEF Rebuilding, NamesOf, Since

LEMMA RebuildingTables ==
  \A m \in 0..10 : \A t \in DOMAIN Rebuilding(m) :
    /\ t = "items" => Rebuilding(m)[t] = ItemsTable(m)
    /\ t = "runs" => Rebuilding(m)[t] = IF m <= 1 THEN ItemsTable(m) ELSE RunsTable(m)
    /\ t = "batches" => Rebuilding(m)[t] = RunsTable(m)
    /\ t = "tasks" => Rebuilding(m)[t] = StepsTable(m)
    /\ t = "steps" => Rebuilding(m)[t] =
         IF m = 0 THEN Table("legacy", {"run_id", "v2"}) ELSE StepsTable(m)
BY DEF Rebuilding, TableOf

LEMMA RebuildingColumns ==
  \A m \in 0..10 : \A c :
    /\ ItemsTable(m).rows = "items"
    /\ RunsTable(m).rows = "batches"
    /\ StepsTable(m).rows = "checkpoints"
    /\ c \in ItemsTable(m).columns <=>
         \/ c \in {"item_id", "v6", "v7", "v9", "v10", "v11"}
         \/ m <= 2 /\ c = "run_id"
         \/ m >= 3 /\ c = "id"
         \/ m <= 3 /\ c = "batch_id"
         \/ m >= 4 /\ c = "run_id"
    /\ c \in RunsTable(m).columns <=>
         \/ m <= 5 /\ c = "batch_id"
         \/ m >= 6 /\ c = "run_id"
         \/ m >= 7 /\ c = "replayed_from"
    /\ c \in StepsTable(m).columns <=>
         \/ c \in {"v3", "v5", "v7", "v8", "v9", "v11"}
         \/ m <= 7 /\ c = "item_id"
         \/ m >= 8 /\ c = "customer_item_id"
         \/ m <= 8 /\ c = "run_id"
         \/ m >= 9 /\ c = "item_id"
BY TableFields DEF ItemsTable, RunsTable, StepsTable, PerItem, PerStep, Since

LEMMA RebuildingForm == \A m \in 0..10 : WellFormed(Rebuilding(m))
<1>1. ASSUME NEW m \in 0..10, NEW t \in DOMAIN Rebuilding(m)
      PROVE  \E r, c : Rebuilding(m)[t] = Table(r, c)
  <2>1. t \in {"items", "runs", "batches", "tasks", "steps"} BY DEF Rebuilding, NamesOf, Since
  <2> QED BY <2>1, RebuildingTables DEF ItemsTable, RunsTable, StepsTable
<1>2. ASSUME NEW m \in 0..10
      PROVE  Rebuilding(m) = [t \in DOMAIN Rebuilding(m) |-> Rebuilding(m)[t]]
  BY DEF Rebuilding
<1>3. ASSUME NEW r, NEW c PROVE Table(r, c) = Table(Table(r, c).rows, Table(r, c).columns)
  <2>1. Table(r, c).rows = r /\ Table(r, c).columns = c BY TableFields
  <2> QED BY <2>1, Zenon
<1> SUFFICES ASSUME NEW m \in 0..10 PROVE WellFormed(Rebuilding(m))
  OBVIOUS
<1> QED BY <1>1, <1>2, <1>3 DEF WellFormed

\* They lead from version 11 to version 12.
LEMMA RebuildingEnds == Rebuilding(0) = Schema(11) /\ Rebuilding(10) = Schema(12)
<1> USE RebuildingForm, SchemaForm, SameTables
<1>1. DOMAIN Rebuilding(0) = DOMAIN Schema(11) BY RebuildingNames, NamesThen DEF Since
<1>2. ASSUME NEW t \in DOMAIN Rebuilding(0)
      PROVE  /\ Rebuilding(0)[t].rows = Schema(11)[t].rows
             /\ \A c : c \in Rebuilding(0)[t].columns <=> c \in Schema(11)[t].columns
  <2>1. t \in {"runs", "batches", "tasks", "steps"} BY RebuildingNames
  <2>2. Schema(11)[t] = Before(11, t) BY <1>1 DEF Schema
  <2>3. CASE t = "runs"
    BY <2>2, <2>3, RebuildingTables, RebuildingColumns, TableFields
       DEF Before, PerItem, Since, Until
  <2>4. CASE t = "batches"
    BY <2>2, <2>4, RebuildingTables, RebuildingColumns, TableFields DEF Before, Since, Until
  <2>5. CASE t = "tasks"
    BY <2>2, <2>5, RebuildingTables, RebuildingColumns, TableFields
       DEF Before, PerStep, Since, Until
  <2>6. CASE t = "steps"
    BY <2>2, <2>6, RebuildingTables, TableFields DEF Before, Since, Until
  <2> QED BY <2>1, <2>3, <2>4, <2>5, <2>6
<1>3. DOMAIN Rebuilding(10) = DOMAIN Schema(12) BY RebuildingNames, NamesNow
<1>4. ASSUME NEW t \in DOMAIN Rebuilding(10)
      PROVE  /\ Rebuilding(10)[t].rows = Schema(12)[t].rows
             /\ \A c : c \in Rebuilding(10)[t].columns <=> c \in Schema(12)[t].columns
  <2>1. t \in {"items", "runs", "steps"} BY RebuildingNames
  <2>2. Schema(12)[t] = Rebuilt(12, t) BY <1>3 DEF Schema
  <2>3. CASE t = "items"
    BY <2>2, <2>3, RebuildingTables, RebuildingColumns, TableFields DEF Rebuilt, PerItem, Since
  <2>4. CASE t = "runs"
    BY <2>2, <2>4, RebuildingTables, RebuildingColumns, TableFields DEF Rebuilt
  <2>5. CASE t = "steps"
    BY <2>2, <2>5, RebuildingTables, RebuildingColumns, TableFields DEF Rebuilt, PerStep, Since
  <2> QED BY <2>1, <2>3, <2>4, <2>5
<1> QED BY <1>1, <1>2, <1>3, <1>4

\* Statement n leads to place n: no name is taken when it is given ("Order is load-bearing").
LEMMA NextOfRebuild ==
  ASSUME NEW n \in 1..10, NEW s, s = Migration[11][n]
  PROVE  /\ ~Refused(Rebuilding(n - 1), s)
         /\ Executed(Rebuilding(n - 1), s) = Rebuilding(n)
<1> DEFINE T == Rebuilding(n - 1)
           U == Rebuilding(n)
           X == Executed(T, s)
<1>1. n \in 0..10 /\ n - 1 \in 0..10 OBVIOUS
<1>2. WellFormed(T) /\ WellFormed(U) BY <1>1, RebuildingForm
<1> SUFFICES /\ ~Refused(T, s) /\ WellFormed(X) /\ DOMAIN X = DOMAIN U
             /\ \A t \in DOMAIN X : /\ X[t].rows = U[t].rows
                                    /\ \A c : c \in X[t].columns <=> c \in U[t].columns
  BY <1>2, SameTables
<1>3. CASE n = 1
  <2>1. s.do = "drop" /\ s.table = "steps" BY <1>3, Listed11, RebuildFields
  <2>2. DOMAIN T = {"runs", "batches", "tasks", "steps"} /\ DOMAIN U = {"runs", "batches", "tasks"}
    BY <1>3, RebuildingNames
  <2>3. /\ ~Refused(T, s) /\ WellFormed(X)
        /\ \A t : t \in DOMAIN X <=> t \in DOMAIN T /\ t # s.table
        /\ \A t \in DOMAIN T : t # s.table => X[t] = T[t]
    BY <1>2, <2>1, <2>2, DropTableEffect
  <2> HIDE DEF X
  <2>4. ASSUME NEW t \in DOMAIN U
        PROVE  T[t].rows = U[t].rows /\ \A c : c \in T[t].columns <=> c \in U[t].columns
    BY <1>1, <1>3, <2>2, RebuildingTables, RebuildingColumns
  <2>5. DOMAIN X = DOMAIN U BY <2>1, <2>2, <2>3
  <2> QED BY <2>1, <2>2, <2>3, <2>4, <2>5
<1>4. CASE n = 7
  <2>1. s.do = "add" /\ s.guarded /\ s.table = "runs" /\ s.column = "replayed_from"
    BY <1>4, Listed11, Fields
  <2>2. DOMAIN T = {"items", "runs", "tasks"} /\ DOMAIN U = {"items", "runs", "tasks"}
    BY <1>4, RebuildingNames
  <2>3. /\ ~Refused(T, s) /\ WellFormed(X) /\ DOMAIN X = DOMAIN T
        /\ \A t \in DOMAIN T :
             /\ X[t].rows = T[t].rows
             /\ \A c : c \in X[t].columns <=> c \in T[t].columns \/ (t = s.table /\ c = s.column)
    BY <1>2, <2>1, <2>2, AddEffect
  <2> HIDE DEF X
  <2>4. ASSUME NEW t \in DOMAIN U
        PROVE  /\ T[t].rows = U[t].rows
               /\ \A c : c \in T[t].columns \/ (t = "runs" /\ c = "replayed_from")
                           <=> c \in U[t].columns
    BY <1>1, <1>4, <2>2, RebuildingTables, RebuildingColumns
  <2> QED BY <2>1, <2>2, <2>3, <2>4
<1>5. ASSUME n \in {2, 5, 10}
      PROVE  /\ s.do = "rename" /\ ~s.guarded
             /\ n = 2 => s.table = "runs" /\ s.to = "items"
             /\ n = 5 => s.table = "batches" /\ s.to = "runs"
             /\ n = 10 => s.table = "tasks" /\ s.to = "steps"
  <2>1. CASE n = 2 BY <2>1, Listed11, RebuildFields
  <2>2. CASE n = 5 BY <2>2, Listed11, RebuildFields
  <2>3. CASE n = 10 BY <2>3, Listed11, RebuildFields
  <2> QED BY <1>5, <2>1, <2>2, <2>3
<1>6. CASE n \in {2, 5, 10}
  <2>1. /\ n = 2 => /\ DOMAIN T = {"runs", "batches", "tasks"}
                    /\ DOMAIN U = {"items", "batches", "tasks"}
        /\ n = 5 => /\ DOMAIN T = {"items", "batches", "tasks"}
                    /\ DOMAIN U = {"items", "runs", "tasks"}
        /\ n = 10 => /\ DOMAIN T = {"items", "runs", "tasks"}
                     /\ DOMAIN U = {"items", "runs", "steps"}
    BY RebuildingNames
  <2>2. /\ s.table \in DOMAIN T /\ s.to \notin DOMAIN T
        /\ DOMAIN U = (DOMAIN T \ {s.table}) \cup {s.to}
    BY <1>5, <1>6, <2>1
  <2>3. /\ ~Refused(T, s) /\ WellFormed(X)
        /\ \A t : t \in DOMAIN X <=> (t \in DOMAIN T /\ t # s.table) \/ t = s.to
        /\ X[s.to] = T[s.table]
        /\ \A t \in DOMAIN T : t # s.table => X[t] = T[t]
    BY <1>2, <1>5, <1>6, <2>2, RenameEffect
  <2> HIDE DEF X
  <2>4. ASSUME NEW t \in DOMAIN T \ {s.table}
        PROVE  T[t].rows = U[t].rows /\ \A c : c \in T[t].columns <=> c \in U[t].columns
    BY <1>1, <1>5, <1>6, <2>1, <2>2, RebuildingTables, RebuildingColumns
  <2>5. /\ T[s.table].rows = U[s.to].rows
        /\ \A c : c \in T[s.table].columns <=> c \in U[s.to].columns
    BY <1>1, <1>5, <1>6, <2>1, <2>2, RebuildingTables, RebuildingColumns
  <2> QED BY <2>2, <2>3, <2>4, <2>5
<1>7. ASSUME n \in {3, 4, 6, 8, 9} PROVE
        /\ s.do = "renameColumn" /\ ~s.guarded
        /\ n \in {3, 4} => s.table = "items"
        /\ n = 6 => s.table = "runs"
        /\ n \in {8, 9} => s.table = "tasks"
        /\ n \in {3, 9} => s.column = "run_id"
        /\ n \in {4, 6} => s.column = "batch_id"
        /\ n = 8 => s.column = "item_id"
        /\ n = 3 => s.to = "id"
        /\ n \in {4, 6} => s.to = "run_id"
        /\ n = 8 => s.to = "customer_item_id"
        /\ n = 9 => s.to = "item_id"
  <2>1. CASE n = 3 BY <2>1, Listed11, RebuildFields
  <2>2. CASE n = 4 BY <2>2, Listed11, RebuildFields
  <2>3. CASE n = 6 BY <2>3, Listed11, RebuildFields
  <2>4. CASE n = 8 BY <2>4, Listed11, RebuildFields
  <2>5. CASE n = 9 BY <2>5, Listed11, RebuildFields
  <2> QED BY <1>7, <2>1, <2>2, <2>3, <2>4, <2>5
<1>8. CASE n \in {3, 4, 6, 8, 9}
  <2>1. /\ n \in {3, 4} => DOMAIN T = {"items", "batches", "tasks"}
        /\ n \in {6, 8, 9} => DOMAIN T = {"items", "runs", "tasks"}
        /\ DOMAIN U = DOMAIN T
    BY <1>8, RebuildingNames
  <2>2. Has(T, s) /\ s.to \notin T[s.table].columns
    BY <1>7, <1>8, <2>1, RebuildingTables, RebuildingColumns DEF Has
  <2>3. /\ ~Refused(T, s) /\ WellFormed(X) /\ DOMAIN X = DOMAIN T
        /\ \A t \in DOMAIN T :
              /\ X[t].rows = T[t].rows
              /\ \A c : c \in X[t].columns <=>
                          IF t = s.table THEN (c \in T[t].columns /\ c # s.column) \/ c = s.to
                          ELSE c \in T[t].columns
    BY <1>2, <1>7, <1>8, <2>2, RenameColumnEffect
  <2> HIDE DEF X
  <2>4. ASSUME NEW t \in DOMAIN T
        PROVE  T[t].rows = U[t].rows
    BY <1>1, <1>8, <2>1, RebuildingTables, RebuildingColumns
  <2>5. ASSUME NEW t \in DOMAIN T, NEW c
        PROVE  (IF t = s.table THEN (c \in T[t].columns /\ c # s.column) \/ c = s.to
                ELSE c \in T[t].columns) <=> c \in U[t].columns
    BY <1>1, <1>7, <1>8, <2>1, RebuildingTables, RebuildingColumns
  <2> QED BY <2>1, <2>3, <2>4, <2>5
<1> QED BY <1>3, <1>4, <1>6, <1>8

\* A second attempt passes the first statement, which drops `steps` if the rebuild was all
\* done, and is refused by the second.
LEMMA RebuildAgain ==
  /\ \A m \in 1..9 : LET s == Migration[11][1]
                     IN ~Refused(Rebuilding(m), s) /\ Executed(Rebuilding(m), s) = Rebuilding(m)
  /\ LET s == Migration[11][1]
     IN /\ ~Refused(Rebuilding(10), s) /\ Executed(Rebuilding(10), s) = Wrecked
        /\ ~Refused(Wrecked, s) /\ Executed(Wrecked, s) = Wrecked
  /\ \A m \in 2..10 : Refused(Rebuilding(m), Migration[11][2])
  /\ Refused(Wrecked, Migration[11][2])
<1> DEFINE s1 == Migration[11][1]
           s2 == Migration[11][2]
<1>1. s1.do = "drop" /\ s1.table = "steps" /\ s1.guarded BY Listed11, RebuildFields
<1>2. s2.do = "rename" /\ s2.table = "runs" /\ s2.to = "items" /\ ~s2.guarded
  BY Listed11, RebuildFields
<1>3. "items" \in DOMAIN Wrecked /\ "steps" \notin DOMAIN Wrecked
  BY RebuildingNames DEF Wrecked, Without
<1> HIDE DEF s1, s2
<1>4. ASSUME NEW T, "steps" \notin DOMAIN T
      PROVE  ~Refused(T, s1) /\ Executed(T, s1) = T
  BY <1>1, <1>4 DEF Refused, Executed, Skipped
<1>5. ~Refused(Rebuilding(10), s1) /\ Executed(Rebuilding(10), s1) = Wrecked
  BY <1>1, RebuildingNames DEF Refused, Executed, Skipped, Wrecked
<1>6. ASSUME NEW T, "items" \in DOMAIN T PROVE Refused(T, s2)
  BY <1>2, <1>6 DEF Refused, Skipped
<1>7. \A m \in 1..9 : "steps" \notin DOMAIN Rebuilding(m) BY RebuildingNames
<1>8. \A m \in 2..10 : "items" \in DOMAIN Rebuilding(m) BY RebuildingNames
<1> QED BY <1>3, <1>4, <1>5, <1>6, <1>7, <1>8 DEF s1, s2

\* The last two versions add columns that are not there.
LEMMA PartNew ==
  \A v \in {12, 13} : \A n \in Steps(v) : ~Has(PartOf(v, n - 1), Migration[v][n])
<1> SUFFICES ASSUME NEW v \in {12, 13}, NEW n \in Steps(v)
             PROVE  ~Has(PartOf(v, n - 1), Migration[v][n])
  OBVIOUS
<1> DEFINE T == PartOf(v, n - 1)
           s == Migration[v][n]
<1>1. n \in {1, 2} BY Listed12, Listed13
<1>2. s.table = "steps" BY <1>1, Listed12, Listed13, Fields
<1>3. Was(v, "steps") = Rebuilt(v, "steps") BY NamesNow DEF Was, Schema
<1>4. \A c : c \in Was(v, "steps").columns <=>
               \/ c \in {"item_id", "customer_item_id", "v3", "v5", "v7", "v8", "v9", "v11"}
               \/ v = 13 /\ c \in {"execution_token", "attempt"}
  BY <1>3, TableFields DEF Rebuilt, PerStep, Since
<1>5. s.column \notin Was(v, "steps").columns
  <2>1. CASE v = 12 BY <1>1, <1>4, <2>1, Listed12, Fields
  <2>2. CASE v = 13 BY <1>1, <1>4, <2>2, Listed13, Fields
  <2> QED BY <2>1, <2>2
<1>6. ~Told(v, n - 1, "steps", "add", s.column)
  <2>1. CASE n = 1 BY <2>1 DEF Told
  <2>2. CASE n = 2
    <3>1. Told(v, 1, "steps", "add", s.column) <=> About(Migration[v][1], "steps", "add", s.column)
      BY ToldUpTo
    <3>2. s.column # Migration[v][1].column
      <4>1. CASE v = 12 BY <2>2, <4>1, Listed12, Fields
      <4>2. CASE v = 13 BY <2>2, <4>2, Listed13, Fields
      <4> QED BY <4>1, <4>2
    <3> QED BY <2>2, <3>1, <3>2 DEF About
  <2> QED BY <1>1, <2>1, <2>2
<1>7. n - 1 \in Nat BY <1>1
<1>8. ASSUME "steps" \in DOMAIN T PROVE s.column \notin T["steps"].columns
  BY <1>5, <1>6, <1>7, <1>8, PartIs
<1> QED BY <1>2, <1>8 DEF Has

\* They do so without a look, and are refused if the columns are there.
LEMMA PartRefuses ==
  \A v \in {12, 13} : \A n \in Steps(v) : \A m \in n..Len(Migration[v]) :
    Refused(PartOf(v, m), Migration[v][n])
<1> SUFFICES ASSUME NEW v \in {12, 13}, NEW n \in Steps(v), NEW m \in n..Len(Migration[v]),
                    NEW s, s = Migration[v][n]
             PROVE  Refused(PartOf(v, m), s)
  OBVIOUS
<1>1. n \in 1..2 /\ m \in n..2 /\ m \in Nat BY Listed12, Listed13 DEF Steps
<1>2. s.table = "steps" /\ s.do = "add" /\ ~s.guarded
  BY <1>1, Listed12, Listed13, Fields
<1>3. "steps" \in DOMAIN PartOf(v, m) BY <1>1, NamesNow, PartIs
<1>4. Told(v, m, "steps", "add", s.column) BY <1>1, <1>2 DEF Told
<1>5. ~Told(v, m, "steps", "dropColumn", s.column)
  <2>1. \A k \in 1..m : k \in Steps(v) BY <1>1 DEF Steps
  <2> QED BY <2>1, DropsAlone DEF Told
<1>6. Has(PartOf(v, m), s) BY <1>1, <1>2, <1>3, <1>4, <1>5, PartIs DEF Has
<1> QED BY <1>2, <1>6 DEF Refused, Skipped

\* The checkpoints are in every part of a migration, and in every place of the rebuild.
LEMMA PartHolds ==
  ASSUME NEW v \in (1..13) \ {11}, NEW m \in Nat PROVE Holds(PartOf(v, m))
<1>1. CASE v \in 1..10
  <2>1. "tasks" \in DOMAIN Schema(v) BY <1>1, NamesThen
  <2>2. Was(v, "tasks").rows = "checkpoints"
    BY <1>1, <2>1, TableFields DEF Was, Schema, Before
  <2> QED BY <2>1, <2>2, PartIs DEF Holds
<1>2. CASE v \in 12..13
  <2>1. "steps" \in DOMAIN Schema(v) BY <1>2, NamesNow
  <2>2. Was(v, "steps").rows = "checkpoints"
    BY <1>2, <2>1, TableFields DEF Was, Schema, Rebuilt
  <2> QED BY <2>1, <2>2, PartIs DEF Holds
<1> QED BY <1>1, <1>2

LEMMA RebuildingHolds == \A m \in 0..10 : Holds(Rebuilding(m))
<1> SUFFICES ASSUME NEW m \in 0..10 PROVE Holds(Rebuilding(m))
  OBVIOUS
<1>1. CASE m \in 0..9
  <2>1. "tasks" \in DOMAIN Rebuilding(m) BY <1>1, RebuildingNames
  <2> QED BY <2>1, RebuildingTables, RebuildingColumns DEF Holds
<1>2. CASE m = 10
  <2>1. "steps" \in DOMAIN Rebuilding(m) BY <1>2, RebuildingNames
  <2> QED BY <1>2, <2>1, RebuildingTables, RebuildingColumns DEF Holds
<1> QED BY <1>1, <1>2

LEMMA StateFields ==
  \A at, v, n : State(at, v, n).at = at /\ State(at, v, n).version = v /\ State(at, v, n).n = n
BY DEF State

LEMMA Lengths ==
  /\ \A v \in 1..13 :
       Len(Migration[v]) \in 1..10 /\ Steps(v) = 1..Len(Migration[v]) /\ 1 \in Steps(v)
  /\ Len(Migration[11]) = 10
<1>1. \A v \in (1..13) \ {11} : Len(Migration[v]) \in 1..4 BY DEF Migration
<1>2. \A v \in 1..13 : Len(Migration[v]) \in 1..10 BY <1>1, Listed11
<1>3. \A v \in 1..13 : Steps(v) = 1..Len(Migration[v]) BY DEF Steps
<1>4. ASSUME NEW v \in 1..13 PROVE 1 \in Steps(v)
  <2>1. PICK l \in 1..10 : l = Len(Migration[v]) BY <1>2
  <2>2. 1 \in 1..l OBVIOUS
  <2> QED BY <2>1, <2>2 DEF Steps
<1> QED BY <1>2, <1>3, <1>4, Listed11

\* A statement keeps the process aligned with the file, or is refused after a crash.
LEMMA ExecutePart ==
  ASSUME NEW v \in (1..13) \ {11}, NEW T, NEW o, NEW crashed \in BOOLEAN,
         o.at = "execute", o.n \in Steps(v), AtPart(o, v, T, TRUE, crashed),
         NEW s, s = Migration[v][o.n],
         NEW r, r = State("raised", v, o.n), NEW a, a = After(v, o.n)
  PROVE  /\ Refused(T, s) => crashed /\ v \in {12, 13} /\ AtPart(r, v, T, TRUE, crashed)
         /\ ~Refused(T, s) => AtPart(a, v, Executed(T, s), TRUE, crashed)
<1>1. PICK m \in 0..Len(Migration[v]) :
        T = PartOf(v, m) /\ m >= o.n - 1 /\ (~crashed => m = o.n - 1)
  BY DEF AtPart, Aligned, Exactly
<1>2. Len(Migration[v]) \in 1..10 /\ o.n \in 1..Len(Migration[v]) BY Lengths
<1>6. /\ o.n < Len(Migration[v]) => a.at = "execute" /\ a.n = o.n + 1
      /\ o.n = Len(Migration[v]) => a.at = "stamp"
      /\ r.at = "raised"
  BY <1>2, StateFields DEF After
<1>3. CASE m = o.n - 1
  <2>1. m \in Nat /\ m + 1 = o.n BY <1>2, <1>3
  <2>2. s.guarded \/ ~Has(PartOf(v, m), s)
    <3>1. CASE v \in 1..10 BY <3>1, Guarded
    <3>2. CASE v \in {12, 13} BY <1>3, <3>2, PartNew
    <3> QED BY <3>1, <3>2
  <2>3. ~Refused(T, s) /\ Executed(T, s) = PartOf(v, o.n)
    BY <1>1, <2>1, <2>2, NextPart
  <2>4. AtPart(a, v, PartOf(v, o.n), TRUE, crashed)
    BY <1>2, <1>6 DEF AtPart, Aligned, Exactly
  <2> QED BY <2>3, <2>4
<1>4. CASE m >= o.n
  <2>1. crashed BY <1>1, <1>2, <1>4
  <2>2. CASE v \in 1..10
    <3>1. ~Refused(T, s) /\ Executed(T, s) = T
      <4>1. m \in Nat /\ o.n \in 1..m BY <1>2, <1>4
      <4> QED BY <1>1, <2>2, <4>1, PartAgain
    <3>2. AtPart(a, v, T, TRUE, crashed)
      BY <1>1, <1>2, <1>4, <1>6, <2>1 DEF AtPart, Aligned
    <3> QED BY <3>1, <3>2
  <2>3. CASE v \in {12, 13}
    <3>1. Refused(T, s) BY <1>1, <1>2, <1>4, <2>3, PartRefuses
    <3>2. AtPart(r, v, T, TRUE, crashed)
      BY <1>1, <1>6, <2>1 DEF AtPart, Aligned
    <3> QED BY <2>1, <2>3, <3>1, <3>2
  <2>4. v \in 1..10 \/ v \in {12, 13} OBVIOUS
  <2> QED BY <2>2, <2>3, <2>4
<1>5. m = o.n - 1 \/ m >= o.n BY <1>1, <1>2
<1> QED BY <1>3, <1>4, <1>5

LEMMA ExecuteRebuild ==
  ASSUME NEW T, NEW o, NEW crashed \in BOOLEAN,
         o.at = "execute", o.n \in 1..10,
         AtRebuilding(o, T, TRUE, crashed) \/ AtWreck(o, T, TRUE, crashed),
         NEW s, s = Migration[11][o.n],
         NEW r, r = State("raised", 11, o.n), NEW a, a = After(11, o.n)
  PROVE  /\ Refused(T, s) =>
              crashed /\ (AtRebuilding(r, T, TRUE, crashed) \/ AtWreck(r, T, TRUE, crashed))
         /\ ~Refused(T, s) =>
              \/ AtRebuilding(a, Executed(T, s), TRUE, crashed)
              \/ AtWreck(a, Executed(T, s), TRUE, crashed)
<1>1. Len(Migration[11]) = 10 BY Listed11
<1>2. /\ o.n < 10 => a.at = "execute" /\ a.n = o.n + 1
      /\ o.n = 10 => a.at = "stamp"
      /\ r.at = "raised"
  BY <1>1, StateFields DEF After
<1>3. ASSUME AtRebuilding(o, T, TRUE, crashed)
      PROVE  /\ Refused(T, s) => crashed /\ AtRebuilding(r, T, TRUE, crashed)
             /\ ~Refused(T, s) => \/ AtRebuilding(a, Executed(T, s), TRUE, crashed)
                                  \/ AtWreck(a, Executed(T, s), TRUE, crashed)
  <2>1. PICK m \in 0..10 :
          /\ T = Rebuilding(m)
          /\ o.n = m + 1 \/ o.n = 1 \/ (o.n = 2 /\ m \in 1..9)
          /\ ~crashed => m = o.n - 1
    BY <1>3 DEF AtRebuilding, Aligned, Exactly
  <2>2. CASE o.n = m + 1
    <3>1. ~Refused(T, s) /\ Executed(T, s) = Rebuilding(o.n)
      <4>1. m = o.n - 1 BY <2>2
      <4> QED BY <2>1, <4>1, NextOfRebuild
    <3>2. AtRebuilding(a, Rebuilding(o.n), TRUE, crashed)
      BY <1>1, <1>2 DEF AtRebuilding, Aligned, Exactly
    <3> QED BY <3>1, <3>2
  <2>3. CASE o.n = 1 /\ m \in 1..9
    <3>1. ~Refused(T, s) /\ Executed(T, s) = T BY <2>1, <2>3, RebuildAgain
    <3>2. crashed BY <2>1, <2>3
    <3>3. AtRebuilding(a, T, TRUE, crashed)
      BY <1>2, <2>1, <2>3, <3>2 DEF AtRebuilding, Aligned
    <3> QED BY <3>1, <3>3
  <2>4. CASE o.n = 1 /\ m = 10
    <3>1. ~Refused(T, s) /\ Executed(T, s) = Wrecked BY <2>1, <2>4, RebuildAgain
    <3>2. AtWreck(a, Wrecked, TRUE, crashed) BY <1>2, <2>1, <2>4 DEF AtWreck
    <3> QED BY <3>1, <3>2
  <2>5. CASE o.n = 2 /\ m \in 2..9
    <3>1. Refused(T, s) BY <2>1, <2>5, RebuildAgain
    <3>2. crashed BY <2>1, <2>5
    <3>3. AtRebuilding(r, T, TRUE, crashed)
      BY <1>2, <2>1, <3>2 DEF AtRebuilding, Aligned
    <3> QED BY <3>1, <3>2, <3>3
  <2>6. \/ o.n = m + 1 \/ (o.n = 1 /\ m \in 1..9)
        \/ (o.n = 1 /\ m = 10) \/ (o.n = 2 /\ m \in 2..9)
    BY <2>1
  <2> QED BY <2>2, <2>3, <2>4, <2>5, <2>6
<1>4. ASSUME AtWreck(o, T, TRUE, crashed)
      PROVE  /\ Refused(T, s) => crashed /\ AtWreck(r, T, TRUE, crashed)
             /\ ~Refused(T, s) => AtWreck(a, Executed(T, s), TRUE, crashed)
  <2>1. T = Wrecked /\ crashed /\ o.n \in {1, 2} BY <1>4 DEF AtWreck
  <2>2. CASE o.n = 1
    <3>1. ~Refused(T, s) /\ Executed(T, s) = Wrecked BY <2>1, <2>2, RebuildAgain
    <3> QED BY <1>2, <2>1, <2>2, <3>1 DEF AtWreck
  <2>3. CASE o.n = 2
    <3>1. Refused(T, s) BY <2>1, <2>3, RebuildAgain
    <3> QED BY <1>2, <2>1, <3>1 DEF AtWreck
  <2> QED BY <2>1, <2>2, <2>3
<1> QED BY <1>3, <1>4

Idle(o) == o.at \notin {"execute", "stamp"}

\* A process that executes nothing stays where it is.
LEMMA LocatedMoves ==
  ASSUME NEW v \in 1..13, NEW T, NEW o, NEW to, NEW saved \in BOOLEAN, NEW later \in BOOLEAN,
         NEW crashed \in BOOLEAN, Located(o, v, T, saved, crashed), saved => later,
         Idle(o), Idle(to) \/ (to.at = "execute" /\ to.n = 1)
  PROVE  Located(to, v, T, later, crashed)
<1>1. ASSUME NEW m \in Nat, Aligned(o, v, m, saved, crashed)
      PROVE  Aligned(to, v, m, later, crashed)
  BY <1>1 DEF Aligned, Exactly, Idle
<1>2. CASE v = 11
  <2>1. CASE AtRebuilding(o, T, saved, crashed)
    <3>1. PICK m \in 0..10 : T = Rebuilding(m) /\ Aligned(o, 11, m, saved, crashed)
      BY <2>1 DEF AtRebuilding
    <3> QED BY <1>1, <1>2, <3>1 DEF AtRebuilding, Located, Idle
  <2>2. CASE AtWreck(o, T, saved, crashed)
    BY <1>2, <2>2 DEF AtWreck, Located, Idle
  <2> QED BY <1>2, <2>1, <2>2 DEF Located
<1>3. CASE v # 11
  <2>1. PICK m \in 0..Len(Migration[v]) : T = PartOf(v, m) /\ Aligned(o, v, m, saved, crashed)
    BY <1>3 DEF Located, AtPart
  <2>2. Len(Migration[v]) \in 1..10 BY Lengths
  <2> QED BY <1>1, <1>3, <2>1, <2>2 DEF AtPart, Located, Idle
<1> QED BY <1>2, <1>3

\* So does the file when a process dies.
LEMMA LocatedCrashes ==
  ASSUME NEW v \in 1..13, NEW T, NEW o, NEW saved \in BOOLEAN, NEW crashed,
         Located(o, v, T, saved, crashed)
  PROVE  Located(Closed, v, T, saved, TRUE)
<1>1. Closed.at = "closed" BY StateFields DEF Closed
<1>2. CASE v = 11
  <2>1. CASE AtRebuilding(o, T, saved, crashed)
    BY <1>1, <1>2, <2>1 DEF AtRebuilding, Aligned, Located
  <2>2. CASE AtWreck(o, T, saved, crashed)
    BY <1>1, <1>2, <2>2 DEF AtWreck, Located
  <2> QED BY <1>2, <2>1, <2>2 DEF Located
<1>3. CASE v # 11
  BY <1>1, <1>3 DEF Located, AtPart, Aligned
<1> QED BY <1>2, <1>3

\* A migration that has not begun.
LEMMA LocatedFirst ==
  ASSUME NEW v \in 1..13, NEW o, NEW saved \in BOOLEAN, NEW crashed \in BOOLEAN, Idle(o)
  PROVE  Located(o, v, Schema(v), saved, crashed)
<1>1. Aligned(o, v, 0, saved, crashed) BY DEF Aligned, Exactly, Idle
<1>2. CASE v = 11
  BY <1>1, <1>2, RebuildingEnds DEF Located, AtRebuilding, Idle
<1>3. CASE v # 11
  <2>1. Len(Migration[v]) \in 1..10 BY Lengths
  <2> QED BY <1>1, <1>3, <2>1, PartZero DEF Located, AtPart, Idle
<1> QED BY <1>2, <1>3

\* Without a copy nothing was executed: a copy is of the version it is named by.
LEMMA LocatedUnsaved ==
  ASSUME NEW v \in 1..13, NEW T, NEW o, NEW crashed, Located(o, v, T, FALSE, crashed)
  PROVE  T = Schema(v)
<1>1. CASE v = 11
  <2>1. PICK m \in 0..10 : T = Rebuilding(m) /\ ~(m > 0)
    BY <1>1 DEF Located, AtRebuilding, AtWreck, Aligned
  <2> QED BY <1>1, <2>1, RebuildingEnds
<1>2. CASE v # 11
  <2>1. PICK m \in 0..Len(Migration[v]) : T = PartOf(v, m) /\ ~(m > 0)
    BY <1>2 DEF Located, AtPart, Aligned
  <2>2. m = 0 BY <2>1, Lengths
  <2> QED BY <1>2, <2>1, <2>2, PartZero
<1> QED BY <1>1, <1>2

\* When the version is written, the tables are the next version's.
LEMMA LocatedLast ==
  ASSUME NEW v \in 1..13, NEW T, NEW o, NEW saved, NEW crashed,
         Located(o, v, T, saved, crashed), o.at = "stamp"
  PROVE  T = Schema(v + 1)
<1>1. CASE v = 11
  <2>1. T = Rebuilding(10)
    BY <1>1, Listed11 DEF Located, AtRebuilding, AtWreck, Aligned
  <2> QED BY <1>1, <2>1, RebuildingEnds
<1>2. CASE v # 11
  <2>1. T = PartOf(v, Len(Migration[v])) BY <1>2 DEF Located, AtPart, Aligned
  <2> QED BY <1>2, <2>1, PartLast
<1> QED BY <1>1, <1>2

\* A statement of any migration.
LEMMA LocatedExecutes ==
  ASSUME NEW v \in 1..13, NEW T, NEW o, NEW crashed \in BOOLEAN,
         o.at = "execute", o.n \in Steps(v), Located(o, v, T, TRUE, crashed),
         NEW s, s = Migration[v][o.n],
         NEW r, r = State("raised", v, o.n), NEW a, a = After(v, o.n)
  PROVE  /\ Refused(T, s) => crashed /\ v \in 11..13 /\ Located(r, v, T, TRUE, crashed)
         /\ ~Refused(T, s) => Located(a, v, Executed(T, s), TRUE, crashed)
<1>1. CASE v = 11
  <2>1. o.n \in 1..10 BY <1>1, Lengths
  <2>2. AtRebuilding(o, T, TRUE, crashed) \/ AtWreck(o, T, TRUE, crashed) BY <1>1 DEF Located
  <2>3. s = Migration[11][o.n] /\ r = State("raised", 11, o.n) /\ a = After(11, o.n) BY <1>1
  <2>4. /\ Refused(T, s) =>
             crashed /\ (AtRebuilding(r, T, TRUE, crashed) \/ AtWreck(r, T, TRUE, crashed))
        /\ ~Refused(T, s) =>
             \/ AtRebuilding(a, Executed(T, s), TRUE, crashed)
             \/ AtWreck(a, Executed(T, s), TRUE, crashed)
    BY <2>1, <2>2, <2>3, ExecuteRebuild
  <2>5. \A to, U : Located(to, v, U, TRUE, crashed) <=>
                     AtRebuilding(to, U, TRUE, crashed) \/ AtWreck(to, U, TRUE, crashed)
    BY <1>1 DEF Located
  <2>6. v \in 11..13 BY <1>1
  <2> QED BY <2>4, <2>5, <2>6, Zenon
<1>2. CASE v # 11
  <2>1. \A to, U : Located(to, v, U, TRUE, crashed) <=> AtPart(to, v, U, TRUE, crashed)
    BY <1>2 DEF Located
  <2>2. v \in (1..13) \ {11} BY <1>2
  <2>3. /\ Refused(T, s) => crashed /\ v \in {12, 13} /\ AtPart(r, v, T, TRUE, crashed)
        /\ ~Refused(T, s) => AtPart(a, v, Executed(T, s), TRUE, crashed)
    BY <2>1, <2>2, ExecutePart, Zenon
  <2>4. v \in {12, 13} => v \in 11..13 OBVIOUS
  <2> QED BY <2>1, <2>3, <2>4, Zenon
<1> QED BY <1>1, <1>2

\* Only the rebuild can lose the checkpoints, and it had a copy.
LEMMA LocatedHolds ==
  ASSUME NEW v \in 1..13, NEW T, NEW o, NEW saved \in BOOLEAN, NEW crashed,
         Located(o, v, T, saved, crashed)
  PROVE  Holds(T) \/ (v = 11 /\ saved)
<1>1. CASE v = 11
  BY <1>1, RebuildingHolds DEF Located, AtRebuilding, AtWreck
<1>2. CASE v # 11
  <2>1. PICK m \in 0..Len(Migration[v]) : T = PartOf(v, m) BY <1>2 DEF Located, AtPart
  <2>2. m \in Nat BY Lengths
  <2> QED BY <1>2, <2>1, <2>2, PartHolds
<1> QED BY <1>1, <1>2

--------------------------------------------------------------------------------
(* The invariant. *)

\* What a process that migrates has seen of the file is still so.
Migrating(o, v) ==
  /\ o.at \in {"closed", "open", "raised", "backup", "copy", "execute", "stamp"}
  /\ o.at \in {"backup", "copy", "execute", "stamp"} => o.version = v /\ v \in 1..13
  /\ o.at = "execute" => o.n \in Steps(v)
  /\ o.at = "open" => v = Current

\* A copy is of the file as it was before the first statement.
Copies ==
  /\ DOMAIN backups = 1..13 /\ \A v \in 1..13 : DOMAIN backups[v] = {"state", "tables"}
  /\ \A v \in 1..13 : BackedUp(v) => backups[v].tables = Schema(v)

\* A file that was there, and the process that opens it.
FoundBy(o) ==
  /\ Migrating(o, file.version)
  /\ o.at \in {"copy", "execute", "stamp"} => BackedUp(file.version)
  /\ o.at = "raised" => file.version > Current \/ (crashes > 0 /\ file.version \in 11..13)
  /\ file.version < Current =>
       Located(o, file.version, file.tables, BackedUp(file.version), crashes > 0)

Found(p) ==
  /\ file.meta /\ file.version \in 1..15
  /\ file.version >= Current => file.tables = Schema(Current)
  /\ FoundBy(opener[p])
  /\ Copies

\* The tables that the first n - 1 steps of the script made.
Created(n) == {Script[k] : k \in 1..(n - 3)}

\* A new file, by a process that has not died.
MadeBy(o) ==
  \/ o.at = "closed" /\ ~file.meta /\ file.version = 0 /\ DOMAIN file.tables = {}
  \/ /\ o.at = "create" /\ o.n \in 1..5
     /\ file.meta <=> o.n > 1
     /\ file.version = IF o.n > 2 THEN Current ELSE 0
     /\ DOMAIN file.tables = Created(o.n)
     /\ \A t \in DOMAIN file.tables : file.tables[t] = Schema(Current)[t]
  \/ /\ o.at = "open"
     /\ file.meta /\ file.version = Current /\ file.tables = Schema(Current)

MigrationIInv(p) ==
  /\ DOMAIN opener = {p}
  /\ start \in 0..15 /\ crashes \in Nat
  /\ start # 0 \/ crashes = 0 => DOMAIN file = {"meta", "version", "tables"}
  /\ start # 0 => Found(p)
  /\ start = 0 /\ crashes = 0 => MadeBy(opener[p])

--------------------------------------------------------------------------------
(* Every step keeps it. *)

LEMMA SetAt ==
  ASSUME NEW p, NEW o, DOMAIN opener = {p}, Set(p, o)
  PROVE  DOMAIN opener' = {p} /\ opener'[p] = o
BY DEF Set

LEMMA StartsThere == ASSUME NEW p, Procs = {p} PROVE MigrationInit => MigrationIInv(p)
<1> SUFFICES ASSUME MigrationInit PROVE MigrationIInv(p)
  OBVIOUS
<1> USE DEF MigrationInit
<1>1. DOMAIN opener = {p} /\ opener[p] = Closed OBVIOUS
<1>2. start \in 0..15 /\ crashes \in Nat /\ crashes = 0 BY MigrationAssumption
<1>3. Closed.at = "closed" BY StateFields DEF Closed
<1>4. /\ DOMAIN backups = 1..13
      /\ \A v \in 1..13 : DOMAIN backups[v] = {"state", "tables"} /\ ~BackedUp(v)
  BY DEF Current, BackedUp
<1>5. /\ file.meta = (start # 0) /\ file.version = start
      /\ DOMAIN file = {"meta", "version", "tables"}
  OBVIOUS
<1>6. ASSUME start # 0 PROVE Found(p)
  <2>1. file.tables = Schema(IF start > 14 THEN 14 ELSE start) BY <1>6 DEF Current
  <2>2. ASSUME start < 14
        PROVE  Located(Closed, start, file.tables, BackedUp(start), crashes > 0)
    <3>1. start \in 1..13 BY <1>2, <1>6, <2>2
    <3>2. file.tables = Schema(start) BY <2>1, <2>2, <3>1
    <3>3. Idle(Closed) BY <1>3 DEF Idle
    <3>4. BackedUp(start) \in BOOLEAN /\ (crashes > 0) \in BOOLEAN BY <1>2 DEF BackedUp
    <3> QED BY <3>1, <3>2, <3>3, <3>4, LocatedFirst
  <2>3. Migrating(Closed, start) BY <1>3 DEF Migrating
  <2>4. start >= 14 => file.tables = Schema(14) BY <1>2, <2>1
  <2>5. FoundBy(Closed) BY <1>3, <1>5, <2>2, <2>3 DEF FoundBy, Current
  <2>6. Copies BY <1>4 DEF Copies
  <2>7. file.meta /\ file.version \in 1..15
    <3>1. (start # 0) = TRUE BY <1>6
    <3>2. file.meta = TRUE BY <1>5, <3>1
    <3> QED BY <1>2, <1>5, <1>6, <3>2
  <2>8. file.version >= Current => file.tables = Schema(Current) BY <1>5, <2>4 DEF Current
  <2>9. FoundBy(opener[p]) BY <1>1, <2>5
  <2> QED BY <2>6, <2>7, <2>8, <2>9 DEF Found
<1>7. ASSUME start = 0 PROVE MadeBy(Closed)
  <2>1. DOMAIN file.tables = {} BY <1>7
  <2> QED BY <1>3, <1>5, <1>7, <2>1 DEF MadeBy
<1> QED BY <1>1, <1>2, <1>5, <1>6, <1>7 DEF MigrationIInv

LEMMA SavedBoolean == (\A v : BackedUp(v) \in BOOLEAN) /\ (\A v : BackedUp(v)' \in BOOLEAN)
BY DEF BackedUp

LEMMA OpenKeeps == ASSUME NEW p, MigrationIInv(p), Open(p) PROVE MigrationIInv(p)'
<1> DEFINE o == opener[p]
           v == file.version
           to == IF file.meta THEN Continue(Version(file)) ELSE State("create", 1, 1)
<1>1. /\ o.at \in {"closed", "open", "raised"}
      /\ DOMAIN opener' = {p} /\ opener'[p] = to
      /\ file' = file /\ backups' = backups /\ start' = start /\ crashes' = crashes
  <2>1. Set(p, to) /\ DOMAIN opener = {p} BY DEF Open, MigrationIInv
  <2> QED BY <2>1, SetAt DEF Open
<1>2. ASSUME start # 0 PROVE Found(p)'
  <2>1. Found(p) BY <1>2 DEF MigrationIInv
  <2>2. file.meta /\ v \in 1..15 /\ Version(file) = v BY <2>1 DEF Found, Version
  <2>3. to = Continue(v) BY <2>2
  <2>4. CASE v = 14
    <3>1. to.at = "open" BY <2>3, <2>4, StateFields DEF Continue, Current
    <3> QED BY <1>1, <2>1, <2>4, <3>1 DEF Found, FoundBy, Migrating, Copies, BackedUp, Current
  <2>5. CASE v = 15
    <3>1. to.at = "raised" BY <2>3, <2>5, StateFields DEF Continue, Current
    <3> QED BY <1>1, <2>1, <2>5, <3>1 DEF Found, FoundBy, Migrating, Copies, BackedUp, Current
  <2>6. CASE v \in 1..13
    <3>1. to.at = "backup" /\ to.version = v
      BY <2>3, <2>6, StateFields DEF Continue, FirstStep, Current
    <3>2. Located(o, v, file.tables, BackedUp(v), crashes > 0)
      BY <2>1, <2>6 DEF Found, FoundBy, Current
    <3>3. (crashes > 0) \in BOOLEAN /\ Idle(o) /\ Idle(to) BY <1>1, <3>1 DEF Idle
    <3>4. Located(to, v, file.tables, BackedUp(v), crashes > 0)
      BY <2>6, <3>2, <3>3, SavedBoolean, LocatedMoves
    <3>5. BackedUp(v)' = BackedUp(v) BY <1>1 DEF BackedUp
    <3>6. FoundBy(to)'
      BY <1>1, <2>6, <3>1, <3>4, <3>5 DEF FoundBy, Migrating, Current
    <3> QED BY <1>1, <2>1, <2>6, <3>6 DEF Found, Copies, BackedUp, Current
  <2> QED BY <2>2, <2>4, <2>5, <2>6
<1>3. ASSUME start = 0, crashes = 0 PROVE MadeBy(to)'
  <2>1. MadeBy(o) BY <1>3 DEF MigrationIInv
  <2>2. CASE ~file.meta
    <3>1. to = State("create", 1, 1) BY <2>2
    <3>2. to.at = "create" /\ to.n = 1 BY <3>1, StateFields
    <3>3. Created(1) = {} BY DEF Created
    <3>4. file.version = 0 /\ DOMAIN file.tables = {} BY <1>1, <2>1, <2>2 DEF MadeBy
    <3> QED BY <1>1, <2>2, <3>2, <3>3, <3>4 DEF MadeBy
  <2>3. CASE file.meta
    <3>1. file.version = Current /\ file.tables = Schema(Current) BY <1>1, <2>1, <2>3 DEF MadeBy
    <3>2. to.at = "open"
      <4>1. to = State("open", 14, 1) BY <2>3, <3>1 DEF Version, Continue, Current
      <4> QED BY <4>1, StateFields
    <3> QED BY <1>1, <2>3, <3>1, <3>2 DEF MadeBy
  <2> QED BY <2>2, <2>3
<1> QED BY <1>1, <1>2, <1>3 DEF MigrationIInv

LEMMA CreateKeeps == ASSUME NEW p, MigrationIInv(p), Create(p) PROVE MigrationIInv(p)'
<1> PICK n : n = opener[p].n OBVIOUS
<1> PICK to : to = IF n = 5 THEN State("open", Current, 1) ELSE State("create", 1, n + 1)
  OBVIOUS
<1>1. /\ opener[p].at = "create"
      /\ DOMAIN opener' = {p} /\ opener'[p] = to
      /\ backups' = backups /\ start' = start /\ crashes' = crashes
  <2>1. Set(p, to) /\ DOMAIN opener = {p} BY DEF Create, MigrationIInv
  <2> QED BY <2>1, SetAt DEF Create, At
<1>2. start = 0
  BY <1>1 DEF MigrationIInv, Found, FoundBy, Migrating
<1>3. ASSUME crashes = 0 PROVE MadeBy(to)' /\ DOMAIN file' = DOMAIN file
  <2>1. /\ n \in 1..5 /\ DOMAIN file = {"meta", "version", "tables"}
        /\ file.meta <=> n > 1
        /\ file.version = IF n > 2 THEN Current ELSE 0
        /\ DOMAIN file.tables = Created(n)
        /\ \A t \in DOMAIN file.tables : file.tables[t] = Schema(Current)[t]
    BY <1>1, <1>2, <1>3 DEF MigrationIInv, MadeBy
  <2>2. /\ n < 5 => to.at = "create" /\ to.n = n + 1
        /\ n = 5 => to.at = "open"
    BY <2>1, StateFields
  <2>3. /\ Created(1) = {} /\ Created(2) = {} /\ Created(3) = {}
        /\ Created(4) = {"runs"} /\ Created(5) = {"runs", "items"}
    <3>1. Script[1] = "runs" /\ Script[2] = "items" BY DEF Script
    <3>2. 1..(4 - 3) = {1} /\ 1..(5 - 3) = {1, 2} OBVIOUS
    <3> QED BY <3>1, <3>2 DEF Created
  <2>4. CASE n = 1
    <3>1. file' = [file EXCEPT !.meta = TRUE] BY <2>4 DEF Create
    <3> QED BY <2>1, <2>2, <2>3, <2>4, <3>1 DEF MadeBy
  <2>5. CASE n = 2
    <3>1. file' = [file EXCEPT !.version = Current] BY <2>1, <2>5 DEF Create
    <3> QED BY <2>1, <2>2, <2>3, <2>5, <3>1 DEF MadeBy
  <2>6. CASE n \in 3..5
    <3> DEFINE t == Script[n - 2]
    <3>1. /\ n = 3 => t = "runs"
          /\ n = 4 => t = "items"
          /\ n = 5 => t = "steps"
      BY <2>6 DEF Script
    <3>2. t \notin DOMAIN file.tables BY <2>1, <2>3, <2>6, <3>1
    <3>3. file' = [file EXCEPT !.tables = Put(@, t, Schema(Current)[t])]
      BY <2>6, <3>2 DEF Create
    <3> HIDE DEF t
    <3>4. /\ file'.meta /\ file'.version = Current
          /\ file'.tables = Put(file.tables, t, Schema(Current)[t])
          /\ DOMAIN file' = DOMAIN file
      BY <2>1, <2>6, <3>3
    <3>5. /\ file'.tables = [u \in DOMAIN file'.tables |-> Schema(Current)[u]]
          /\ DOMAIN file'.tables = DOMAIN file.tables \cup {t}
      BY <2>1, <3>4 DEF Put
    <3>6. CASE n \in 3..4
      <4>1. DOMAIN file'.tables = Created(n + 1) BY <2>1, <2>3, <3>1, <3>5, <3>6
      <4> QED BY <2>2, <3>4, <3>5, <3>6, <4>1 DEF MadeBy
    <3>7. CASE n = 5
      <4>1. DOMAIN file'.tables = {"runs", "items"} \cup {"steps"} BY <2>1, <2>3, <3>1, <3>5, <3>7
      <4>2. DOMAIN Schema(Current) = {"items", "runs", "steps"} BY NamesNow DEF Current
      <4>3. DOMAIN file'.tables = DOMAIN Schema(Current) BY <4>1, <4>2
      <4>4. Schema(Current) = [u \in DOMAIN Schema(Current) |-> Schema(Current)[u]]
        BY DEF Schema, Current
      <4> QED BY <2>2, <3>4, <3>5, <3>7, <4>3, <4>4 DEF MadeBy
    <3> QED BY <2>6, <3>6, <3>7
  <2> QED BY <2>1, <2>4, <2>5, <2>6
<1> QED BY <1>1, <1>2, <1>3 DEF MigrationIInv

\* What is left of the invariant where a migration goes on.
LEMMA MigrationStep ==
  ASSUME NEW p, MigrationIInv(p),
         opener[p].at \in {"backup", "copy", "execute", "stamp"},
         NEW to, Set(p, to), start' = start, crashes' = crashes,
         DOMAIN file' = DOMAIN file,
         Found(p) /\ start # 0 =>
           /\ file'.meta /\ file'.version \in 1..15
           /\ file'.version >= Current => file'.tables = Schema(Current)
           /\ FoundBy(to)' /\ Copies'
  PROVE  MigrationIInv(p)'
<1>1. DOMAIN opener' = {p} /\ opener'[p] = to BY SetAt DEF MigrationIInv
<1>2. start # 0 => Found(p)' BY <1>1 DEF Found, MigrationIInv
<1>3. ~(start = 0 /\ crashes = 0) BY DEF MigrationIInv, MadeBy
<1> QED BY <1>1, <1>2, <1>3 DEF MigrationIInv

LEMMA BackupKeeps == ASSUME NEW p, MigrationIInv(p), Backup(p) PROVE MigrationIInv(p)'
<1> PICK v : v = opener[p].version OBVIOUS
<1> PICK to : to = IF BackedUp(v) THEN State("execute", v, 1) ELSE State("copy", v, 1)
  OBVIOUS
<1>1. /\ opener[p].at = "backup" /\ Set(p, to)
      /\ file' = file /\ start' = start /\ crashes' = crashes
      /\ BackedUp(v) => backups' = backups
      /\ ~BackedUp(v) =>
           backups' = [backups EXCEPT ![v] = [state |-> "torn", tables |-> file.tables]]
  BY DEF Backup, At
<1>2. ASSUME Found(p), start # 0
      PROVE  FoundBy(to)' /\ Copies'
  <2>1. v = file.version /\ v \in 1..13 /\ v < Current
    BY <1>1, <1>2 DEF Found, FoundBy, Migrating, Current
  <2>2. Located(opener[p], v, file.tables, BackedUp(v), crashes > 0)
    BY <1>2, <2>1 DEF Found, FoundBy
  <2>3. /\ DOMAIN backups = 1..13
        /\ \A w \in 1..13 : /\ DOMAIN backups[w] = {"state", "tables"}
                            /\ BackedUp(w) => backups[w].tables = Schema(w)
    BY <1>2 DEF Found, Copies
  <2>4. BackedUp(v)' /\ Copies'
    <3>1. CASE BackedUp(v) BY <1>1, <2>1, <2>3, <3>1 DEF Copies, BackedUp
    <3>2. CASE ~BackedUp(v)
      <4>1. BackedUp(v) = FALSE BY <3>2 DEF BackedUp
      <4>2. file.tables = Schema(v) BY <2>1, <2>2, <4>1, LocatedUnsaved
      <4>3. backups' = [backups EXCEPT ![v] = [state |-> "torn", tables |-> Schema(v)]]
        BY <1>1, <3>2, <4>2
      <4> QED BY <2>1, <2>3, <4>3 DEF Copies, BackedUp
    <3> QED BY <3>1, <3>2
  <2>5. \/ to.at = "execute" /\ to.n = 1 /\ to.version = v
        \/ to.at = "copy" /\ to.version = v
    BY StateFields
  <2>6. /\ (crashes > 0) \in BOOLEAN /\ Idle(opener[p])
        /\ Idle(to) \/ (to.at = "execute" /\ to.n = 1)
    BY <1>1, <2>5 DEF Idle
  <2>7. Located(to, v, file.tables, TRUE, crashes > 0)
    BY <2>1, <2>2, <2>6, SavedBoolean, LocatedMoves
  <2>8. BackedUp(v)' = TRUE BY <2>4 DEF BackedUp
  <2>9. 1 \in Steps(v) BY <2>1, Lengths
  <2>10. Migrating(to, v) BY <2>1, <2>5, <2>9 DEF Migrating
  <2>11. Located(to, v, file.tables, BackedUp(v)', crashes > 0) BY <2>7, <2>8
  <2> QED BY <1>1, <2>1, <2>4, <2>5, <2>10, <2>11 DEF FoundBy
<1> QED BY <1>1, <1>2, MigrationStep DEF Found

LEMMA CopyEndsKeeps == ASSUME NEW p, MigrationIInv(p), CopyEnds(p) PROVE MigrationIInv(p)'
<1> PICK v : v = opener[p].version OBVIOUS
<1> PICK to : to = State("execute", v, 1) OBVIOUS
<1> PICK whole : whole = IF backups[v].tables = file.tables THEN "whole" ELSE backups[v].state
  OBVIOUS
<1>1. /\ opener[p].at = "copy" /\ Set(p, to)
      /\ file' = file /\ start' = start /\ crashes' = crashes
      /\ backups' = [backups EXCEPT ![v].state = whole]
  BY DEF CopyEnds, At
<1>2. ASSUME Found(p), start # 0
      PROVE  FoundBy(to)' /\ Copies'
  <2>1. v = file.version /\ v \in 1..13 /\ v < Current /\ BackedUp(v)
    BY <1>1, <1>2 DEF Found, FoundBy, Migrating, Current
  <2>2. Located(opener[p], v, file.tables, BackedUp(v), crashes > 0)
    BY <1>2, <2>1 DEF Found, FoundBy
  <2>3. /\ DOMAIN backups = 1..13
        /\ \A w \in 1..13 : /\ DOMAIN backups[w] = {"state", "tables"}
                            /\ BackedUp(w) => backups[w].tables = Schema(w)
    BY <1>2 DEF Found, Copies
  <2>4. whole # "none" BY <2>1 DEF BackedUp
  <2>5. BackedUp(v)' /\ Copies' BY <1>1, <2>1, <2>3, <2>4 DEF Copies, BackedUp
  <2>6. to.at = "execute" /\ to.n = 1 /\ to.version = v BY StateFields
  <2>7. (crashes > 0) \in BOOLEAN /\ Idle(opener[p]) BY <1>1 DEF Idle
  <2>8. Located(to, v, file.tables, TRUE, crashes > 0)
    BY <2>1, <2>2, <2>6, <2>7, SavedBoolean, LocatedMoves
  <2>9. BackedUp(v)' = TRUE BY <2>5 DEF BackedUp
  <2>10. Located(to, v, file.tables, BackedUp(v)', crashes > 0) BY <2>8, <2>9
  <2>11. 1 \in Steps(v) BY <2>1, Lengths
  <2>12. Migrating(to, v) BY <2>1, <2>6, <2>11 DEF Migrating
  <2> QED BY <1>1, <2>1, <2>5, <2>6, <2>10, <2>12 DEF FoundBy
<1> QED BY <1>1, <1>2, MigrationStep DEF Found

LEMMA ExecuteKeeps == ASSUME NEW p, MigrationIInv(p), Execute(p) PROVE MigrationIInv(p)'
<1> PICK v, n : v = opener[p].version /\ n = opener[p].n OBVIOUS
<1> PICK s : s = Migration[v][n] OBVIOUS
<1> PICK T : T = file.tables OBVIOUS
<1> PICK r, a : r = State("raised", v, n) /\ a = After(v, n) OBVIOUS
<1>1. /\ opener[p].at = "execute"
      /\ backups' = backups /\ start' = start /\ crashes' = crashes
      /\ Refused(T, s) => Set(p, r) /\ file' = file
      /\ ~Refused(T, s) => Set(p, a) /\ file' = [file EXCEPT !.tables = Executed(T, s)]
  BY DEF Execute, At
<1>2. PICK to : to = IF Refused(T, s) THEN r ELSE a OBVIOUS
<1>3. Set(p, to) /\ DOMAIN file' = DOMAIN file BY <1>1, <1>2
<1>4. ASSUME Found(p), start # 0, DOMAIN file = {"meta", "version", "tables"}
      PROVE  /\ file'.meta /\ file'.version \in 1..15 /\ ~(file'.version >= Current)
             /\ FoundBy(to)' /\ Copies'
  <2>1. v = file.version /\ v \in 1..13 /\ v < Current /\ n \in Steps(v) /\ BackedUp(v)
    BY <1>1, <1>4 DEF Found, FoundBy, Migrating, Current
  <2>2. Located(opener[p], v, T, BackedUp(v), crashes > 0)
    BY <1>4, <2>1 DEF Found, FoundBy
  <2>3. BackedUp(v) = TRUE /\ BackedUp(v)' = TRUE BY <1>1, <2>1 DEF BackedUp
  <2>4. (crashes > 0) \in BOOLEAN OBVIOUS
  <2>5. /\ Refused(T, s) => crashes > 0 /\ v \in 11..13 /\ Located(r, v, T, TRUE, crashes > 0)
        /\ ~Refused(T, s) => Located(a, v, Executed(T, s), TRUE, crashes > 0)
    <3>1. /\ opener[p].at = "execute" /\ opener[p].n \in Steps(v)
          /\ s = Migration[v][opener[p].n] /\ r = State("raised", v, opener[p].n)
          /\ a = After(v, opener[p].n)
      BY <1>1, <2>1
    <3>2. Located(opener[p], v, T, TRUE, crashes > 0) BY <2>2, <2>3
    <3> QED BY <2>1, <2>4, <3>1, <3>2, LocatedExecutes, Zenon
  <2>6. Copies' BY <1>1, <1>4 DEF Found, Copies, BackedUp
  <2>7. file.meta /\ DOMAIN file = {"meta", "version", "tables"} BY <1>4 DEF Found
  <2>8. CASE Refused(T, s)
    <3>1. to = r /\ to.at = "raised" BY <1>2, <2>8, StateFields
    <3>2. file' = file BY <1>1, <2>8
    <3>3. Located(to, v, T, BackedUp(v)', crashes > 0) /\ crashes > 0 /\ v \in 11..13
      BY <2>3, <2>5, <2>8, <3>1
    <3> QED BY <1>1, <2>1, <2>6, <2>7, <3>1, <3>2, <3>3 DEF FoundBy, Migrating, Current
  <2>9. CASE ~Refused(T, s)
    <3>1. to = a BY <1>2, <2>9
    <3>2. /\ file'.meta /\ file'.version = v
          /\ file'.tables = Executed(T, s)
      BY <1>1, <2>1, <2>7, <2>9
    <3>3. Located(to, v, file'.tables, BackedUp(v)', crashes > 0)
      BY <2>3, <2>5, <2>9, <3>1, <3>2
    <3>4. \/ to.at = "execute" /\ to.n \in Steps(v) /\ to.version = v
          \/ to.at = "stamp" /\ to.version = v
      <4>1. PICK l \in 1..10 : l = Len(Migration[v]) BY <2>1, Lengths
      <4>2. n \in 1..l BY <2>1, <4>1 DEF Steps
      <4> QED BY <3>1, <4>1, <4>2, StateFields DEF After, Steps
    <3>5. Migrating(to, v) BY <2>1, <3>4 DEF Migrating
    <3> QED BY <1>1, <2>1, <2>3, <2>6, <3>2, <3>3, <3>4, <3>5 DEF FoundBy, Current
  <2> QED BY <2>8, <2>9
<1>5. start # 0 => DOMAIN file = {"meta", "version", "tables"} BY DEF MigrationIInv
<1> QED BY <1>1, <1>3, <1>4, <1>5, MigrationStep

LEMMA StampKeeps == ASSUME NEW p, MigrationIInv(p), Stamp(p) PROVE MigrationIInv(p)'
<1> PICK v : v = opener[p].version OBVIOUS
<1> PICK to : to = Continue(v + 1) OBVIOUS
<1>1. /\ opener[p].at = "stamp" /\ Set(p, to)
      /\ file' = [file EXCEPT !.version = v + 1]
      /\ backups' = backups /\ start' = start /\ crashes' = crashes
  BY DEF Stamp, At
<1>2. DOMAIN file' = DOMAIN file BY <1>1
<1>3. ASSUME Found(p), start # 0, DOMAIN file = {"meta", "version", "tables"}
      PROVE  /\ file'.meta /\ file'.version \in 1..15
             /\ file'.version >= Current => file'.tables = Schema(Current)
             /\ FoundBy(to)' /\ Copies'
  <2>1. v = file.version /\ v \in 1..13 /\ v < Current
    BY <1>1, <1>3 DEF Found, FoundBy, Migrating, Current
  <2>2. Located(opener[p], v, file.tables, BackedUp(v), crashes > 0)
    BY <1>3, <2>1 DEF Found, FoundBy
  <2>3. file.tables = Schema(v + 1) BY <1>1, <2>1, <2>2, LocatedLast
  <2>4. Copies' BY <1>1, <1>3 DEF Found, Copies, BackedUp
  <2>5. file'.meta /\ file'.version = v + 1 /\ file'.tables = Schema(v + 1)
    BY <1>1, <1>3, <2>3 DEF Found
  <2>6. CASE v = 13
    <3>1. to.at = "open" BY <2>6, StateFields DEF Continue, Current
    <3> QED BY <2>4, <2>5, <2>6, <3>1 DEF FoundBy, Migrating, Current
  <2>7. CASE v < 13
    <3>1. to.at = "backup" /\ to.version = v + 1
      BY <2>1, <2>7, StateFields DEF Continue, FirstStep, Current
    <3>2. Idle(to) /\ v + 1 \in 1..13 BY <2>1, <2>7, <3>1 DEF Idle
    <3>3. (crashes > 0) \in BOOLEAN OBVIOUS
    <3>4. Located(to, v + 1, Schema(v + 1), BackedUp(v + 1)', crashes > 0)
      BY <3>2, <3>3, SavedBoolean, LocatedFirst
    <3>5. Migrating(to, v + 1) BY <3>1, <3>2 DEF Migrating
    <3> QED BY <1>1, <2>4, <2>5, <3>1, <3>2, <3>4, <3>5 DEF FoundBy, Current
  <2> QED BY <2>1, <2>6, <2>7
<1>4. start # 0 => DOMAIN file = {"meta", "version", "tables"} BY DEF MigrationIInv
<1> QED BY <1>1, <1>2, <1>3, <1>4, MigrationStep

LEMMA CrashKeeps == ASSUME NEW p, MigrationIInv(p), Crash(p) PROVE MigrationIInv(p)'
<1>1. Closed.at = "closed" BY StateFields DEF Closed
<1>2. /\ DOMAIN opener' = {p} /\ opener'[p] = Closed
      /\ file' = file /\ backups' = backups /\ start' = start /\ crashes' = crashes + 1
  <2>1. Set(p, Closed) /\ DOMAIN opener = {p} BY DEF Crash, MigrationIInv
  <2> QED BY <2>1, SetAt DEF Crash
<1>3. crashes' \in Nat /\ crashes' > 0 BY <1>2 DEF MigrationIInv
<1>4. ASSUME start # 0 PROVE Found(p)'
  <2>1. Found(p) BY <1>4 DEF MigrationIInv
  <2>2. ASSUME file.version < Current
        PROVE  Located(Closed, file.version, file.tables, BackedUp(file.version), TRUE)
    <3>1. file.version \in 1..13 BY <2>1, <2>2 DEF Found, Current
    <3>2. Located(opener[p], file.version, file.tables, BackedUp(file.version), crashes > 0)
      BY <2>1, <2>2 DEF Found, FoundBy
    <3> QED BY <3>1, <3>2, SavedBoolean, LocatedCrashes
  <2>3. (crashes' > 0) = TRUE BY <1>3
  <2>4. BackedUp(file.version)' = BackedUp(file.version) BY <1>2 DEF BackedUp
  <2>5. FoundBy(Closed)' BY <1>1, <1>2, <2>2, <2>3, <2>4 DEF FoundBy, Migrating
  <2>6. Copies' BY <1>2, <2>1 DEF Found, Copies, BackedUp
  <2> QED BY <1>2, <2>1, <2>5, <2>6 DEF Found
<1> QED BY <1>2, <1>3, <1>4 DEF MigrationIInv

--------------------------------------------------------------------------------
(* Theorems. *)

\* Where the process is with the file, in every state.
THEOREM MigrationInvariant ==
  ASSUME NEW p, Procs = {p} PROVE MigrationSpec => []MigrationIInv(p)
<1>1. MigrationInit => MigrationIInv(p) BY StartsThere
<1>2. MigrationIInv(p) /\ [MigrationNext]_vars => MigrationIInv(p)'
  <2> SUFFICES ASSUME MigrationIInv(p), [MigrationNext]_vars PROVE MigrationIInv(p)'
    OBVIOUS
  <2>1. CASE UNCHANGED vars
    BY <2>1 DEF vars, MigrationIInv, Found, FoundBy, MadeBy, Copies, BackedUp
  <2>2. CASE MigrationNext
    <3>1. Acts(p) BY <2>2 DEF MigrationNext
    <3> QED BY <3>1, OpenKeeps, CreateKeeps, BackupKeeps, CopyEndsKeeps, ExecuteKeeps,
               StampKeeps, CrashKeeps DEF Acts
  <2> QED BY <2>1, <2>2
<1> QED BY <1>1, <1>2, PTL DEF MigrationSpec

\* Whatever crashes there are, a file has the tables of the version it says with a first
\* part of the next migration on top (but version 11, see Rebuilding).
THEOREM KeepsBetweenVersions ==
  ASSUME NEW p, Procs = {p} PROVE MigrationSpec => []BetweenVersions
<1>1. ASSUME MigrationIInv(p) PROVE BetweenVersions
  <2> SUFFICES ASSUME start # 0, file.version \notin {11, Current, Current + 1}
               PROVE  \E n \in 0..Len(Migration[file.version]) :
                        file.tables = PartOf(file.version, n)
    BY DEF BetweenVersions
  <2>1. Found(p) BY <1>1 DEF MigrationIInv
  <2>2. file.version < Current /\ file.version # 11 BY <2>1 DEF Found, Current
  <2> QED BY <2>1, <2>2 DEF Found, FoundBy, Located, AtPart
<1> QED BY <1>1, MigrationInvariant, PTL

\* A file that was opened has the tables of a new one, from whichever version it came and
\* however often its migrations were cut off.
THEOREM OpensCurrent ==
  ASSUME NEW p, Procs = {p} PROVE MigrationSpec => []OpenedIsCurrent
<1>1. ASSUME MigrationIInv(p) PROVE OpenedIsCurrent
  <2> SUFFICES ASSUME opener[p].at = "open", start # 0 \/ crashes = 0
               PROVE  file.version = Current /\ file.tables = Schema(Current)
    BY DEF OpenedIsCurrent, At
  <2>1. CASE start # 0
    BY <1>1, <2>1 DEF MigrationIInv, Found, FoundBy, Migrating, Current
  <2>2. CASE start = 0 /\ crashes = 0
    BY <1>1, <2>2 DEF MigrationIInv, MadeBy
  <2> QED BY <2>1, <2>2
<1> QED BY <1>1, MigrationInvariant, PTL

\* So the version that a file says tells its tables.
THEOREM VersionsTellTables ==
  ASSUME NEW p, Procs = {p} PROVE MigrationSpec => []VersionTellsTables
<1>1. BetweenVersions /\ OpenedIsCurrent => VersionTellsTables BY DEF VersionTellsTables
<1> QED BY <1>1, KeepsBetweenVersions, OpensCurrent, PTL

\* An open never raises for a file of version 10 or older, nor for any without a crash.
THEOREM ReopensOlder ==
  ASSUME NEW p, Procs = {p} PROVE MigrationSpec => []OlderVersionsReopen
<1>1. ASSUME MigrationIInv(p) PROVE OlderVersionsReopen
  BY <1>1 DEF MigrationIInv, Found, FoundBy, OlderVersionsReopen, At
<1> QED BY <1>1, MigrationInvariant, PTL

\* The checkpoints are in the file or in version 11's copy, and every whole copy is of the
\* file before the first statement.
THEOREM KeepsCheckpoints ==
  ASSUME NEW p, Procs = {p} PROVE MigrationSpec => []CheckpointsSurvive
<1>1. Holds(Schema(Current))
  <2>1. "steps" \in DOMAIN Schema(Current) BY NamesNow DEF Current
  <2>2. Schema(Current)["steps"].rows = "checkpoints"
    BY <2>1, TableFields DEF Schema, Rebuilt, Current
  <2> QED BY <2>1, <2>2 DEF Holds
<1>2. ASSUME MigrationIInv(p) PROVE CheckpointsSurvive
  <2> SUFFICES ASSUME start # 0
               PROVE  /\ Holds(file.tables) \/ backups[11].state # "none"
                      /\ \A v \in DOMAIN backups :
                           backups[v].state = "whole" => backups[v].tables = Schema(v)
    BY DEF CheckpointsSurvive
  <2>1. Found(p) BY <1>2 DEF MigrationIInv
  <2>2. CASE file.version >= Current BY <1>1, <2>1, <2>2 DEF Found, Copies, BackedUp
  <2>3. CASE file.version < Current
    <3>1. Located(opener[p], file.version, file.tables, BackedUp(file.version), crashes > 0)
      BY <2>1, <2>3 DEF Found, FoundBy
    <3>2. file.version \in 1..13 BY <2>1, <2>3 DEF Found, Current
    <3>3. Holds(file.tables) \/ (file.version = 11 /\ BackedUp(file.version))
      BY <3>1, <3>2, SavedBoolean, LocatedHolds
    <3> QED BY <2>1, <3>3 DEF Found, Copies, BackedUp
  <2>4. file.version >= Current \/ file.version < Current BY <2>1 DEF Found, Current
  <2> QED BY <2>2, <2>3, <2>4
<1> QED BY <1>2, MigrationInvariant, PTL
================================================================================
