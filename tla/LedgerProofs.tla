----------------------------- MODULE LedgerProofs -----------------------------
(***************************************************************************)
(* Proofs about Ledger, for any number of processes, items, runs and rows,  *)
(* any windows of the fences and any faults.                                *)
(*                                                                         *)
(* The invariant speaks of a run as of a set of items: those it has, those  *)
(* that first ended completed or failed, its dead letters.  Every step of   *)
(* the ledger is then one of four things that can happen to these sets.     *)
(***************************************************************************)
EXTENDS Ledger, TLAPS, FiniteSetTheorems

USE LedgerAssumption

--------------------------------------------------------------------------------
(* The inductive invariant.                                                   *)

FirstEndsOf(its, r, s) == {i \in ItemsOf(its, r) : its[i].first = s}
NoneAnew(its, r) == \A i \in ItemsOf(its, r) : ~its[i].anew

\* What the row of a run says of its items I, of which C completed, F failed at first and L
\* are dead letters, if none ended anew.
Told(C, F, L) ==
  IF F = {} THEN "completed"
  ELSE IF C = {} THEN "failed" ELSE IF L # {} THEN "partial" ELSE "completed"

Tells(run, I, C, F, L, once) ==
  /\ run.completed = Cardinality(C) /\ run.failed = Cardinality(F)
  /\ run.total > 0 =>
       /\ run.closed <=> Cardinality(C) + Cardinality(F) = run.total
       /\ Cardinality(I) <= run.total
  /\ run.total = 0 /\ run.closed => I = {}
  /\ ~run.closed => run.status = "running"
  /\ run.closed /\ once => run.status = Told(C, F, L)

Book(run, its, r) ==
  Tells(run, ItemsOf(its, r), FirstEndsOf(its, r, "completed"), FirstEndsOf(its, r, "failed"),
        DeadLetters(its, r), NoneAnew(its, r))

Books == \A r \in RunIds : Book(runs[r], items, r)

\* An item belongs to a run, and has ended once its status says so.
ItemsStand ==
  \A i \in ItemIds :
    items[i].run \in RunIds /\ (items[i].first = "none" <=> items[i].status = "running")

\* A driver works on an item of the ledger for a source of the ledger.
Valid(d, len, size) ==
  /\ d.run \in 0..size
  /\ d.at \in {"body", "end"} => d.item \in 1..len
  /\ d.at # "idle" => d.by # "none"
  /\ d.record.letter => d.record.of \in 1..len
  /\ d.by = "replay" \/ d.at = "dispose" => d.record.letter
  /\ d.by \notin {"map", "slice"} => d.run = 0
  /\ d.at = "seal" => d.by = "map" /\ d.run # 0
  /\ d.by = "slice" => \A n \in DOMAIN d.left : d.left[n].letter => d.left[n].of \in 1..len

DriversValid == \A p \in Procs : Valid(proc[p], Len(items), Len(runs))

\* A run that a driver may still add items to: of one driver, and with room for them.
Owns(d, r) == d.run = r /\ r # 0 /\ d.at # "idle" /\ (d.by = "map" => d.at # "dispose")

OwnersDiffer ==
  \A p, q \in Procs : \A r \in RunIds : Owns(proc[p], r) /\ Owns(proc[q], r) => p = q

Open(d, run, n) ==
  /\ d.by = "map" => run.total = 0 /\ ~run.closed
  /\ d.by = "slice" => n + Len(d.left) <= run.total

OpenRuns ==
  \A p \in Procs : \A r \in RunIds :
    Owns(proc[p], r) => Open(proc[p], runs[r], Cardinality(ItemsOf(items, r)))

IInv ==
  /\ LedgerTypeOK /\ ItemsStand /\ Books /\ AggregatesMatchRows
  /\ DriversValid /\ OwnersDiffer /\ OpenRuns

--------------------------------------------------------------------------------
(* The row of a run.                                                          *)

\* Cardinalities of the sets a run is told by.
LEMMA Sizes ==
  ASSUME NEW I, IsFiniteSet(I), NEW C \in SUBSET I, NEW F \in SUBSET I, C \cap F = {}
  PROVE  /\ IsFiniteSet(C) /\ IsFiniteSet(F)
         /\ Cardinality(I) \in Nat /\ Cardinality(C) \in Nat /\ Cardinality(F) \in Nat
         /\ Cardinality(C) + Cardinality(F) <= Cardinality(I)
         /\ (Cardinality(C) = 0 <=> C = {}) /\ (Cardinality(F) = 0 <=> F = {})
         /\ Cardinality(C \cup F) = Cardinality(C) + Cardinality(F)
<1>1. IsFiniteSet(C) /\ IsFiniteSet(F) /\ IsFiniteSet(C \cup F)
  BY FS_Subset, FS_Union
<1>2. Cardinality(I) \in Nat /\ Cardinality(C) \in Nat /\ Cardinality(F) \in Nat
  BY <1>1, FS_CardinalityType
<1>3. Cardinality(C \cup F) = Cardinality(C) + Cardinality(F)
  <2>1. Cardinality(C \cap F) = 0
    BY FS_EmptySet
  <2>2. Cardinality(C \cup F) = Cardinality(C) + Cardinality(F) - Cardinality(C \cap F)
    BY <1>1, FS_Union
  <2>3. QED BY <1>2, <2>1, <2>2
<1>4. Cardinality(C \cup F) <= Cardinality(I)
  BY FS_Subset
<1>5. (Cardinality(C) = 0 <=> C = {}) /\ (Cardinality(F) = 0 <=> F = {})
  BY <1>1, FS_EmptySet
<1>6. QED BY <1>1, <1>2, <1>3, <1>4, <1>5

\* An item joins a run that has room for it.
LEMMA TellsOfJoined ==
  ASSUME NEW run \in Run, NEW I, IsFiniteSet(I), NEW C \in SUBSET I, NEW F \in SUBSET I,
         NEW L, NEW once, NEW other, NEW x, x \notin I, C \cap F = {},
         Tells(run, I, C, F, L, once),
         run.total = 0 => ~run.closed, run.total > 0 => Cardinality(I) + 1 <= run.total
  PROVE  Tells(run, I \cup {x}, C, F, L, other) /\ Cardinality(I \cup {x}) = Cardinality(I) + 1
<1>1. /\ Cardinality(I) \in Nat /\ Cardinality(C) \in Nat /\ Cardinality(F) \in Nat
      /\ Cardinality(C) + Cardinality(F) <= Cardinality(I)
  BY Sizes
<1>2. Cardinality(I \cup {x}) = Cardinality(I) + 1
  BY FS_AddElement
<1>3. run.total \in Nat
  BY DEF Run
<1>4. ~run.closed
  BY <1>1, <1>3 DEF Tells
<1>5. QED BY <1>1, <1>2, <1>3, <1>4 DEF Tells

\* A dead letter is resolved: nothing is opened or closed, and a partial run may be promoted.
LEMMA TellsOfResolved ==
  ASSUME NEW run \in Run, NEW I, NEW C, NEW F, NEW L, NEW K \in SUBSET L, NEW once,
         Tells(run, I, C, F, L, once)
  PROVE  /\ Tells(Promoted(run, K), I, C, F, K, once)
         /\ Promoted(run, K) \in Run
         /\ Promoted(run, K).total = run.total /\ Promoted(run, K).closed = run.closed
<1>1. CASE run.status = "partial" /\ K = {}
  <2>1. Promoted(run, K) = [run EXCEPT !.status = "completed"]
    BY <1>1 DEF Promoted
  <2>2. run.closed
    BY <1>1 DEF Tells
  <2>3. QED BY <1>1, <2>1, <2>2 DEF Tells, Told, Run, Ends
<1>2. CASE ~(run.status = "partial" /\ K = {})
  <2>1. Promoted(run, K) = run
    BY <1>2 DEF Promoted
  <2>2. ASSUME run.closed, once PROVE run.status = Told(C, F, K)
    <3>1. run.status = Told(C, F, L)
      BY <2>2 DEF Tells
    <3>2. QED BY <1>2, <3>1 DEF Told
  <2>3. QED BY <2>1, <2>2 DEF Tells
<1>3. QED BY <1>1, <1>2

\* The roll-up of a run whose last item has ended, or has not.
LEMMA TellsOfRolledUp ==
  ASSUME NEW run \in Run, NEW I, IsFiniteSet(I), NEW C \in SUBSET I, NEW F \in SUBSET I,
         NEW L, NEW once, C \cap F = {},
         ~run.closed, run.status = "running",
         run.completed = Cardinality(C), run.failed = Cardinality(F),
         run.total > 0 => Cardinality(I) <= run.total
  PROVE  /\ Tells(Promoted(RolledUp(run), L), I, C, F, L, once)
         /\ Promoted(RolledUp(run), L) \in Run
         /\ Promoted(RolledUp(run), L).total = run.total
         /\ run.total = 0 => ~Promoted(RolledUp(run), L).closed
<1>1. /\ Cardinality(I) \in Nat /\ Cardinality(C) \in Nat /\ Cardinality(F) \in Nat
      /\ Cardinality(C) + Cardinality(F) <= Cardinality(I)
      /\ (Cardinality(C) = 0 <=> C = {}) /\ (Cardinality(F) = 0 <=> F = {})
  <2>1. Cardinality(I) \in Nat /\ Cardinality(C) \in Nat /\ Cardinality(F) \in Nat
    BY FS_Subset, FS_CardinalityType
  <2>2. Cardinality(C) + Cardinality(F) <= Cardinality(I)
    BY Sizes
  <2>3. (Cardinality(C) = 0 <=> C = {}) /\ (Cardinality(F) = 0 <=> F = {})
    BY Sizes
  <2>4. QED BY <2>1, <2>2, <2>3
<1>2. run.total \in Nat
  BY DEF Run
<1>3. CASE ~Due(run)
  <2>1. RolledUp(run) = run /\ Promoted(run, L) = run
    BY <1>3 DEF RolledUp, Promoted
  <2>2. run.total > 0 => Cardinality(C) + Cardinality(F) # run.total
    BY <1>1, <1>2, <1>3 DEF Due
  <2>3. QED BY <1>1, <1>2, <2>1, <2>2 DEF Tells
<1>4. CASE Due(run)
  <2> DEFINE closed == [run EXCEPT !.closed = TRUE,
                          !.status = IF run.failed = 0 THEN "completed"
                                     ELSE IF run.completed = 0 THEN "failed" ELSE "partial"]
  <2>1. RolledUp(run) = closed
    BY <1>4 DEF RolledUp
  <2>2. run.total > 0 /\ Cardinality(C) + Cardinality(F) = run.total
    BY <1>1, <1>2, <1>4 DEF Due
  <2>3. /\ closed \in Run /\ closed.closed /\ closed.total = run.total
        /\ closed.completed = run.completed /\ closed.failed = run.failed
        /\ closed.status = IF F = {} THEN "completed" ELSE IF C = {} THEN "failed" ELSE "partial"
    BY <1>1 DEF Run, Ends
  <2> HIDE DEF closed
  <2>4. CASE closed.status = "partial" /\ L = {}
    <3>1. Promoted(closed, L) = [closed EXCEPT !.status = "completed"]
      BY <2>4 DEF Promoted
    <3>2. QED BY <1>1, <1>2, <2>1, <2>2, <2>3, <2>4, <3>1 DEF Tells, Told, Run, Ends
  <2>5. CASE ~(closed.status = "partial" /\ L = {})
    <3>1. Promoted(closed, L) = closed
      BY <2>5 DEF Promoted
    <3>2. QED BY <1>1, <1>2, <2>1, <2>2, <2>3, <2>5, <3>1 DEF Tells, Told
  <2>6. QED BY <2>4, <2>5
<1>5. QED BY <1>3, <1>4

\* An open run is sealed with the items it has.
LEMMA TellsOfSealed ==
  ASSUME NEW run \in Run, NEW I, IsFiniteSet(I), NEW C \in SUBSET I, NEW F \in SUBSET I,
         NEW L, NEW once, NEW other, C \cap F = {}, L \subseteq I,
         Tells(run, I, C, F, L, other), run.total = 0, ~run.closed
  PROVE  /\ Tells(Promoted(Sealed(run, Cardinality(I)), L), I, C, F, L, once)
         /\ Promoted(Sealed(run, Cardinality(I)), L) \in Run
<1> DEFINE sized == [run EXCEPT !.total = Cardinality(I)]
<1>1. /\ Cardinality(I) \in Nat /\ Cardinality(C) \in Nat /\ Cardinality(F) \in Nat
      /\ Cardinality(C) + Cardinality(F) <= Cardinality(I)
      /\ (Cardinality(C) = 0 <=> C = {}) /\ (Cardinality(F) = 0 <=> F = {})
  BY Sizes
<1>2. /\ sized \in Run /\ sized.total = Cardinality(I) /\ ~sized.closed
      /\ sized.completed = Cardinality(C) /\ sized.failed = Cardinality(F)
      /\ sized.status = "running"
  BY <1>1 DEF Run, Tells
<1>3. Sealed(run, Cardinality(I)) =
        IF RolledUp(sized).total = 0 /\ ~RolledUp(sized).closed
        THEN [RolledUp(sized) EXCEPT !.status = "completed", !.closed = TRUE]
        ELSE RolledUp(sized)
  BY DEF Sealed
<1> HIDE DEF sized
<1>4. RolledUp(sized) \in Run /\ RolledUp(sized).total = sized.total
  BY <1>2 DEF RolledUp, Run, Ends
<1>5. CASE Cardinality(I) = 0
  <2>1. I = {} /\ C = {} /\ F = {}
    BY <1>5, FS_EmptySet
  <2>2. RolledUp(sized) = sized
    BY <1>2, <1>5 DEF RolledUp, Due
  <2>3. Sealed(run, Cardinality(I)) = [sized EXCEPT !.status = "completed", !.closed = TRUE]
    BY <1>2, <1>3, <1>5, <2>2
  <2>4. Promoted(Sealed(run, Cardinality(I)), L) = Sealed(run, Cardinality(I))
    BY <1>2, <2>3 DEF Promoted, Run
  <2>5. /\ Sealed(run, Cardinality(I)) \in Run /\ Sealed(run, Cardinality(I)).closed
        /\ Sealed(run, Cardinality(I)).status = "completed"
        /\ Sealed(run, Cardinality(I)).total = 0
        /\ Sealed(run, Cardinality(I)).completed = Cardinality(C)
        /\ Sealed(run, Cardinality(I)).failed = Cardinality(F)
    BY <1>2, <1>5, <2>3 DEF Run, Ends
  <2>6. QED BY <2>1, <2>4, <2>5 DEF Tells, Told
<1>6. CASE Cardinality(I) # 0
  <2>1. Sealed(run, Cardinality(I)) = RolledUp(sized)
    BY <1>2, <1>3, <1>4, <1>6
  <2>2. QED BY <1>1, <1>2, <1>6, <2>1, TellsOfRolledUp
<1>7. QED BY <1>5, <1>6

--------------------------------------------------------------------------------
(* The items of a run.                                                        *)

LEMMA ItemSets ==
  ASSUME NEW its \in Seq(Item), NEW r
  PROVE  /\ IsFiniteSet(ItemsOf(its, r)) /\ Cardinality(ItemsOf(its, r)) \in Nat
         /\ FirstEndsOf(its, r, "completed") \in SUBSET ItemsOf(its, r)
         /\ FirstEndsOf(its, r, "failed") \in SUBSET ItemsOf(its, r)
         /\ FirstEndsOf(its, r, "completed") \cap FirstEndsOf(its, r, "failed") = {}
         /\ DeadLetters(its, r) \in SUBSET ItemsOf(its, r)
<1>1. IsFiniteSet(ItemsOf(its, r))
  <2>1. Len(its) \in Nat /\ DOMAIN its = 1..Len(its)
    OBVIOUS
  <2>2. IsFiniteSet(1..Len(its))
    BY <2>1, FS_Interval
  <2>3. ItemsOf(its, r) \in SUBSET (1..Len(its))
    BY <2>1 DEF ItemsOf
  <2>4. QED BY <2>2, <2>3, FS_Subset
<1>2. Cardinality(ItemsOf(its, r)) \in Nat
  BY <1>1, FS_CardinalityType
<1>3. QED BY <1>1, <1>2 DEF FirstEndsOf, DeadLetters

\* What nothing of an item has changed in but its rows.
LEMMA SetsKept ==
  ASSUME DOMAIN items' = DOMAIN items, NEW r,
         \A i \in DOMAIN items : items'[i].run = items[i].run,
         \A i \in ItemsOf(items, r) : /\ items'[i].first = items[i].first
                                      /\ items'[i].anew = items[i].anew
  PROVE  /\ ItemsOf(items', r) = ItemsOf(items, r)
         /\ NoneAnew(items', r) <=> NoneAnew(items, r)
         /\ FirstEndsOf(items', r, "completed") = FirstEndsOf(items, r, "completed")
         /\ FirstEndsOf(items', r, "failed") = FirstEndsOf(items, r, "failed")
         /\ (\A i \in ItemsOf(items, r) : /\ items'[i].status = items[i].status
                                          /\ items'[i].disposition = items[i].disposition)
              => DeadLetters(items', r) = DeadLetters(items, r)
<1>1. ItemsOf(items', r) = ItemsOf(items, r)
  BY DEF ItemsOf
<1>2. NoneAnew(items', r) <=> NoneAnew(items, r)
  BY <1>1 DEF NoneAnew
<1>3. /\ FirstEndsOf(items', r, "completed") = FirstEndsOf(items, r, "completed")
      /\ FirstEndsOf(items', r, "failed") = FirstEndsOf(items, r, "failed")
  BY <1>1 DEF FirstEndsOf
<1>4. QED BY <1>1, <1>2, <1>3 DEF DeadLetters

LEMMA NewItemTyped ==
  ASSUME NEW r \in Nat, NEW from \in Nat
  PROVE  /\ NewItem(r, from) \in Item /\ NewItem(r, from).run = r
         /\ NewItem(r, from).status = "running" /\ NewItem(r, from).first = "none"
         /\ NewItem(r, from).rows = <<>> /\ NewItem(r, from).worst = "ok"
         /\ NewItem(r, from).degraded = 0 /\ NewItem(r, from).disposition = "none"
BY DEF NewItem, Item, Outcomes, Ends

LEMMA NewRunTyped ==
  ASSUME NEW total \in Nat, NEW from \in Nat
  PROVE  NewRun(total, from) \in Run /\ Tells(NewRun(total, from), {}, {}, {}, {}, TRUE)
<1>1. Cardinality({}) = 0
  BY FS_EmptySet
<1>2. QED BY <1>1 DEF NewRun, Run, Ends, Tells

\* An item is added: to the items of its run, and to nothing else.
LEMMA SetsGrow ==
  ASSUME items \in Seq(Item), NEW x \in Item, x.first = "none", x.status = "running", NEW r,
         items' = Append(items, x)
  PROVE  /\ x.run # r => ItemsOf(items', r) = ItemsOf(items, r) /\ (NoneAnew(items', r) <=> NoneAnew(items, r))
         /\ x.run = r => ItemsOf(items', r) = ItemsOf(items, r) \cup {Len(items) + 1}
         /\ FirstEndsOf(items', r, "completed") = FirstEndsOf(items, r, "completed")
         /\ FirstEndsOf(items', r, "failed") = FirstEndsOf(items, r, "failed")
         /\ DeadLetters(items', r) = DeadLetters(items, r)
         /\ Len(items) + 1 \notin ItemsOf(items, r)
<1>1. /\ Len(items) \in Nat /\ DOMAIN items = 1..Len(items) /\ DOMAIN items' = 1..(Len(items) + 1)
      /\ items'[Len(items) + 1] = x /\ \A i \in 1..Len(items) : items'[i] = items[i]
  OBVIOUS
<1>2. Len(items) + 1 \notin DOMAIN items /\ DOMAIN items' = DOMAIN items \cup {Len(items) + 1}
  BY <1>1
<1>3. x.run # r => ItemsOf(items', r) = ItemsOf(items, r)
  BY <1>1, <1>2 DEF ItemsOf
<1>4. x.run = r => ItemsOf(items', r) = ItemsOf(items, r) \cup {Len(items) + 1}
  BY <1>1, <1>2 DEF ItemsOf
<1>5. Len(items) + 1 \notin ItemsOf(items, r) /\ ItemsOf(items, r) \subseteq 1..Len(items)
  BY <1>1, <1>2 DEF ItemsOf
<1>6. x.run # r => (NoneAnew(items', r) <=> NoneAnew(items, r))
  BY <1>1, <1>3, <1>5 DEF NoneAnew
<1>7. ASSUME NEW i
      PROVE  /\ i \in FirstEndsOf(items', r, "completed") <=> i \in FirstEndsOf(items, r, "completed")
             /\ i \in FirstEndsOf(items', r, "failed") <=> i \in FirstEndsOf(items, r, "failed")
             /\ i \in DeadLetters(items', r) <=> i \in DeadLetters(items, r)
  <2>1. CASE i = Len(items) + 1
    BY <1>1, <1>5, <2>1 DEF FirstEndsOf, DeadLetters
  <2>2. CASE i # Len(items) + 1
    <3>1. i \in ItemsOf(items', r) <=> i \in ItemsOf(items, r)
      BY <1>3, <1>4, <2>2
    <3>2. i \in ItemsOf(items, r) => items'[i] = items[i]
      BY <1>1, <1>5
    <3>3. QED BY <3>1, <3>2 DEF FirstEndsOf, DeadLetters
  <2>3. QED BY <2>1, <2>2
<1>8. QED BY <1>3, <1>4, <1>5, <1>6, <1>7

--------------------------------------------------------------------------------
(* The rows of an item.                                                       *)

Spoilt(rows) == {n \in DOMAIN rows : rows[n].outcome # "ok"}
OutcomesOf(rows) == {rows[n].outcome : n \in DOMAIN rows}

Aggregated(x) ==
  /\ x.worst \in OutcomesOf(x.rows) \cup {"ok"}
  /\ \A o \in OutcomesOf(x.rows) : Severity[o] <= Severity[x.worst]
  /\ x.degraded = Cardinality(Spoilt(x.rows))

LEMMA AggregatesOfItems ==
  AggregatesMatchRows <=> \A i \in ItemIds : Aggregated(items[i])
BY DEF AggregatesMatchRows, Aggregated, Spoilt, OutcomesOf

LEMMA AggregatesThen ==
  ASSUME \A i \in ItemIds' : Aggregated(items'[i])
  PROVE  AggregatesMatchRows'
BY DEF AggregatesMatchRows, Aggregated, Spoilt, OutcomesOf

LEMMA NoRows == Spoilt(<<>>) = {} /\ OutcomesOf(<<>>) = {}
<1>1. DOMAIN <<>> = {}
  OBVIOUS
<1>2. QED BY <1>1 DEF Spoilt, OutcomesOf

\* The aggregates after a row more.
LEMMA AggregatedAppend ==
  ASSUME NEW x \in Item, Aggregated(x), NEW token \in {"step", "mark"} \X Nat,
         NEW outcome \in Outcomes, NEW y \in Item,
         y.rows = Append(x.rows, [token |-> token, outcome |-> outcome]),
         y.worst = Worse(outcome, x.worst),
         y.degraded = IF outcome = "ok" THEN x.degraded ELSE x.degraded + 1
  PROVE  Aggregated(y)
<1> DEFINE len == Len(x.rows)
           R == [token : {"step", "mark"} \X Nat, outcome : Outcomes]
<1>1. /\ x.rows \in Seq(R) /\ len \in Nat /\ DOMAIN x.rows = 1..len
      /\ DOMAIN y.rows = 1..(len + 1) /\ y.rows[len + 1].outcome = outcome
      /\ \A n \in 1..len : y.rows[n] = x.rows[n]
  <2>1. x.rows \in Seq(R)
    BY DEF Item
  <2>2. [token |-> token, outcome |-> outcome] \in R
    OBVIOUS
  <2>3. QED BY <2>1, <2>2
<1> HIDE DEF len, R
<1>2. OutcomesOf(y.rows) = OutcomesOf(x.rows) \cup {outcome}
  <2>1. ASSUME NEW o \in OutcomesOf(y.rows) PROVE o \in OutcomesOf(x.rows) \cup {outcome}
    <3>1. PICK n \in 1..(len + 1) : o = y.rows[n].outcome
      BY <1>1, <2>1 DEF OutcomesOf
    <3>2. CASE n = len + 1
      BY <1>1, <3>1, <3>2
    <3>3. CASE n \in 1..len
      BY <1>1, <3>1, <3>3 DEF OutcomesOf
    <3>4. QED BY <1>1, <3>1, <3>2, <3>3
  <2>2. ASSUME NEW o \in OutcomesOf(x.rows) \cup {outcome} PROVE o \in OutcomesOf(y.rows)
    <3>1. CASE o = outcome
      <4>1. len + 1 \in 1..(len + 1)
        BY <1>1
      <4>2. QED BY <1>1, <3>1, <4>1 DEF OutcomesOf
    <3>2. CASE o \in OutcomesOf(x.rows)
      <4>1. PICK n \in 1..len : o = x.rows[n].outcome
        BY <1>1, <3>2 DEF OutcomesOf
      <4>2. n \in 1..(len + 1) /\ o = y.rows[n].outcome
        BY <1>1, <4>1
      <4>3. QED BY <1>1, <4>2 DEF OutcomesOf
    <3>3. QED BY <2>2, <3>1, <3>2
  <2>3. QED BY <2>1, <2>2
<1>3. Spoilt(y.rows) = IF outcome = "ok" THEN Spoilt(x.rows) ELSE Spoilt(x.rows) \cup {len + 1}
  <2>1. ASSUME NEW n
        PROVE  n \in Spoilt(y.rows) <=>
                 n \in Spoilt(x.rows) \/ (n = len + 1 /\ outcome # "ok")
    <3>1. CASE n = len + 1
      BY <1>1, <3>1 DEF Spoilt
    <3>2. CASE n # len + 1
      <4>1. n \in 1..(len + 1) <=> n \in 1..len
        BY <1>1, <3>2
      <4>2. QED BY <1>1, <3>2, <4>1 DEF Spoilt
    <3>3. QED BY <3>1, <3>2
  <2>2. QED BY <2>1
<1>4. y.degraded = Cardinality(Spoilt(y.rows))
  <2>1. IsFiniteSet(Spoilt(x.rows)) /\ len + 1 \notin Spoilt(x.rows)
    <3>1. IsFiniteSet(1..len)
      BY <1>1, FS_Interval
    <3>2. Spoilt(x.rows) \in SUBSET (1..len)
      BY <1>1 DEF Spoilt
    <3>3. len + 1 \notin 1..len
      BY <1>1
    <3>4. QED BY <3>1, <3>2, <3>3, FS_Subset
  <2>2. Cardinality(Spoilt(x.rows) \cup {len + 1}) = Cardinality(Spoilt(x.rows)) + 1
    BY <2>1, FS_AddElement
  <2>3. QED BY <1>3, <2>2 DEF Aggregated
<1>5. /\ y.worst \in {outcome, x.worst}
      /\ Severity[outcome] <= Severity[y.worst] /\ Severity[x.worst] <= Severity[y.worst]
  <2>1. x.worst \in Outcomes
    BY DEF Item
  <2>2. QED BY <2>1 DEF Worse, Severity, Outcomes
<1>6. ASSUME NEW o \in OutcomesOf(y.rows) PROVE Severity[o] <= Severity[y.worst]
  <2>1. CASE o = outcome
    BY <1>5, <2>1
  <2>2. CASE o \in OutcomesOf(x.rows)
    <3>1. Severity[o] <= Severity[x.worst]
      BY <2>2 DEF Aggregated
    <3>2. o \in Outcomes /\ x.worst \in Outcomes /\ y.worst \in Outcomes
      <4>1. PICK n \in 1..len : o = x.rows[n].outcome
        BY <1>1, <2>2 DEF OutcomesOf
      <4>2. x.rows[n] \in R
        BY <1>1, <4>1
      <4>3. QED BY <4>1, <4>2 DEF Item, R
    <3>3. QED BY <1>5, <3>1, <3>2 DEF Severity, Outcomes
  <2>3. QED BY <1>2, <1>6, <2>1, <2>2
<1>7. y.worst \in OutcomesOf(y.rows) \cup {"ok"}
  BY <1>2, <1>5 DEF Aggregated
<1>8. QED BY <1>4, <1>6, <1>7 DEF Aggregated

\* Saving a row changes the item's rows and aggregates, and those together.
LEMMA RecordedKeeps ==
  ASSUME NEW its \in Seq(Item), NEW i \in DOMAIN its, NEW token \in {"step", "mark"} \X Nat,
         NEW outcome \in Outcomes, NEW jts, jts = Recorded(its, i, token, outcome),
         \A j \in DOMAIN its : Aggregated(its[j])
  PROVE  /\ jts \in Seq(Item) /\ Len(jts) = Len(its) /\ DOMAIN jts = DOMAIN its
         /\ \A j \in DOMAIN its :
              /\ Aggregated(jts[j])
              /\ jts[j].run = its[j].run /\ jts[j].first = its[j].first
              /\ jts[j].anew = its[j].anew /\ jts[j].status = its[j].status
              /\ jts[j].disposition = its[j].disposition
<1>1. CASE \E n \in DOMAIN its[i].rows : its[i].rows[n].token = token
  BY <1>1 DEF Recorded
<1>2. CASE ~\E n \in DOMAIN its[i].rows : its[i].rows[n].token = token
  <2> DEFINE x == its[i]
             y == [x EXCEPT !.rows = Append(@, [token |-> token, outcome |-> outcome]),
                            !.worst = Worse(outcome, @),
                            !.degraded = IF outcome = "ok" THEN @ ELSE @ + 1]
  <2>1. x \in Item
    OBVIOUS
  <2> HIDE DEF x
  <2>2. /\ y \in Item
        /\ y.rows = Append(x.rows, [token |-> token, outcome |-> outcome])
        /\ y.worst = Worse(outcome, x.worst)
        /\ y.degraded = IF outcome = "ok" THEN x.degraded ELSE x.degraded + 1
        /\ y.run = x.run /\ y.first = x.first /\ y.anew = x.anew /\ y.status = x.status
        /\ y.disposition = x.disposition
    <3>1. Append(x.rows, [token |-> token, outcome |-> outcome])
            \in Seq([token : {"step", "mark"} \X Nat, outcome : Outcomes])
      BY <2>1 DEF Item
    <3>2. Worse(outcome, x.worst) \in Outcomes
      BY <2>1 DEF Item, Worse
    <3>3. x.degraded \in Nat
      BY <2>1 DEF Item
    <3> DEFINE rows == Append(x.rows, [token |-> token, outcome |-> outcome])
               worst == Worse(outcome, x.worst)
               degraded == IF outcome = "ok" THEN x.degraded ELSE x.degraded + 1
    <3>5. y = [x EXCEPT !.rows = rows, !.worst = worst, !.degraded = degraded]
      BY <2>1 DEF Item
    <3>6. /\ degraded \in Nat /\ worst \in Outcomes
          /\ rows \in Seq([token : {"step", "mark"} \X Nat, outcome : Outcomes])
      BY <3>1, <3>2, <3>3
    <3> HIDE DEF rows, worst, degraded, y
    <3>7. /\ y \in Item /\ y.rows = rows /\ y.worst = worst /\ y.degraded = degraded
          /\ y.run = x.run /\ y.first = x.first /\ y.anew = x.anew
          /\ y.status = x.status /\ y.disposition = x.disposition
      BY <2>1, <3>5, <3>6 DEF Item
    <3>8. QED BY <3>7 DEF rows, worst, degraded
  <2>3. jts = [its EXCEPT ![i] = y]
    BY <1>2 DEF Recorded, x
  <2>4. Aggregated(x)
    BY DEF x
  <2> HIDE DEF y
  <2>5. Aggregated(y)
    BY <2>1, <2>2, <2>4, AggregatedAppend
  <2>6. /\ jts \in Seq(Item) /\ Len(jts) = Len(its) /\ DOMAIN jts = DOMAIN its
        /\ \A j \in DOMAIN its : jts[j] = IF j = i THEN y ELSE its[j]
    BY <2>2, <2>3
  <2>7. QED BY <2>2, <2>5, <2>6 DEF x
<1>3. QED BY <1>1, <1>2

--------------------------------------------------------------------------------
(* What the steps do to the two tables.                                       *)

Tables ==
  /\ runs \in Seq(Run) /\ items \in Seq(Item)
  /\ ItemsStand /\ Books /\ AggregatesMatchRows

\* A step that adds no item to run r and does not size it.
Undisturbed(r) ==
  /\ ItemsOf(items', r) = ItemsOf(items, r) /\ runs'[r].total = runs[r].total
  /\ runs[r].total = 0 /\ ~runs[r].closed => ~runs'[r].closed

LEMMA TablesShape ==
  ASSUME Tables
  PROVE  /\ Len(runs) \in Nat /\ DOMAIN runs = 1..Len(runs)
         /\ Len(items) \in Nat /\ DOMAIN items = 1..Len(items)
         /\ \A r \in RunIds : runs[r] \in Run
         /\ \A i \in ItemIds : items[i] \in Item
BY DEF Tables, RunIds, ItemIds

LEMMA NothingWritten ==
  ASSUME Tables, UNCHANGED <<runs, items>>
  PROVE  Tables' /\ \A r \in RunIds : Undisturbed(r)
BY DEF Tables, ItemsStand, Books, Book, AggregatesMatchRows, RunIds, ItemIds, Undisturbed

\* A run is minted.
LEMMA RunMinted ==
  ASSUME Tables, NEW total \in Nat, NEW from \in Nat,
         runs' = Append(runs, NewRun(total, from)), items' = items
  PROVE  /\ Tables' /\ Len(runs') = Len(runs) + 1 /\ Len(items') = Len(items)
         /\ \A r \in RunIds : Undisturbed(r)
         /\ runs'[Len(runs) + 1].total = total /\ ~runs'[Len(runs) + 1].closed
         /\ ItemsOf(items', Len(runs) + 1) = {}
<1> DEFINE new == NewRun(total, from)
           R == Len(runs) + 1
<1>1. new \in Run /\ Tells(new, {}, {}, {}, {}, TRUE)
  BY NewRunTyped
<1>2. new.total = total /\ ~new.closed
  BY DEF NewRun
<1> HIDE DEF new
<1>3. /\ runs' \in Seq(Run) /\ Len(runs') = R /\ runs'[R] = new
      /\ \A r \in RunIds : runs'[r] = runs[r] /\ r # R
      /\ RunIds' = RunIds \cup {R} /\ Len(runs) \in Nat
  BY <1>1, TablesShape DEF Tables, RunIds, new
<1>4. ItemsOf(items, R) = {}
  <2>1. \A i \in DOMAIN items : items[i].run # R
    BY <1>3, TablesShape DEF Tables, ItemsStand, RunIds, ItemIds
  <2>2. QED BY <2>1 DEF ItemsOf
<1>5. Books'
  <2>1. Book(new, items, R)
    BY <1>1, <1>2, <1>4 DEF Book, FirstEndsOf, DeadLetters, NoneAnew, Tells
  <2>2. ASSUME NEW r \in RunIds' PROVE Book(runs'[r], items', r)
    BY <1>3, <2>1, <2>2 DEF Tables, Books
  <2>3. QED BY <2>2 DEF Books, Book
<1>6. ItemsStand' /\ AggregatesMatchRows'
  <2>1. items' = items /\ RunIds \subseteq RunIds'
    BY <1>3
  <2>2. ItemsStand'
    BY <2>1 DEF Tables, ItemsStand, ItemIds
  <2>3. AggregatesMatchRows'
    <3>1. \A i \in ItemIds : Aggregated(items[i])
      BY AggregatesOfItems DEF Tables
    <3>2. \A i \in ItemIds' : Aggregated(items'[i])
      BY <2>1, <3>1 DEF ItemIds
    <3>3. QED BY <3>2, AggregatesThen
  <2>4. QED BY <2>2, <2>3
<1>7. \A r \in RunIds : Undisturbed(r)
  BY <1>3 DEF Undisturbed
<1>8. QED BY <1>2, <1>3, <1>4, <1>5, <1>6, <1>7 DEF Tables, new

\* An item is inserted into run r, or into a run of its own.
LEMMA ItemInserted ==
  ASSUME Tables, NEW r \in Nat, NEW from \in Nat, InsertItem(r, from),
         r # 0 => /\ r \in RunIds /\ (runs[r].total = 0 => ~runs[r].closed)
                  /\ runs[r].total > 0 => Cardinality(ItemsOf(items, r)) + 1 <= runs[r].total
  PROVE  /\ Tables' /\ Len(items') = Len(items) + 1
         /\ Len(runs') = IF r = 0 THEN Len(runs) + 1 ELSE Len(runs)
         /\ \A q \in RunIds : q # r => Undisturbed(q)
         /\ r # 0 => /\ runs' = runs
                     /\ Cardinality(ItemsOf(items', r)) = Cardinality(ItemsOf(items, r)) + 1
<1> DEFINE R == IF r = 0 THEN Len(runs) + 1 ELSE r
           x == NewItem(R, from)
<1>1. Len(runs) \in Nat /\ Len(items) \in Nat /\ R \in Nat \ {0}
  BY TablesShape
<1>2. /\ x \in Item /\ x.run = R /\ x.status = "running" /\ x.first = "none"
      /\ x.rows = <<>> /\ x.worst = "ok" /\ x.degraded = 0
  BY <1>1, NewItemTyped
<1>3. /\ items' = Append(items, x)
      /\ runs' = IF r = 0 THEN Append(runs, NewRun(1, 0)) ELSE runs
  BY DEF InsertItem
<1>4. /\ NewRun(1, 0) \in Run /\ NewRun(1, 0).total = 1 /\ ~NewRun(1, 0).closed
      /\ Tells(NewRun(1, 0), {}, {}, {}, {}, TRUE)
  BY NewRunTyped DEF NewRun
<1> HIDE DEF x, R
<1>5. /\ runs' \in Seq(Run) /\ Len(runs') = IF r = 0 THEN Len(runs) + 1 ELSE Len(runs)
      /\ \A q \in RunIds : runs'[q] = runs[q]
      /\ RunIds' = RunIds \cup {R} /\ runs'[R] \in Run
      /\ r = 0 => R \notin RunIds /\ runs'[R] = NewRun(1, 0)
      /\ r # 0 => R \in RunIds /\ R = r
  <2>1. CASE r = 0
    BY <1>1, <1>3, <1>4, <2>1 DEF Tables, RunIds, R
  <2>2. CASE r # 0
    BY <1>1, <1>3, <2>2 DEF Tables, RunIds, R
  <2>3. QED BY <2>1, <2>2
<1>6. /\ items' \in Seq(Item) /\ Len(items') = Len(items) + 1
      /\ items'[Len(items) + 1] = x /\ \A i \in ItemIds : items'[i] = items[i]
      /\ ItemIds' = ItemIds \cup {Len(items) + 1}
  BY <1>1, <1>2, <1>3 DEF Tables, ItemIds
<1>7. ASSUME NEW q
      PROVE  /\ R # q => ItemsOf(items', q) = ItemsOf(items, q) /\ (NoneAnew(items', q) <=> NoneAnew(items, q))
             /\ R = q => ItemsOf(items', q) = ItemsOf(items, q) \cup {Len(items) + 1}
             /\ FirstEndsOf(items', q, "completed") = FirstEndsOf(items, q, "completed")
             /\ FirstEndsOf(items', q, "failed") = FirstEndsOf(items, q, "failed")
             /\ DeadLetters(items', q) = DeadLetters(items, q)
             /\ Len(items) + 1 \notin ItemsOf(items, q)
  <2>1. /\ x.run # q => ItemsOf(items', q) = ItemsOf(items, q) /\ (NoneAnew(items', q) <=> NoneAnew(items, q))
        /\ x.run = q => ItemsOf(items', q) = ItemsOf(items, q) \cup {Len(items) + 1}
        /\ FirstEndsOf(items', q, "completed") = FirstEndsOf(items, q, "completed")
        /\ FirstEndsOf(items', q, "failed") = FirstEndsOf(items, q, "failed")
        /\ DeadLetters(items', q) = DeadLetters(items, q)
        /\ Len(items) + 1 \notin ItemsOf(items, q)
    BY <1>2, <1>3, SetsGrow DEF Tables
  <2>2. QED BY <1>2, <2>1
<1>8. ItemsStand'
  <2>1. ASSUME NEW i \in ItemIds'
        PROVE  /\ items'[i].run \in RunIds'
               /\ items'[i].first = "none" <=> items'[i].status = "running"
    <3>1. CASE i = Len(items) + 1
      BY <1>2, <1>5, <1>6, <3>1
    <3>2. CASE i \in ItemIds
      BY <1>5, <1>6, <3>2 DEF Tables, ItemsStand
    <3>3. QED BY <1>6, <3>1, <3>2
  <2>2. QED BY <2>1 DEF ItemsStand
<1>9. AggregatesMatchRows'
  <2>1. Aggregated(x)
    <3>1. Cardinality({}) = 0
      BY FS_EmptySet
    <3>2. QED BY <1>2, <3>1, NoRows DEF Aggregated
  <2>2. \A i \in ItemIds : Aggregated(items[i])
    BY AggregatesOfItems DEF Tables
  <2>3. \A i \in ItemIds' : Aggregated(items'[i])
    BY <1>6, <2>1, <2>2
  <2>4. QED BY <2>3, AggregatesThen
<1>10. /\ Tells(runs'[R], ItemsOf(items, R) \cup {Len(items) + 1},
                FirstEndsOf(items, R, "completed"), FirstEndsOf(items, R, "failed"),
                DeadLetters(items, R), NoneAnew(items', R))
       /\ Cardinality(ItemsOf(items, R) \cup {Len(items) + 1}) = Cardinality(ItemsOf(items, R)) + 1
  <2>1. CASE r = 0
    <3>1. ItemsOf(items, R) = {}
      <4>1. \A i \in DOMAIN items : items[i].run # R
        BY <1>5, <2>1, TablesShape DEF Tables, ItemsStand, ItemIds
      <4>2. QED BY <4>1 DEF ItemsOf
    <3>2. /\ FirstEndsOf(items, R, "completed") = {} /\ FirstEndsOf(items, R, "failed") = {}
          /\ DeadLetters(items, R) = {}
      BY <3>1 DEF FirstEndsOf, DeadLetters
    <3>3. IsFiniteSet({}) /\ Cardinality({}) = 0
      BY FS_EmptySet
    <3>4. Cardinality({Len(items) + 1}) = 1
      BY FS_Singleton
    <3>5. ItemsOf(items, R) \cup {Len(items) + 1} = {Len(items) + 1}
      BY <3>1
    <3>6. runs'[R] = NewRun(1, 0)
      BY <1>5, <2>1
    <3>7. Tells(runs'[R], {Len(items) + 1}, {}, {}, {}, NoneAnew(items', R))
      BY <1>4, <3>3, <3>4, <3>6 DEF Tells
    <3>8. Cardinality(ItemsOf(items, R) \cup {Len(items) + 1}) = Cardinality(ItemsOf(items, R)) + 1
      BY <3>1, <3>3, <3>4, <3>5
    <3>9. QED BY <3>2, <3>5, <3>7, <3>8
  <2>2. CASE r # 0
    <3>1. /\ runs'[R] = runs[R] /\ runs[R] \in Run /\ R \in RunIds
          /\ runs[R].total = 0 => ~runs[R].closed
          /\ runs[R].total > 0 => Cardinality(ItemsOf(items, R)) + 1 <= runs[R].total
      BY <1>5, <2>2, TablesShape
    <3>2. Book(runs[R], items, R)
      BY <3>1 DEF Tables, Books
    <3> DEFINE I == ItemsOf(items, R)
               C == FirstEndsOf(items, R, "completed")
               F == FirstEndsOf(items, R, "failed")
               L == DeadLetters(items, R)
    <3>3. /\ IsFiniteSet(I) /\ C \in SUBSET I /\ F \in SUBSET I /\ C \cap F = {}
          /\ Len(items) + 1 \notin I
      BY <1>7, ItemSets DEF Tables
    <3>4. Tells(runs[R], I, C, F, L, NoneAnew(items, R))
      BY <3>2 DEF Book
    <3> HIDE DEF I, C, F, L
    <3>5. /\ Tells(runs[R], I \cup {Len(items) + 1}, C, F, L, NoneAnew(items', R))
          /\ Cardinality(I \cup {Len(items) + 1}) = Cardinality(I) + 1
      BY <3>1, <3>3, <3>4, TellsOfJoined DEF I
    <3>6. QED BY <3>1, <3>5 DEF I, C, F, L
  <2>3. QED BY <2>1, <2>2
<1>11. Books'
  <2>1. ASSUME NEW q \in RunIds' PROVE Book(runs'[q], items', q)
    <3>1. CASE q = R
      BY <1>7, <1>10, <3>1 DEF Book
    <3>2. CASE q # R
      <4>1. q \in RunIds /\ runs'[q] = runs[q] /\ Book(runs[q], items, q)
        BY <1>5, <2>1, <3>2 DEF Tables, Books
      <4>2. QED BY <1>7, <3>2, <4>1 DEF Book, Tells
    <3>3. QED BY <3>1, <3>2
  <2>2. QED BY <2>1 DEF Books, Book
<1>12. ASSUME NEW q \in RunIds, q # r PROVE Undisturbed(q)
  BY <1>5, <1>7, <1>12 DEF Undisturbed
<1>13. QED BY <1>3, <1>5, <1>6, <1>7, <1>8, <1>9, <1>10, <1>11, <1>12 DEF Tables

LEMMA RowRecorded ==
  ASSUME Tables, NEW i \in ItemIds, NEW token \in {"step", "mark"} \X Nat,
         NEW outcome \in Outcomes, items' = Recorded(items, i, token, outcome), runs' = runs
  PROVE  Tables' /\ Len(items') = Len(items) /\ \A r \in RunIds : Undisturbed(r)
<1>1. i \in DOMAIN items /\ items \in Seq(Item) /\ ItemIds = DOMAIN items
  BY TablesShape DEF Tables, ItemIds
<1>2. \A j \in DOMAIN items : Aggregated(items[j])
  BY <1>1, AggregatesOfItems DEF Tables
<1>3. /\ items' \in Seq(Item) /\ Len(items') = Len(items) /\ DOMAIN items' = DOMAIN items
      /\ \A j \in DOMAIN items :
           /\ Aggregated(items'[j])
           /\ items'[j].run = items[j].run /\ items'[j].first = items[j].first
           /\ items'[j].anew = items[j].anew /\ items'[j].status = items[j].status
           /\ items'[j].disposition = items[j].disposition
  BY <1>1, <1>2, RecordedKeeps
<1>4. ItemIds' = ItemIds /\ RunIds' = RunIds
  BY <1>3 DEF ItemIds, RunIds
<1>5. AggregatesMatchRows'
  BY <1>1, <1>3, <1>4, AggregatesThen
<1>6. ItemsStand'
  BY <1>1, <1>3, <1>4 DEF Tables, ItemsStand
<1>7. ASSUME NEW r \in RunIds PROVE Book(runs'[r], items', r) /\ Undisturbed(r)
  <2>1. Book(runs[r], items, r)
    BY DEF Tables, Books
  <2>2. \A j \in ItemsOf(items, r) : j \in DOMAIN items
    BY DEF ItemsOf
  <2>3. /\ ItemsOf(items', r) = ItemsOf(items, r)
        /\ NoneAnew(items', r) <=> NoneAnew(items, r)
        /\ FirstEndsOf(items', r, "completed") = FirstEndsOf(items, r, "completed")
        /\ FirstEndsOf(items', r, "failed") = FirstEndsOf(items, r, "failed")
        /\ DeadLetters(items', r) = DeadLetters(items, r)
    BY <1>3, <2>2, SetsKept
  <2>4. QED BY <2>1, <2>3 DEF Book, Tells, Undisturbed
<1>8. Books'
  BY <1>4, <1>7 DEF Books, Book
<1>9. QED BY <1>3, <1>5, <1>6, <1>7, <1>8 DEF Tables

\* The open run is sealed.
LEMMA RunSealed ==
  ASSUME Tables, NEW r \in RunIds, runs[r].total = 0, ~runs[r].closed, items' = items,
         runs' = [runs EXCEPT ![r] = Promoted(Sealed(runs[r], Cardinality(ItemsOf(items, r))),
                                              DeadLetters(items, r))]
  PROVE  /\ Tables' /\ Len(items') = Len(items) /\ Len(runs') = Len(runs)
         /\ \A q \in RunIds : q # r => Undisturbed(q)
<1> DEFINE new == Promoted(Sealed(runs[r], Cardinality(ItemsOf(items, r))), DeadLetters(items, r))
           I == ItemsOf(items, r)
           C == FirstEndsOf(items, r, "completed")
           F == FirstEndsOf(items, r, "failed")
           L == DeadLetters(items, r)
<1>1. runs[r] \in Run /\ Tells(runs[r], I, C, F, L, NoneAnew(items, r))
  BY TablesShape DEF Tables, Books, Book
<1>2. /\ IsFiniteSet(I) /\ C \in SUBSET I /\ F \in SUBSET I /\ C \cap F = {} /\ L \in SUBSET I
  BY ItemSets DEF Tables
<1>3. new = Promoted(Sealed(runs[r], Cardinality(I)), L)
  OBVIOUS
<1> HIDE DEF I, C, F, L, new
<1>4. Tells(new, I, C, F, L, NoneAnew(items, r)) /\ new \in Run
  BY <1>1, <1>2, <1>3, TellsOfSealed
<1>5. /\ runs' \in Seq(Run) /\ Len(runs') = Len(runs) /\ runs'[r] = new
      /\ \A q \in RunIds : q # r => runs'[q] = runs[q]
      /\ RunIds' = RunIds
  <2>1. runs' = [runs EXCEPT ![r] = new]
    BY DEF new
  <2>2. QED BY <1>4, <2>1 DEF Tables, RunIds
<1>6. ASSUME NEW q \in RunIds PROVE Book(runs'[q], items', q)
  <2>1. CASE q = r
    BY <1>4, <1>5, <2>1 DEF Book, I, C, F, L
  <2>2. CASE q # r
    BY <1>5, <2>2 DEF Tables, Books
  <2>3. QED BY <2>1, <2>2
<1>7. Books'
  BY <1>5, <1>6 DEF Books, Book
<1>8. ItemsStand' /\ ItemIds' = ItemIds
  BY <1>5 DEF Tables, ItemsStand, ItemIds
<1>9. AggregatesMatchRows'
  <2>1. \A i \in ItemIds' : Aggregated(items'[i])
    BY <1>8, AggregatesOfItems DEF Tables
  <2>2. QED BY <2>1, AggregatesThen
<1>10. \A q \in RunIds : q # r => Undisturbed(q)
  BY <1>5 DEF Undisturbed
<1>11. QED BY <1>5, <1>7, <1>8, <1>9, <1>10 DEF Tables

\* A dead letter is resolved, or was already.
LEMMA LetterResolved ==
  ASSUME Tables, NEW i \in ItemIds, NEW how \in {"replayed", "triaged"}, Resolve(i, how)
  PROVE  /\ Tables' /\ Len(items') = Len(items) /\ Len(runs') = Len(runs)
         /\ \A q \in RunIds : Undisturbed(q)
<1> DEFINE R == items[i].run
<1>1. /\ items \in Seq(Item) /\ items[i] \in Item /\ i \in DOMAIN items /\ ItemIds = DOMAIN items
      /\ R \in RunIds /\ runs[R] \in Run
  BY TablesShape DEF Tables, ItemsStand, ItemIds
<1>2. /\ items' \in Seq(Item) /\ Len(items') = Len(items) /\ DOMAIN items' = DOMAIN items
      /\ \A j \in DOMAIN items :
           /\ items'[j].run = items[j].run /\ items'[j].first = items[j].first
           /\ items'[j].anew = items[j].anew /\ items'[j].status = items[j].status
           /\ items'[j].rows = items[j].rows /\ items'[j].worst = items[j].worst
           /\ items'[j].degraded = items[j].degraded
           /\ items'[j].disposition = "none" => items[j].disposition = "none"
           /\ items'[j].disposition # items[j].disposition => j = i
  <2>1. CASE items' = items
    BY <1>1, <2>1
  <2>2. CASE items' = [items EXCEPT ![i].disposition = how]
    <3> DEFINE x == [items[i] EXCEPT !.disposition = how]
    <3>1. /\ x \in Item /\ x.run = items[i].run /\ x.first = items[i].first
          /\ x.anew = items[i].anew /\ x.status = items[i].status /\ x.rows = items[i].rows
          /\ x.worst = items[i].worst /\ x.degraded = items[i].degraded /\ x.disposition = how
      BY <1>1 DEF Item
    <3>2. items' = [items EXCEPT ![i] = x]
      BY <2>2
    <3> HIDE DEF x
    <3>3. /\ items' \in Seq(Item) /\ Len(items') = Len(items) /\ DOMAIN items' = DOMAIN items
          /\ \A j \in DOMAIN items : items'[j] = IF j = i THEN x ELSE items[j]
      BY <1>1, <3>1, <3>2
    <3>4. QED BY <3>1, <3>3
  <2>3. QED BY <2>1, <2>2 DEF Resolve, Disposed
<1>3. runs' = [runs EXCEPT ![R] = Promoted(runs[R], DeadLetters(items', R))]
  BY DEF Resolve
<1> HIDE DEF R
<1>4. ASSUME NEW q \in RunIds
      PROVE  /\ ItemsOf(items', q) = ItemsOf(items, q)
             /\ NoneAnew(items', q) <=> NoneAnew(items, q)
             /\ FirstEndsOf(items', q, "completed") = FirstEndsOf(items, q, "completed")
             /\ FirstEndsOf(items', q, "failed") = FirstEndsOf(items, q, "failed")
             /\ DeadLetters(items', q) \in SUBSET DeadLetters(items, q)
             /\ q # R => DeadLetters(items', q) = DeadLetters(items, q)
  <2>1. \A j \in ItemsOf(items, q) : j \in DOMAIN items /\ (q # R => j # i)
    BY DEF ItemsOf, R
  <2>2. /\ ItemsOf(items', q) = ItemsOf(items, q)
        /\ NoneAnew(items', q) <=> NoneAnew(items, q)
        /\ FirstEndsOf(items', q, "completed") = FirstEndsOf(items, q, "completed")
        /\ FirstEndsOf(items', q, "failed") = FirstEndsOf(items, q, "failed")
    BY <1>2, <2>1, SetsKept
  <2>3. QED BY <1>2, <2>1, <2>2 DEF DeadLetters
<1>5. /\ Tells(Promoted(runs[R], DeadLetters(items', R)), ItemsOf(items, R),
               FirstEndsOf(items, R, "completed"), FirstEndsOf(items, R, "failed"),
               DeadLetters(items', R), NoneAnew(items, R))
      /\ Promoted(runs[R], DeadLetters(items', R)) \in Run
      /\ Promoted(runs[R], DeadLetters(items', R)).total = runs[R].total
      /\ Promoted(runs[R], DeadLetters(items', R)).closed = runs[R].closed
  <2>1. Book(runs[R], items, R)
    BY <1>1 DEF Tables, Books
  <2> DEFINE I == ItemsOf(items, R)
             C == FirstEndsOf(items, R, "completed")
             F == FirstEndsOf(items, R, "failed")
             L == DeadLetters(items, R)
             K == DeadLetters(items', R)
  <2>2. Tells(runs[R], I, C, F, L, NoneAnew(items, R)) /\ K \in SUBSET L
    BY <1>1, <1>4, <2>1 DEF Book
  <2> HIDE DEF I, C, F, L, K
  <2>3. /\ Tells(Promoted(runs[R], K), I, C, F, K, NoneAnew(items, R))
        /\ Promoted(runs[R], K) \in Run
        /\ Promoted(runs[R], K).total = runs[R].total
        /\ Promoted(runs[R], K).closed = runs[R].closed
    BY <1>1, <2>2, TellsOfResolved
  <2>4. QED BY <2>3 DEF I, C, F, K
<1>6. /\ runs' \in Seq(Run) /\ Len(runs') = Len(runs) /\ RunIds' = RunIds
      /\ runs'[R] = Promoted(runs[R], DeadLetters(items', R))
      /\ \A q \in RunIds : q # R => runs'[q] = runs[q]
  BY <1>1, <1>3, <1>5 DEF Tables, RunIds
<1>7. ASSUME NEW q \in RunIds PROVE Book(runs'[q], items', q) /\ Undisturbed(q)
  <2>1. CASE q = R
    BY <1>4, <1>5, <1>6, <2>1 DEF Book, Tells, Undisturbed
  <2>2. CASE q # R
    <3>1. Book(runs[q], items, q) /\ runs'[q] = runs[q]
      BY <1>6, <2>2 DEF Tables, Books
    <3>2. QED BY <1>4, <2>2, <3>1 DEF Book, Tells, Undisturbed
  <2>3. QED BY <2>1, <2>2
<1>8. Books'
  BY <1>6, <1>7 DEF Books, Book
<1>9. ItemIds' = ItemIds /\ ItemsStand'
  BY <1>1, <1>2, <1>6 DEF Tables, ItemsStand, ItemIds
<1>10. AggregatesMatchRows'
  <2>1. \A j \in ItemIds : Aggregated(items[j])
    BY AggregatesOfItems DEF Tables
  <2>2. \A j \in ItemIds' : Aggregated(items'[j])
    BY <1>1, <1>2, <1>9, <2>1 DEF Aggregated
  <2>3. QED BY <2>2, AggregatesThen
<1>11. QED BY <1>2, <1>6, <1>7, <1>8, <1>9, <1>10 DEF Tables

\* An item ends, for the first time or anew.
EndsWith(i, s) ==
  /\ items' = [items EXCEPT ![i].status = s,
                            ![i].first = IF @ = "none" THEN s ELSE @,
                            ![i].anew = @ \/ items[i].status \in Ends]
  /\ runs' = Ended(runs, items', i, items[i].status, s)

LEMMA ItemEnded ==
  ASSUME Tables, NEW i \in ItemIds, NEW s \in Ends,
         EndsWith(i, s)
  PROVE  /\ Tables' /\ Len(items') = Len(items) /\ Len(runs') = Len(runs)
         /\ \A q \in RunIds : Undisturbed(q)
<1> DEFINE R == items[i].run
           first == IF items[i].first = "none" THEN s ELSE items[i].first
           anew == items[i].anew \/ items[i].status \in Ends
           x == [items[i] EXCEPT !.status = s, !.first = first, !.anew = anew]
<1>1. /\ items \in Seq(Item) /\ items[i] \in Item /\ i \in DOMAIN items /\ ItemIds = DOMAIN items
      /\ R \in RunIds /\ runs[R] \in Run
      /\ items[i].first = "none" <=> items[i].status = "running"
      /\ items[i].first \in Ends \cup {"none"} /\ items[i].status \in Ends \cup {"running"}
      /\ items[i].anew \in BOOLEAN /\ R = items[i].run
  BY TablesShape DEF Tables, ItemsStand, ItemIds, Item
<1>2. first \in Ends /\ anew \in BOOLEAN
  BY <1>1 DEF Ends
<1>3. items' = [items EXCEPT ![i] = x]
  BY <1>1 DEF Item, EndsWith
<1> HIDE DEF first, anew, R
<1>4. /\ x \in Item /\ x.run = items[i].run /\ x.first = first /\ x.anew = anew
      /\ x.status = s /\ x.rows = items[i].rows /\ x.worst = items[i].worst
      /\ x.degraded = items[i].degraded /\ x.disposition = items[i].disposition
  BY <1>1, <1>2 DEF Item, Ends
<1> HIDE DEF x
<1>5. /\ items' \in Seq(Item) /\ Len(items') = Len(items) /\ DOMAIN items' = DOMAIN items
      /\ ItemIds' = ItemIds
      /\ \A j \in DOMAIN items : items'[j] = IF j = i THEN x ELSE items[j]
  BY <1>1, <1>3, <1>4 DEF ItemIds
<1>6. \A q : ItemsOf(items', q) = ItemsOf(items, q)
  BY <1>1, <1>4, <1>5 DEF ItemsOf
<1>7. ASSUME NEW q \in RunIds, q # R
      PROVE  \A run : Book(run, items, q) => Book(run, items', q)
  <2>1. \A j \in ItemsOf(items, q) : j \in DOMAIN items /\ j # i
    BY <1>1, <1>7 DEF ItemsOf
  <2>2. /\ NoneAnew(items', q) <=> NoneAnew(items, q)
        /\ FirstEndsOf(items', q, "completed") = FirstEndsOf(items, q, "completed")
        /\ FirstEndsOf(items', q, "failed") = FirstEndsOf(items, q, "failed")
        /\ DeadLetters(items', q) = DeadLetters(items, q)
    BY <1>4, <1>5, <2>1, SetsKept
  <2>3. QED BY <1>6, <2>2 DEF Book, Tells
<1> DEFINE I == ItemsOf(items, R)
           C == FirstEndsOf(items, R, "completed")
           F == FirstEndsOf(items, R, "failed")
           L == DeadLetters(items, R)
           D == FirstEndsOf(items', R, "completed")
           G == FirstEndsOf(items', R, "failed")
           K == DeadLetters(items', R)
<1>8. /\ IsFiniteSet(I) /\ C \in SUBSET I /\ F \in SUBSET I /\ C \cap F = {}
      /\ D \in SUBSET I /\ G \in SUBSET I /\ D \cap G = {}
  <2>1. IsFiniteSet(I) /\ C \in SUBSET I /\ F \in SUBSET I /\ C \cap F = {}
    BY <1>1, ItemSets
  <2>2. D \in SUBSET I /\ G \in SUBSET I /\ D \cap G = {}
    BY <1>6 DEF FirstEndsOf
  <2>3. QED BY <2>1, <2>2
<1>9. i \in I /\ items'[i] = x
  BY <1>1, <1>5 DEF ItemsOf
<1>10. Tells(runs[R], I, C, F, L, NoneAnew(items, R))
  BY <1>1 DEF Tables, Books, Book
<1>11. \A j \in I : j \in DOMAIN items
  BY DEF ItemsOf
<1>12. CASE items[i].status \in Ends
  <2>1. runs' = runs
    BY <1>12 DEF Ended, EndsWith
  <2>2. first = items[i].first /\ anew
    BY <1>1, <1>12 DEF first, anew, Ends
  <2>3. \A j \in DOMAIN items : items'[j].first = items[j].first
    BY <1>4, <1>5, <2>2
  <2>4. D = C /\ G = F
    BY <1>6, <1>11, <2>3 DEF FirstEndsOf
  <2>5. ~NoneAnew(items', R)
    <3>1. x.anew
      BY <1>4, <2>2
    <3>2. QED BY <1>6, <1>9, <3>1 DEF NoneAnew
  <2>6. Book(runs[R], items', R)
    BY <1>6, <1>10, <2>4, <2>5 DEF Book, Tells
  <2>7. ASSUME NEW q \in RunIds PROVE Book(runs'[q], items', q) /\ Undisturbed(q)
    <3>1. Book(runs[q], items, q)
      BY DEF Tables, Books
    <3>2. QED BY <1>6, <1>7, <2>1, <2>6, <3>1 DEF Undisturbed
  <2>8. RunIds' = RunIds /\ runs' \in Seq(Run)
    BY <2>1 DEF RunIds, Tables
  <2>9. Books'
    BY <2>7, <2>8 DEF Books, Book
  <2>10. ItemsStand'
    BY <1>1, <1>2, <1>4, <1>5, <2>8 DEF Tables, ItemsStand, Ends
  <2>11. AggregatesMatchRows'
    <3>1. \A j \in ItemIds : Aggregated(items[j])
      BY AggregatesOfItems DEF Tables
    <3>2. \A j \in ItemIds' : Aggregated(items'[j])
      BY <1>1, <1>4, <1>5, <3>1 DEF Aggregated
    <3>3. QED BY <3>2, AggregatesThen
  <2>12. QED BY <1>5, <2>1, <2>7, <2>8, <2>9, <2>10, <2>11 DEF Tables
<1>13. CASE items[i].status = "running"
  <2> DEFINE counted == IF s = "completed" THEN [runs[R] EXCEPT !.completed = @ + 1]
                                           ELSE [runs[R] EXCEPT !.failed = @ + 1]
             new == Promoted(RolledUp(counted), K)
  <2>1. runs' = [runs EXCEPT ![R] = new]
    <3>1. items'[i].run = R
      BY <1>1, <1>4, <1>5
    <3>2. "running" \notin Ends
      BY DEF Ends
    <3>3. items[i].status \notin Ends
      BY <1>13, <3>2
    <3>4. Ended(runs, items', i, items[i].status, s)
            = [runs EXCEPT ![items'[i].run] = Promoted(RolledUp(
                 IF s = "completed" THEN [runs[items'[i].run] EXCEPT !.completed = @ + 1]
                                    ELSE [runs[items'[i].run] EXCEPT !.failed = @ + 1]),
                 DeadLetters(items', items'[i].run))]
      BY <3>3 DEF Ended
    <3>5. QED BY <3>1, <3>4 DEF EndsWith
  <2>2. first = s /\ items[i].first = "none" /\ (anew <=> items[i].anew)
    BY <1>1, <1>13 DEF first, anew, Ends
  <2>3. i \notin C /\ i \notin F
    BY <2>2 DEF FirstEndsOf
  <2>4. /\ s = "completed" => D = C \cup {i} /\ G = F
        /\ s = "failed" => D = C /\ G = F \cup {i}
    <3>1. x.first = s /\ items[i].first = "none"
      BY <1>4, <2>2
    <3>2. \A j \in I : j # i => items'[j].first = items[j].first
      BY <1>5, <1>11
    <3>3. /\ s = "completed" => D = C \cup {i}
          /\ s = "failed" => D = C
      BY <1>6, <1>9, <3>1, <3>2 DEF FirstEndsOf
    <3>4. /\ s = "completed" => G = F
          /\ s = "failed" => G = F \cup {i}
      BY <1>6, <1>9, <3>1, <3>2 DEF FirstEndsOf
    <3>5. QED BY <3>3, <3>4
  <2>5. NoneAnew(items', R) <=> NoneAnew(items, R)
    BY <1>4, <1>5, <1>6, <1>11, <2>2 DEF NoneAnew
  <2> HIDE DEF I, C, F, L, D, G, K
  <2>6. /\ IsFiniteSet(C) /\ IsFiniteSet(F) /\ Cardinality(C) \in Nat /\ Cardinality(F) \in Nat
        /\ Cardinality(I) \in Nat
    BY <1>8, FS_Subset, FS_CardinalityType
  <2>7. /\ s = "completed" => Cardinality(D) = Cardinality(C) + 1 /\ Cardinality(G) = Cardinality(F)
        /\ s = "failed" => Cardinality(D) = Cardinality(C) /\ Cardinality(G) = Cardinality(F) + 1
    BY <2>3, <2>4, <2>6, FS_AddElement
  <2>8. Cardinality(D) + Cardinality(G) <= Cardinality(I)
    BY <1>8, Sizes
  <2>9. s = "completed" \/ s = "failed"
    BY DEF Ends
  <2>10. Cardinality(C) + Cardinality(F) < Cardinality(I)
    BY <2>6, <2>7, <2>8, <2>9
  <2>11. runs[R].total \in Nat /\ runs[R].completed \in Nat /\ runs[R].failed \in Nat
    BY <1>1 DEF Run
  <2>12. ~runs[R].closed /\ runs[R].status = "running"
    <3>1. CASE runs[R].total = 0
      BY <1>9, <1>10, <3>1 DEF Tells
    <3>2. CASE runs[R].total > 0
      BY <1>10, <2>6, <2>10, <2>11, <3>2 DEF Tells
    <3>3. QED BY <2>11, <3>1, <3>2
  <2>21. /\ s = "completed" => counted = [runs[R] EXCEPT !.completed = runs[R].completed + 1]
         /\ s = "failed" => counted = [runs[R] EXCEPT !.failed = runs[R].failed + 1]
    OBVIOUS
  <2>22. new = Promoted(RolledUp(counted), K) /\ runs' = [runs EXCEPT ![R] = new]
    BY <2>1
  <2> HIDE DEF counted, new
  <2>13. /\ counted \in Run /\ ~counted.closed /\ counted.status = "running"
         /\ counted.completed = Cardinality(D) /\ counted.failed = Cardinality(G)
         /\ counted.total = runs[R].total
         /\ counted.total > 0 => Cardinality(I) <= counted.total
    <3>1. runs[R].completed = Cardinality(C) /\ runs[R].failed = Cardinality(F)
          /\ (runs[R].total > 0 => Cardinality(I) <= runs[R].total)
      BY <1>10 DEF Tells
    <3>2. CASE s = "completed"
      <4>1. counted = [runs[R] EXCEPT !.completed = runs[R].completed + 1]
        BY <2>21, <3>2
      <4>2. /\ counted \in Run /\ counted.closed = runs[R].closed
            /\ counted.status = runs[R].status /\ counted.total = runs[R].total
            /\ counted.completed = runs[R].completed + 1 /\ counted.failed = runs[R].failed
        <5>1. runs[R] \in Run
          BY <1>1
        <5>2. QED BY <2>11, <4>1, <5>1 DEF Run
      <4>3. QED BY <2>6, <2>7, <2>12, <3>1, <3>2, <4>2
    <3>3. CASE s = "failed"
      <4>1. counted = [runs[R] EXCEPT !.failed = runs[R].failed + 1]
        BY <2>21, <3>3
      <4>2. /\ counted \in Run /\ counted.closed = runs[R].closed
            /\ counted.status = runs[R].status /\ counted.total = runs[R].total
            /\ counted.failed = runs[R].failed + 1 /\ counted.completed = runs[R].completed
        <5>1. runs[R] \in Run
          BY <1>1
        <5>2. QED BY <2>11, <4>1, <5>1 DEF Run
      <4>3. QED BY <2>6, <2>7, <2>12, <3>1, <3>3, <4>2
    <3>4. QED BY <2>9, <3>2, <3>3
  <2>14. /\ Tells(new, I, D, G, K, NoneAnew(items', R)) /\ new \in Run
         /\ new.total = runs[R].total /\ (runs[R].total = 0 => ~new.closed)
    <3>1. /\ Tells(new, I, D, G, K, NoneAnew(items', R)) /\ new \in Run
          /\ new.total = counted.total /\ (counted.total = 0 => ~new.closed)
      BY <1>8, <2>13, <2>22, TellsOfRolledUp
    <3>2. QED BY <2>13, <3>1
  <2>15. /\ runs' \in Seq(Run) /\ Len(runs') = Len(runs) /\ RunIds' = RunIds
         /\ runs'[R] = new /\ \A q \in RunIds : q # R => runs'[q] = runs[q]
    <3>1. runs \in Seq(Run) /\ R \in 1..Len(runs) /\ new \in Run
      BY <1>1, <2>14 DEF Tables, RunIds
    <3>2. QED BY <2>22, <3>1 DEF RunIds
  <2>16. ASSUME NEW q \in RunIds PROVE Book(runs'[q], items', q) /\ Undisturbed(q)
    <3>1. CASE q = R
      <4>1. Book(runs'[R], items', R)
        BY <1>6, <2>14, <2>15 DEF Book, I, D, G, K
      <4>2. Undisturbed(R)
        BY <1>6, <2>14, <2>15 DEF Undisturbed
      <4>3. QED BY <3>1, <4>1, <4>2
    <3>2. CASE q # R
      <4>1. Book(runs[q], items, q) /\ runs'[q] = runs[q]
        BY <2>15, <3>2 DEF Tables, Books
      <4>2. QED BY <1>6, <1>7, <3>2, <4>1 DEF Undisturbed
    <3>3. QED BY <3>1, <3>2
  <2>17. Books'
    BY <2>15, <2>16 DEF Books, Book
  <2>18. ItemsStand'
    BY <1>1, <1>2, <1>4, <1>5, <2>15 DEF Tables, ItemsStand, Ends
  <2>19. AggregatesMatchRows'
    <3>1. \A j \in ItemIds : Aggregated(items[j])
      BY AggregatesOfItems DEF Tables
    <3>2. \A j \in ItemIds' : Aggregated(items'[j])
      BY <1>1, <1>4, <1>5, <3>1 DEF Aggregated
    <3>3. QED BY <3>2, AggregatesThen
  <2>20. QED BY <1>5, <2>15, <2>16, <2>17, <2>18, <2>19 DEF Tables
<1>14. QED BY <1>1, <1>12, <1>13

--------------------------------------------------------------------------------
(* What the steps do to the drivers.                                          *)

\* The tables after a step, which only ever adds rows.
Grows ==
  /\ Tables' /\ Len(items) <= Len(items') /\ Len(runs) <= Len(runs')
  /\ halted' \subseteq Procs /\ faults' \in 0..MaxFaults

\* Process p goes on as e: with a run it had, or with the one it minted.
Moves(p, e) ==
  /\ e \in Driver /\ proc' = [proc EXCEPT ![p] = e]
  /\ Valid(e, Len(items'), Len(runs'))
  /\ \A r : Owns(e, r) => Owns(proc[p], r) \/ r \notin RunIds
  /\ \A r \in RunIds' : Owns(e, r) => Open(e, runs'[r], Cardinality(ItemsOf(items', r)))

LEMMA TablesOfIInv == IInv => Tables
BY DEF IInv, LedgerTypeOK, Tables

LEMMA Lengths ==
  ASSUME Tables, Tables'
  PROVE  /\ Len(items) \in Nat /\ Len(items') \in Nat /\ ItemIds = 1..Len(items)
         /\ Len(runs) \in Nat /\ Len(runs') \in Nat /\ RunIds = 1..Len(runs)
         /\ ItemIds' = 1..Len(items') /\ RunIds' = 1..Len(runs')
BY DEF Tables, ItemIds, RunIds

\* A driver that was valid stays so when rows are added.
LEMMA ValidStays ==
  ASSUME NEW d, NEW len \in Nat, NEW size \in Nat, NEW len2 \in Nat, NEW size2 \in Nat,
         len <= len2, size <= size2, Valid(d, len, size)
  PROVE  Valid(d, len2, size2)
BY DEF Valid

LEMMA StepKeepsIInv ==
  ASSUME IInv, Grows, NEW p \in Procs, NEW e, Moves(p, e),
         \A r \in RunIds : Owns(proc[p], r) \/ Undisturbed(r)
  PROVE  IInv'
<1>1. /\ Len(items) \in Nat /\ Len(items') \in Nat /\ Len(items) <= Len(items')
      /\ Len(runs) \in Nat /\ Len(runs') \in Nat /\ Len(runs) <= Len(runs')
      /\ RunIds = 1..Len(runs) /\ RunIds' = 1..Len(runs')
  BY TablesOfIInv, Lengths DEF Grows
<1>2. proc \in [Procs -> Driver] /\ e \in Driver
  BY DEF IInv, LedgerTypeOK, Moves
<1>3. proc' \in [Procs -> Driver] /\ \A q \in Procs : proc'[q] = IF q = p THEN e ELSE proc[q]
  BY <1>2 DEF Moves
<1>4. LedgerTypeOK' /\ Tables'
  BY <1>3 DEF Grows, Tables, LedgerTypeOK
<1>5. DriversValid'
  <2>1. ASSUME NEW q \in Procs PROVE Valid(proc'[q], Len(items'), Len(runs'))
    <3>1. CASE q = p
      BY <1>3, <3>1 DEF Moves
    <3>2. CASE q # p
      <4>1. Valid(proc[q], Len(items), Len(runs))
        BY DEF IInv, DriversValid
      <4>2. Valid(proc[q], Len(items'), Len(runs'))
        BY <1>1, <4>1, ValidStays
      <4>3. QED BY <1>3, <3>2, <4>2
    <3>3. QED BY <3>1, <3>2
  <2>2. QED BY <2>1 DEF DriversValid
<1>6. ASSUME NEW q \in Procs, NEW r, Owns(proc[q], r) PROVE r \in RunIds
  <2>1. Valid(proc[q], Len(items), Len(runs))
    BY DEF IInv, DriversValid
  <2>2. QED BY <1>1, <1>6, <2>1 DEF Owns, Valid
<1>7. OwnersDiffer'
  <2>1. ASSUME NEW q \in Procs, q # p, NEW r, Owns(proc[q], r), Owns(e, r) PROVE FALSE
    <3>1. r \in RunIds
      BY <1>6, <2>1
    <3>2. Owns(proc[p], r)
      BY <2>1, <3>1 DEF Moves
    <3>3. QED BY <2>1, <3>1, <3>2 DEF IInv, OwnersDiffer
  <2>2. ASSUME NEW q \in Procs, NEW o \in Procs, NEW r, Owns(proc'[q], r), Owns(proc'[o], r)
        PROVE  q = o
    <3>1. CASE q = p \/ o = p
      BY <1>3, <2>1, <2>2, <3>1
    <3>2. CASE q # p /\ o # p
      <4>1. Owns(proc[q], r) /\ Owns(proc[o], r)
        BY <1>3, <2>2, <3>2
      <4>2. r \in RunIds
        BY <1>6, <4>1
      <4>3. QED BY <4>1, <4>2 DEF IInv, OwnersDiffer
    <3>3. QED BY <3>1, <3>2
  <2>3. QED BY <2>2 DEF OwnersDiffer
<1>8. OpenRuns'
  <2>1. ASSUME NEW q \in Procs, NEW r \in RunIds', Owns(proc'[q], r)
        PROVE  Open(proc'[q], runs'[r], Cardinality(ItemsOf(items', r)))
    <3>1. CASE q = p
      BY <1>3, <2>1, <3>1 DEF Moves
    <3>2. CASE q # p
      <4>1. proc'[q] = proc[q] /\ Owns(proc[q], r) /\ r \in RunIds
        BY <1>3, <1>6, <2>1, <3>2
      <4>2. ~Owns(proc[p], r)
        BY <3>2, <4>1 DEF IInv, OwnersDiffer
      <4>3. Undisturbed(r)
        BY <4>1, <4>2
      <4>4. Open(proc[q], runs[r], Cardinality(ItemsOf(items, r)))
        BY <4>1 DEF IInv, OpenRuns
      <4>5. QED BY <4>1, <4>3, <4>4 DEF Open, Undisturbed
    <3>3. QED BY <3>1, <3>2
  <2>2. QED BY <2>1 DEF OpenRuns
<1>9. QED BY <1>4, <1>5, <1>7, <1>8 DEF IInv, Tables

\* Most steps open no run and add no item: the driver goes on with its run, or with none.
LEMMA GoesOn ==
  ASSUME IInv, Grows, NEW p \in Procs, NEW e \in Driver, proc' = [proc EXCEPT ![p] = e],
         Valid(e, Len(items'), Len(runs')), \A r \in RunIds : Undisturbed(r),
         \/ e.run = 0
         \/ /\ e.run = proc[p].run /\ e.by = proc[p].by /\ Len(e.left) <= Len(proc[p].left)
            /\ Owns(e, e.run) => Owns(proc[p], e.run)
  PROVE  IInv'
<1>1. /\ Len(items) \in Nat /\ Len(items') \in Nat /\ Len(items) <= Len(items')
      /\ Len(runs) \in Nat /\ Len(runs') \in Nat /\ Len(runs) <= Len(runs')
      /\ RunIds = 1..Len(runs) /\ RunIds' = 1..Len(runs')
  BY TablesOfIInv, Lengths DEF Grows
<1>2. proc[p] \in Driver /\ Valid(proc[p], Len(items), Len(runs))
  BY DEF IInv, LedgerTypeOK, DriversValid
<1>3. ASSUME NEW r, Owns(e, r)
      PROVE  /\ r = e.run /\ e.by = proc[p].by /\ Len(e.left) <= Len(proc[p].left)
             /\ Owns(proc[p], r) /\ r \in RunIds
  <2>1. r = e.run /\ r # 0
    BY <1>3 DEF Owns
  <2>2. r \in 0..Len(runs)
    BY <1>2, <2>1 DEF Valid
  <2>3. QED BY <1>1, <1>3, <2>1, <2>2
<1>4. ASSUME NEW r \in RunIds', Owns(e, r)
      PROVE  Open(e, runs'[r], Cardinality(ItemsOf(items', r)))
  <2>1. Open(proc[p], runs[r], Cardinality(ItemsOf(items, r))) /\ Undisturbed(r)
    BY <1>3, <1>4 DEF IInv, OpenRuns
  <2>2. /\ e.by = proc[p].by /\ Len(e.left) <= Len(proc[p].left) /\ r \in RunIds
        /\ Len(e.left) \in Nat /\ Len(proc[p].left) \in Nat
    BY <1>2, <1>3, <1>4 DEF Driver
  <2>3. runs[r].total \in Nat /\ Cardinality(ItemsOf(items, r)) \in Nat
    BY <2>2, TablesOfIInv, TablesShape, ItemSets DEF Tables, Run
  <2>4. QED BY <2>1, <2>2, <2>3 DEF Open, Undisturbed
<1>5. Moves(p, e)
  BY <1>3, <1>4 DEF Moves
<1>6. QED BY <1>5, StepKeepsIInv

LEMMA IdleTyped ==
  /\ Idle \in Driver /\ Idle.run = 0 /\ Idle.at = "idle" /\ Idle.by = "none"
  /\ ~Idle.record.letter /\ Idle.left = <<>> /\ Idle.item = 0
BY DEF Idle, Driver, Fresh, Record, Ends

\* What a driver is, and what its fields are.
LEMMA DriverAt ==
  ASSUME IInv, Tables', NEW p \in Procs
  PROVE  /\ proc[p] \in Driver /\ Valid(proc[p], Len(items), Len(runs))
         /\ Idle \in Driver /\ Idle.run = 0 /\ Idle.at = "idle" /\ Idle.by = "none"
         /\ ~Idle.record.letter /\ Idle.left = <<>> /\ Idle.item = 0
         /\ Valid(Idle, Len(items'), Len(runs'))
<1>1. Idle \in Driver
  BY IdleTyped
<1>2. Len(runs') \in Nat
  BY TablesOfIInv, Lengths
<1>3. Idle.run \in 0..Len(runs')
  BY <1>2 DEF Idle
<1>4. QED BY <1>1, <1>3 DEF IInv, LedgerTypeOK, DriversValid, Valid, Idle, Fresh

\* Steps that write nothing into the tables.
LEMMA Silent ==
  ASSUME IInv, UNCHANGED <<runs, items>>, halted' \subseteq halted,
         UNCHANGED faults \/ Fault
  PROVE  Grows /\ \A r \in RunIds : Undisturbed(r)
<1>1. Tables' /\ \A r \in RunIds : Undisturbed(r)
  BY TablesOfIInv, NothingWritten
<1>2. Len(items) \in Nat /\ Len(runs) \in Nat
  BY TablesOfIInv, TablesShape
<1>3. halted' \subseteq Procs /\ faults' \in 0..MaxFaults
  BY DEF Fault, IInv, LedgerTypeOK
<1>4. QED BY <1>1, <1>2, <1>3 DEF Grows

LEMMA GoesIdle ==
  ASSUME IInv, Grows, NEW p \in Procs, proc' = [proc EXCEPT ![p] = Idle],
         \A r \in RunIds : Undisturbed(r)
  PROVE  IInv'
BY DriverAt, GoesOn DEF Grows

LEMMA CrashStep ==
  ASSUME IInv, NEW p \in Procs, Crash(p) PROVE IInv'
<1>1. /\ UNCHANGED <<runs, items>> /\ halted' \subseteq halted /\ Fault
      /\ proc' = [proc EXCEPT ![p] = Idle]
  BY DEF Crash
<1>2. Grows /\ \A r \in RunIds : Undisturbed(r)
  BY <1>1, Silent
<1>3. QED BY <1>1, <1>2, GoesIdle

\* Steps that leave the drivers alone.
LEMMA DriversStand ==
  ASSUME IInv, Grows, UNCHANGED proc, \A r \in RunIds : Undisturbed(r)
  PROVE  IInv'
<1>1. /\ Len(items) \in Nat /\ Len(items') \in Nat /\ Len(items) <= Len(items')
      /\ Len(runs) \in Nat /\ Len(runs') \in Nat /\ Len(runs) <= Len(runs')
      /\ RunIds = 1..Len(runs) /\ RunIds' = 1..Len(runs')
  BY TablesOfIInv, Lengths DEF Grows
<1>2. LedgerTypeOK'
  BY DEF Grows, Tables, LedgerTypeOK, IInv
<1>3. DriversValid'
  BY <1>1, ValidStays DEF IInv, DriversValid
<1>4. ASSUME NEW q \in Procs, NEW r, Owns(proc[q], r) PROVE r \in RunIds
  <2>1. Valid(proc[q], Len(items), Len(runs))
    BY DEF IInv, DriversValid
  <2>2. QED BY <1>1, <1>4, <2>1 DEF Owns, Valid
<1>5. OwnersDiffer'
  BY <1>4 DEF IInv, OwnersDiffer
<1>6. OpenRuns'
  <2>1. ASSUME NEW q \in Procs, NEW r \in RunIds', Owns(proc[q], r)
        PROVE  Open(proc[q], runs'[r], Cardinality(ItemsOf(items', r)))
    BY <1>4, <2>1 DEF IInv, OpenRuns, Open, Undisturbed
  <2>2. QED BY <2>1 DEF OpenRuns
<1>7. QED BY <1>2, <1>3, <1>5, <1>6 DEF IInv, Grows, Tables

LEMMA ResumeStep ==
  ASSUME IInv, NEW p \in Procs, ResumeWorkload(p) PROVE IInv'
<1>1. UNCHANGED <<runs, items>> /\ UNCHANGED proc /\ halted' \subseteq halted /\ UNCHANGED faults
  BY DEF ResumeWorkload
<1>2. QED BY <1>1, Silent, DriversStand

LEMMA TriageStep ==
  ASSUME IInv, NEW i \in ItemIds, Triage(i) PROVE IInv'
<1>1. Resolve(i, "triaged") /\ UNCHANGED proc /\ UNCHANGED halted /\ UNCHANGED faults
  BY DEF Triage
<1>2. /\ Tables' /\ Len(items') = Len(items) /\ Len(runs') = Len(runs)
      /\ \A q \in RunIds : Undisturbed(q)
  BY <1>1, TablesOfIInv, LetterResolved
<1>3. Grows
  BY <1>1, <1>2, TablesOfIInv, TablesShape DEF Grows, IInv, LedgerTypeOK
<1>4. QED BY <1>1, <1>2, <1>3, DriversStand

LEMMA ReenterStep ==
  ASSUME IInv, NEW p \in Procs, NEW i \in ItemIds, Reenter(p, i) PROVE IInv'
<1> DEFINE e == [Idle EXCEPT !.at = "body", !.by = "call", !.item = i]
<1>1. UNCHANGED <<runs, items>> /\ UNCHANGED halted /\ Fault /\ proc' = [proc EXCEPT ![p] = e]
  BY DEF Reenter
<1>2. Grows /\ \A r \in RunIds : Undisturbed(r)
  BY <1>1, Silent
<1>3. i \in 1..Len(items') /\ i \in Nat
  BY <1>1, TablesOfIInv, TablesShape DEF ItemIds
<1>4. /\ Idle \in Driver /\ Idle.run = 0 /\ Idle.by = "none" /\ ~Idle.record.letter
      /\ Valid(Idle, Len(items'), Len(runs'))
  BY <1>2, DriverAt DEF Grows
<1>5. /\ e \in Driver /\ e.run = 0 /\ e.by = "call" /\ e.at = "body" /\ e.item = i
      /\ e.record = Idle.record
  BY <1>3, <1>4 DEF Driver
<1> HIDE DEF e
<1>6. Valid(e, Len(items'), Len(runs'))
  BY <1>3, <1>4, <1>5 DEF Valid
<1>7. QED BY <1>1, <1>2, <1>5, <1>6, GoesOn

--------------------------------------------------------------------------------
(* Opening runs and items.                                                    *)

\* A driver that mints a run owns it, and the run is open.
LEMMA MintsRun ==
  ASSUME IInv, NEW p \in Procs, NEW total \in Nat, NEW from \in Nat, NEW e \in Driver,
         runs' = Append(runs, NewRun(total, from)), items' = items, halted' = halted,
         UNCHANGED faults, proc' = [proc EXCEPT ![p] = e],
         e.run = Len(runs) + 1, e.at = "next",
         e.by \in {"map", "slice"}, e.by = "map" => total = 0,
         e.by = "slice" => Len(e.left) <= total,
         e.record.letter => e.record.of \in ItemIds,
         e.by = "slice" => \A n \in DOMAIN e.left : e.left[n].letter => e.left[n].of \in ItemIds
  PROVE  IInv'
<1>1. /\ Tables' /\ Len(runs') = Len(runs) + 1 /\ Len(items') = Len(items)
      /\ \A r \in RunIds : Undisturbed(r)
      /\ runs'[Len(runs) + 1].total = total /\ ~runs'[Len(runs) + 1].closed
      /\ ItemsOf(items', Len(runs) + 1) = {}
  BY TablesOfIInv, RunMinted
<1>2. /\ Len(items) \in Nat /\ ItemIds = 1..Len(items)
      /\ Len(runs) \in Nat /\ RunIds = 1..Len(runs)
  BY <1>1, TablesOfIInv, Lengths
<1>3. Grows
  BY <1>1, <1>2 DEF Grows, IInv, LedgerTypeOK
<1>4. Valid(e, Len(items'), Len(runs'))
  BY <1>1, <1>2 DEF Valid
<1>5. \A r : Owns(e, r) => r = Len(runs) + 1 /\ r \notin RunIds
  BY <1>2 DEF Owns
<1>6. Open(e, runs'[Len(runs) + 1], Cardinality(ItemsOf(items', Len(runs) + 1)))
  <2>1. Cardinality(ItemsOf(items', Len(runs) + 1)) = 0
    BY <1>1, FS_EmptySet
  <2>2. Len(e.left) \in Nat
    BY DEF Driver
  <2>3. QED BY <1>1, <2>1, <2>2 DEF Open
<1>7. Moves(p, e)
  BY <1>4, <1>5, <1>6 DEF Moves
<1>8. QED BY <1>1, <1>3, <1>7, StepKeepsIInv

LEMMA IterateStep ==
  ASSUME IInv, NEW p \in Procs, NEW d \in Driver, Iterate(p, d),
         UNCHANGED <<items, halted>>, d.run = 0,
         d.record.letter => d.record.of \in ItemIds
  PROVE  IInv'
<1>1. CASE /\ runs' = Append(runs, NewRun(0, 0)) /\ UNCHANGED faults
           /\ proc' = [proc EXCEPT ![p] = [d EXCEPT !.at = "next", !.by = "map",
                                                    !.run = Len(runs) + 1]]
  <2> DEFINE n == Len(runs) + 1
             e == [d EXCEPT !.at = "next", !.by = "map", !.run = n]
  <2>1. n \in Nat /\ n = Len(runs) + 1
    BY TablesOfIInv, TablesShape
  <2>3. /\ proc' = [proc EXCEPT ![p] = e] /\ runs' = Append(runs, NewRun(0, 0))
        /\ UNCHANGED faults /\ items' = items /\ halted' = halted
    BY <1>1
  <2> HIDE DEF n
  <2>2. /\ e \in Driver /\ e.run = n /\ e.at = "next" /\ e.by = "map"
        /\ e.record = d.record
    BY <2>1 DEF Driver
  <2> HIDE DEF e
  <2>6. e.by = "map" /\ e.by # "slice" /\ e.run = Len(runs) + 1
    BY <2>1, <2>2
  <2>5. e.by \in {"map", "slice"} /\ (e.record.letter => e.record.of \in ItemIds) /\ 0 \in Nat
    BY <2>2
  <2>4. QED BY <2>2, <2>3, <2>5, <2>6, MintsRun
<1>2. CASE /\ Fault /\ UNCHANGED runs
           /\ proc' = [proc EXCEPT ![p] = [d EXCEPT !.at = "next", !.by = "map"]]
  <2> DEFINE e == [d EXCEPT !.at = "next", !.by = "map"]
  <2>1. /\ e \in Driver /\ e.run = 0 /\ e.at = "next" /\ e.by = "map" /\ e.record = d.record
    BY DEF Driver
  <2>2. proc' = [proc EXCEPT ![p] = e]
    BY <1>2
  <2> HIDE DEF e
  <2>3. Grows /\ \A r \in RunIds : Undisturbed(r)
    BY <1>2, Silent
  <2>4. /\ ItemIds = 1..Len(items) /\ Len(items') = Len(items) /\ Len(runs') \in Nat
    BY <2>3, TablesOfIInv, Lengths DEF Grows
  <2>5. Valid(e, Len(items'), Len(runs'))
    BY <2>1, <2>4 DEF Valid
  <2>6. QED BY <2>1, <2>2, <2>3, <2>5, GoesOn
<1>3. QED BY <1>1, <1>2 DEF Iterate

LEMMA FreshRecords ==
  ASSUME NEW size \in Nat
  PROVE  [n \in 1..size |-> Fresh] \in Seq(Record)
BY DEF Fresh, Record

LEMMA MapStep ==
  ASSUME IInv, NEW p \in Procs, Map(p) PROVE IInv'
<1>1. PICK size \in 0..Batch : Iterate(p, [Idle EXCEPT !.left = [n \in 1..size |-> Fresh]])
  BY DEF Map
<1>2. UNCHANGED <<items, halted>>
  BY DEF Map
<1> DEFINE left == [n \in 1..size |-> Fresh]
           d == [Idle EXCEPT !.left = left]
<1>3. left \in Seq(Record)
  BY FreshRecords
<1> HIDE DEF left
<1>4. d \in Driver /\ d.run = 0 /\ ~d.record.letter
  BY <1>3 DEF Idle, Driver, Fresh, Record, Ends
<1>5. Iterate(p, d)
  BY <1>1 DEF left
<1> HIDE DEF d
<1>6. QED BY <1>2, <1>4, <1>5, IterateStep

\* A call of its own: an item in a run of one, which no driver owns.
LEMMA CallsItem ==
  ASSUME IInv, NEW p \in Procs, NEW d \in Driver, InsertItem(0, 0), InBody(p, d),
         UNCHANGED <<halted, faults>>, d.run = 0, d.by \in {"call", "replay"},
         d.record.letter => d.record.of \in ItemIds, d.by = "replay" => d.record.letter
  PROVE  IInv'
<1>1. /\ Tables' /\ Len(items') = Len(items) + 1 /\ Len(runs') = Len(runs) + 1
      /\ \A q \in RunIds : q # 0 => Undisturbed(q)
  BY TablesOfIInv, ItemInserted
<1>2. /\ Len(items) \in Nat /\ ItemIds = 1..Len(items)
      /\ Len(runs) \in Nat /\ RunIds = 1..Len(runs)
  BY <1>1, TablesOfIInv, Lengths
<1>3. Grows /\ \A q \in RunIds : Undisturbed(q)
  BY <1>1, <1>2 DEF Grows, IInv, LedgerTypeOK
<1> DEFINE n == Len(items) + 1
           e == [d EXCEPT !.at = "body", !.item = n, !.pending = FALSE, !.marks = 0]
<1>8. n \in Nat /\ n = Len(items) + 1
  BY <1>2
<1>5. proc' = [proc EXCEPT ![p] = e]
  BY DEF InBody
<1> HIDE DEF n
<1>4. /\ e \in Driver /\ e.run = 0 /\ e.by = d.by /\ e.at = "body" /\ e.item = n
      /\ e.record = d.record
  BY <1>8 DEF Driver
<1> HIDE DEF e
<1>6. Valid(e, Len(items'), Len(runs'))
  BY <1>1, <1>2, <1>4, <1>8 DEF Valid
<1>7. QED BY <1>3, <1>4, <1>5, <1>6, GoesOn

LEMMA CallStep ==
  ASSUME IInv, NEW p \in Procs, Call(p) PROVE IInv'
<1> DEFINE d == [Idle EXCEPT !.by = "call"]
<1>1. d \in Driver /\ d.run = 0 /\ d.by = "call" /\ ~d.record.letter
  BY IdleTyped DEF Driver
<1>2. InsertItem(0, 0) /\ InBody(p, d) /\ UNCHANGED <<halted, faults>>
  BY DEF Call
<1> HIDE DEF d
<1>3. QED BY <1>1, <1>2, CallsItem

LEMMA ReplayStep ==
  ASSUME IInv, NEW p \in Procs, NEW i \in ItemIds, Replay(p, i) PROVE IInv'
<1> DEFINE r == [of |-> i, letter |-> TRUE]
           d == [Idle EXCEPT !.record = r]
<1>1. UNCHANGED halted
  BY DEF Replay
<1>2. i \in Nat
  BY TablesOfIInv, TablesShape DEF ItemIds
<1>3. CASE InsertItem(0, 0) /\ InBody(p, [d EXCEPT !.by = "replay"]) /\ UNCHANGED faults
  <2> DEFINE e == [d EXCEPT !.by = "replay"]
  <2>1. e \in Driver /\ e.run = 0 /\ e.by = "replay" /\ e.record = r
    BY <1>2, IdleTyped DEF Driver, Record
  <2>2. InBody(p, e)
    BY <1>3
  <2>3. r.letter /\ r.of \in ItemIds
    OBVIOUS
  <2> HIDE DEF e, d, r
  <2>4. QED BY <1>1, <1>3, <2>1, <2>2, <2>3, CallsItem
<1>4. CASE Iterate(p, [d EXCEPT !.left = <<Fresh>>]) /\ UNCHANGED items
  <2> DEFINE e == [d EXCEPT !.left = <<Fresh>>]
  <2>5. <<Fresh>> \in Seq(Record)
    BY DEF Fresh, Record
  <2>1. e \in Driver /\ e.run = 0 /\ e.record = r
    BY <1>2, <2>5, IdleTyped DEF Driver, Record
  <2>2. Iterate(p, e)
    BY <1>4
  <2>3. r.letter => r.of \in ItemIds
    OBVIOUS
  <2> HIDE DEF e, d, r
  <2>4. QED BY <1>1, <1>4, <2>1, <2>2, <2>3, IterateStep
<1>5. QED BY <1>3, <1>4 DEF Replay

LEMMA SlicesTyped ==
  ASSUME Tables, NEW r, NEW slice \in Slices(r)
  PROVE  /\ slice \in Seq(Record) /\ Len(slice) \in Nat
         /\ \A n \in DOMAIN slice : slice[n].of \in ItemIds
<1> DEFINE many == Cardinality(NotOk(r))
<1>1. NotOk(r) \in SUBSET ItemIds /\ NotOk(r) \in SUBSET ItemsOf(items, r)
  BY TablesShape DEF NotOk, ItemsOf, ItemIds
<1>2. many \in Nat
  <2>1. IsFiniteSet(ItemsOf(items, r))
    BY ItemSets DEF Tables
  <2>2. QED BY <1>1, <2>1, FS_Subset, FS_CardinalityType
<1>3. PICK chosen \in [1..many -> NotOk(r)] :
        slice = [n \in DOMAIN chosen |->
                   [of |-> chosen[n], letter |-> chosen[n] \in DeadLetters(items, r)]]
  BY DEF Slices
<1> HIDE DEF many
<1>4. /\ DOMAIN slice = 1..many
      /\ \A n \in 1..many : /\ slice[n] = [of |-> chosen[n], letter |-> chosen[n] \in DeadLetters(items, r)]
                            /\ chosen[n] \in ItemIds
  BY <1>1, <1>3
<1>5. \A i \in ItemIds : i \in Nat
  BY TablesShape DEF ItemIds
<1>6. \A n \in 1..many : slice[n] \in Record /\ slice[n].of \in ItemIds
  <2>1. ASSUME NEW of \in Nat, NEW letter \in BOOLEAN
        PROVE  [of |-> of, letter |-> letter] \in Record /\ [of |-> of, letter |-> letter].of = of
    BY DEF Record
  <2>2. ASSUME NEW n \in 1..many PROVE slice[n] \in Record /\ slice[n].of \in ItemIds
    <3> DEFINE of == chosen[n]
               letter == chosen[n] \in DeadLetters(items, r)
    <3>1. /\ of \in Nat /\ letter \in BOOLEAN /\ of \in ItemIds
          /\ slice[n] = [of |-> of, letter |-> letter]
      BY <1>4, <1>5
    <3> HIDE DEF of, letter
    <3>2. QED BY <2>1, <3>1
  <2>3. QED BY <2>2
<1>7. slice = [n \in 1..many |-> slice[n]]
  BY <1>3, <1>4
<1>8. slice \in Seq(Record)
  BY <1>2, <1>6, <1>7
<1>9. QED BY <1>4, <1>6, <1>8

LEMMA ReplaySliceStep ==
  ASSUME IInv, NEW p \in Procs, NEW r \in RunIds, ReplaySlice(p, r) PROVE IInv'
<1>1. PICK slice \in Slices(r) :
        /\ runs' = Append(runs, NewRun(Len(slice), r))
        /\ proc' = [proc EXCEPT ![p] = [Idle EXCEPT !.at = "next", !.by = "slice",
                                          !.left = slice, !.run = Len(runs) + 1]]
  BY DEF ReplaySlice
<1>2. items' = items /\ halted' = halted /\ UNCHANGED faults
  BY DEF ReplaySlice
<1>3. /\ slice \in Seq(Record) /\ Len(slice) \in Nat
      /\ \A n \in DOMAIN slice : slice[n].of \in ItemIds
  BY TablesOfIInv, SlicesTyped
<1> DEFINE n == Len(runs) + 1
           e == [Idle EXCEPT !.at = "next", !.by = "slice", !.left = slice, !.run = n]
<1>4. n \in Nat /\ n = Len(runs) + 1 /\ r \in Nat
  BY TablesOfIInv, TablesShape DEF RunIds
<1>5. proc' = [proc EXCEPT ![p] = e]
  BY <1>1
<1> HIDE DEF n
<1>6. /\ e \in Driver /\ e.run = n /\ e.at = "next" /\ e.by = "slice" /\ e.left = slice
      /\ ~e.record.letter
  BY <1>3, <1>4, IdleTyped DEF Driver
<1> HIDE DEF e
<1>7. /\ e.run = Len(runs) + 1 /\ e.by \in {"map", "slice"} /\ (e.by = "map" => Len(slice) = 0)
      /\ (e.record.letter => e.record.of \in ItemIds)
      /\ \A m \in DOMAIN e.left : e.left[m].letter => e.left[m].of \in ItemIds
  BY <1>3, <1>4, <1>6
<1>8. Len(e.left) <= Len(slice)
  BY <1>3, <1>6
<1>9. QED BY <1>1, <1>2, <1>3, <1>4, <1>5, <1>6, <1>7, <1>8, MintsRun

--------------------------------------------------------------------------------
(* A driver between its items.                                                *)

\* A driver that leaves its run for good.
LEMMA Leaves ==
  ASSUME IInv, Grows, NEW p \in Procs, NEW e \in Driver, proc' = [proc EXCEPT ![p] = e],
         Valid(e, Len(items'), Len(runs')), \A r : ~Owns(e, r),
         \A r \in RunIds : Owns(proc[p], r) \/ Undisturbed(r)
  PROVE  IInv'
<1>1. Moves(p, e)
  BY DEF Moves
<1>2. QED BY <1>1, StepKeepsIInv

LEMMA OverTyped ==
  ASSUME NEW d \in Driver, NEW len \in Nat, NEW size \in Nat, Valid(d, len, size),
         d.at # "idle", d.by = "map" => d.run = 0 \/ d.at = "seal"
  PROVE  /\ Over(d) \in Driver /\ Valid(Over(d), len, size)
         /\ \A r : ~Owns(Over(d), r)
<1>1. CASE d.by # "slice" /\ d.record.letter
  <2> DEFINE e == [d EXCEPT !.at = "dispose"]
  <2>1. /\ e \in Driver /\ e.at = "dispose" /\ e.run = d.run /\ e.by = d.by
        /\ e.record = d.record /\ e.left = d.left
    BY DEF Driver
  <2>2. Over(d) = e
    BY <1>1 DEF Over
  <2> HIDE DEF e
  <2>3. Valid(e, len, size)
    BY <1>1, <2>1 DEF Valid
  <2>4. \A r : ~Owns(e, r)
    BY <1>1, <2>1 DEF Owns, Valid
  <2>5. QED BY <2>1, <2>2, <2>3, <2>4
<1>2. CASE ~(d.by # "slice" /\ d.record.letter)
  <2>1. Over(d) = Idle
    BY <1>2 DEF Over
  <2>2. Idle.run \in 0..size
    BY DEF Idle
  <2>3. Valid(Idle, len, size) /\ \A r : ~Owns(Idle, r)
    BY <2>2, IdleTyped DEF Valid, Owns
  <2>4. QED BY <2>1, <2>3, IdleTyped
<1>3. QED BY <1>1, <1>2

LEMMA LoopEndsStep ==
  ASSUME IInv, NEW p \in Procs, LoopEnds(p) PROVE IInv'
<1>1. UNCHANGED <<runs, items>> /\ halted' \subseteq halted /\ (UNCHANGED faults \/ Fault)
  BY DEF LoopEnds
<1>2. Grows /\ \A r \in RunIds : Undisturbed(r)
  BY <1>1, Silent
<1>3. proc[p] \in Driver /\ Valid(proc[p], Len(items), Len(runs)) /\ proc[p].at = "next"
  BY DEF IInv, LedgerTypeOK, DriversValid, LoopEnds
<1>4. Len(items') = Len(items) /\ Len(runs') = Len(runs) /\ Len(items) \in Nat /\ Len(runs) \in Nat
  BY <1>1, TablesOfIInv, TablesShape
<1>5. CASE proc[p].by = "map" /\ proc[p].run # 0
  <2> DEFINE d == proc[p]
             e == [d EXCEPT !.at = "seal", !.left = <<>>, !.item = 0]
  <2>1. proc' = [proc EXCEPT ![p] = e]
    BY <1>5 DEF LoopEnds
  <2>2. d \in Driver /\ d = proc[p]
    BY <1>3
  <2> HIDE DEF d
  <2>8. <<>> \in Seq(Record)
    OBVIOUS
  <2>3. /\ e \in Driver /\ e.at = "seal" /\ e.left = <<>> /\ e.run = d.run /\ e.by = d.by
        /\ e.record = d.record
    <3>1. e \in Driver /\ e.at = "seal" /\ e.left = <<>>
      BY <2>2, <2>8 DEF Driver
    <3>2. e.run = d.run /\ e.by = d.by /\ e.record = d.record
      BY <2>2 DEF Driver
    <3>3. QED BY <3>1, <3>2
  <2> HIDE DEF e
  <2>4. Valid(e, Len(items'), Len(runs'))
    BY <1>3, <1>4, <1>5, <2>2, <2>3 DEF Valid
  <2>5. Len(e.left) <= Len(proc[p].left)
    BY <2>2, <2>3 DEF Driver
  <2>6. Owns(e, e.run) => Owns(proc[p], e.run)
    BY <1>3, <2>2, <2>3 DEF Owns
  <2>7. QED BY <1>2, <2>1, <2>2, <2>3, <2>4, <2>5, <2>6, GoesOn
<1>6. CASE ~(proc[p].by = "map" /\ proc[p].run # 0)
  <2>1. proc' = [proc EXCEPT ![p] = Over(proc[p])]
    BY <1>6 DEF LoopEnds
  <2>2. /\ Over(proc[p]) \in Driver /\ Valid(Over(proc[p]), Len(items'), Len(runs'))
        /\ \A r : ~Owns(Over(proc[p]), r)
    BY <1>3, <1>4, <1>6, OverTyped
  <2>3. QED BY <1>2, <2>1, <2>2, Leaves
<1>7. QED BY <1>5, <1>6

LEMMA SealLostStep ==
  ASSUME IInv, NEW p \in Procs, SealLost(p) PROVE IInv'
<1>1. /\ UNCHANGED <<runs, items>> /\ halted' \subseteq halted /\ Fault
      /\ proc' = [proc EXCEPT ![p] = Over(proc[p])]
  BY DEF SealLost
<1>2. Grows /\ \A r \in RunIds : Undisturbed(r)
  BY <1>1, Silent
<1>3. proc[p] \in Driver /\ Valid(proc[p], Len(items), Len(runs)) /\ proc[p].at = "seal"
  BY DEF IInv, LedgerTypeOK, DriversValid, SealLost
<1>4. Len(items') = Len(items) /\ Len(runs') = Len(runs) /\ Len(items) \in Nat /\ Len(runs) \in Nat
  BY <1>1, TablesOfIInv, TablesShape
<1>5. /\ Over(proc[p]) \in Driver /\ Valid(Over(proc[p]), Len(items'), Len(runs'))
      /\ \A r : ~Owns(Over(proc[p]), r)
  BY <1>3, <1>4, OverTyped
<1>6. QED BY <1>1, <1>2, <1>5, Leaves

LEMMA SealStep ==
  ASSUME IInv, NEW p \in Procs, Seal(p) PROVE IInv'
<1> DEFINE r == proc[p].run
<1>1. /\ proc[p] \in Driver /\ Valid(proc[p], Len(items), Len(runs)) /\ proc[p].at = "seal"
      /\ Len(items) \in Nat /\ Len(runs) \in Nat /\ RunIds = 1..Len(runs)
  BY TablesOfIInv, TablesShape DEF IInv, LedgerTypeOK, DriversValid, Seal, RunIds
<1>2. r \in RunIds /\ proc[p].by = "map" /\ r # 0
  BY <1>1 DEF Valid
<1>3. Owns(proc[p], r)
  BY <1>1, <1>2 DEF Owns
<1>4. runs[r].total = 0 /\ ~runs[r].closed
  BY <1>2, <1>3 DEF IInv, OpenRuns, Open
<1>5. /\ runs' = [runs EXCEPT ![r] = Promoted(Sealed(runs[r], Cardinality(ItemsOf(items, r))),
                                              DeadLetters(items, r))]
      /\ items' = items /\ UNCHANGED halted /\ UNCHANGED faults
      /\ proc' = [proc EXCEPT ![p] = Over(proc[p])]
  BY DEF Seal
<1> HIDE DEF r
<1>6. /\ Tables' /\ Len(items') = Len(items) /\ Len(runs') = Len(runs)
      /\ \A q \in RunIds : q # r => Undisturbed(q)
  BY <1>2, <1>4, <1>5, TablesOfIInv, RunSealed
<1>7. Grows
  BY <1>1, <1>5, <1>6 DEF Grows, IInv, LedgerTypeOK
<1>8. /\ Over(proc[p]) \in Driver /\ Valid(Over(proc[p]), Len(items'), Len(runs'))
      /\ \A q : ~Owns(Over(proc[p]), q)
  BY <1>1, <1>6, OverTyped
<1>9. \A q \in RunIds : Owns(proc[p], q) \/ Undisturbed(q)
  BY <1>3, <1>6
<1>10. QED BY <1>5, <1>7, <1>8, <1>9, Leaves

LEMMA DisposeStep ==
  ASSUME IInv, NEW p \in Procs, Dispose(p) PROVE IInv'
<1>1. /\ proc[p] \in Driver /\ Valid(proc[p], Len(items), Len(runs)) /\ proc[p].at = "dispose"
      /\ Len(items) \in Nat /\ Len(runs) \in Nat /\ ItemIds = 1..Len(items)
  BY TablesOfIInv, TablesShape DEF IInv, LedgerTypeOK, DriversValid, Dispose, ItemIds
<1>2. proc[p].record.of \in ItemIds
  BY <1>1 DEF Valid
<1>3. Resolve(proc[p].record.of, "replayed") /\ UNCHANGED halted /\ UNCHANGED faults
  BY DEF Dispose
<1>4. /\ Tables' /\ Len(items') = Len(items) /\ Len(runs') = Len(runs)
      /\ \A q \in RunIds : Undisturbed(q)
  BY <1>2, <1>3, TablesOfIInv, LetterResolved
<1>5. Grows
  BY <1>1, <1>3, <1>4 DEF Grows, IInv, LedgerTypeOK
<1>6. CASE proc[p].by = "slice"
  <2> DEFINE d == proc[p]
             e == [d EXCEPT !.at = "next"]
  <2>1. proc' = [proc EXCEPT ![p] = e]
    BY <1>6 DEF Dispose
  <2>2. d \in Driver /\ d = proc[p]
    BY <1>1
  <2> HIDE DEF d
  <2>3. /\ e \in Driver /\ e.at = "next" /\ e.left = d.left /\ e.run = d.run /\ e.by = d.by
        /\ e.record = d.record
    BY <2>2 DEF Driver
  <2> HIDE DEF e
  <2>4. Valid(e, Len(items'), Len(runs'))
    BY <1>1, <1>4, <1>6, <2>2, <2>3 DEF Valid
  <2>5. Len(e.left) <= Len(proc[p].left)
    BY <2>2, <2>3 DEF Driver
  <2>6. Owns(e, e.run) => Owns(proc[p], e.run)
    BY <1>1, <1>6, <2>2, <2>3 DEF Owns
  <2>7. QED BY <1>4, <1>5, <2>1, <2>2, <2>3, <2>4, <2>5, <2>6, GoesOn
<1>7. CASE proc[p].by # "slice"
  <2>1. proc' = [proc EXCEPT ![p] = Idle]
    BY <1>7 DEF Dispose
  <2>2. QED BY <1>4, <1>5, <2>1, GoesIdle
<1>8. QED BY <1>6, <1>7

--------------------------------------------------------------------------------
(* The item in hand.                                                          *)

LEMMA Rest ==
  ASSUME NEW left \in Seq(Record), left # <<>>, NEW len, NEW from \in {0, Head(left).of},
         \A n \in DOMAIN left : left[n].letter => left[n].of \in 1..len
  PROVE  /\ Tail(left) \in Seq(Record) /\ Head(left) \in Record /\ from \in Nat
         /\ Len(left) \in Nat /\ Len(Tail(left)) = Len(left) - 1 /\ Len(left) > 0
         /\ Head(left).letter => Head(left).of \in 1..len
         /\ \A n \in DOMAIN Tail(left) : Tail(left)[n].letter => Tail(left)[n].of \in 1..len
<1>1. /\ Tail(left) \in Seq(Record) /\ Head(left) \in Record /\ Head(left) = left[1]
      /\ Len(left) \in Nat /\ Len(Tail(left)) = Len(left) - 1 /\ Len(left) > 0
      /\ DOMAIN left = 1..Len(left) /\ DOMAIN Tail(left) = 1..(Len(left) - 1)
      /\ \A n \in 1..(Len(left) - 1) : Tail(left)[n] = left[n + 1]
  OBVIOUS
<1>2. from \in Nat
  BY <1>1 DEF Record
<1>3. 1 \in DOMAIN left /\ \A n \in 1..(Len(left) - 1) : n + 1 \in DOMAIN left
  BY <1>1
<1>4. QED BY <1>1, <1>2, <1>3

LEMMA OpenItemStep ==
  ASSUME IInv, NEW p \in Procs, OpenItem(p) PROVE IInv'
<1> DEFINE d == proc[p]
           from == IF d.by = "slice" THEN Head(d.left).of ELSE 0
           left == Tail(d.left)
           record == IF d.by = "slice" THEN Head(d.left) ELSE d.record
           n == Len(items) + 1
           e == [d EXCEPT !.left = left, !.record = record, !.at = "body", !.item = n,
                          !.pending = FALSE, !.marks = 0]
<1>1. /\ d \in Driver /\ Valid(d, Len(items), Len(runs)) /\ d.at = "next" /\ d.left # <<>>
      /\ Len(items) \in Nat /\ Len(runs) \in Nat /\ RunIds = 1..Len(runs) /\ n \in Nat
      /\ d.left \in Seq(Record) /\ d.record \in Record /\ d = proc[p] /\ n = Len(items) + 1
  <2>1. d \in Driver /\ Valid(d, Len(items), Len(runs)) /\ d.at = "next" /\ d.left # <<>>
    BY DEF IInv, LedgerTypeOK, DriversValid, OpenItem
  <2>2. Len(items) \in Nat /\ Len(runs) \in Nat /\ RunIds = 1..Len(runs)
    BY TablesOfIInv, TablesShape DEF RunIds
  <2>3. d.left \in Seq(Record) /\ d.record \in Record
    BY <2>1 DEF Driver
  <2>4. QED BY <2>1, <2>2, <2>3
<1>2. InsertItem(d.run, from) /\ proc' = [proc EXCEPT ![p] = e] /\ UNCHANGED <<halted, faults>>
  BY DEF OpenItem, InBody, Driver
<1>3. /\ left \in Seq(Record) /\ record \in Record /\ from \in Nat
      /\ Len(d.left) \in Nat /\ Len(left) = Len(d.left) - 1 /\ Len(d.left) > 0
      /\ record.letter => record.of \in 1..Len(items)
      /\ d.by = "slice" => \A m \in DOMAIN left : left[m].letter => left[m].of \in 1..Len(items)
  <2>1. CASE d.by = "slice"
    <3>1. \A m \in DOMAIN d.left : d.left[m].letter => d.left[m].of \in 1..Len(items)
      BY <1>1, <2>1 DEF Valid
    <3>2. QED BY <1>1, <2>1, <3>1, Rest
  <2>2. CASE d.by # "slice"
    <3>1. left \in Seq(Record) /\ Len(d.left) \in Nat /\ Len(left) = Len(d.left) - 1 /\ Len(d.left) > 0
      BY <1>1
    <3>2. record.letter => record.of \in 1..Len(items)
      BY <1>1, <2>2 DEF Valid
    <3>3. record \in Record /\ from \in Nat
      BY <1>1, <2>2
    <3>4. QED BY <2>2, <3>1, <3>2, <3>3
  <2>3. QED BY <2>1, <2>2
<1>20. d.by = "replay" => record.letter
  BY <1>1 DEF Valid
<1> HIDE DEF d, n, left, record, from
<1>4. /\ e \in Driver /\ e.run = d.run /\ e.at = "body" /\ e.by = d.by /\ e.item = n
      /\ e.record = record /\ e.left = left
  <2>1. e \in Driver /\ e.left = left /\ e.record = record
    BY <1>1, <1>3 DEF Driver
  <2>2. e.run = d.run /\ e.at = "body" /\ e.by = d.by /\ e.item = n
    BY <1>1 DEF Driver
  <2>3. QED BY <2>1, <2>2
<1> HIDE DEF e
<1>5. d.run # 0 => /\ d.run \in RunIds /\ Owns(d, d.run) /\ d.by \in {"map", "slice"}
                   /\ Open(d, runs[d.run], Cardinality(ItemsOf(items, d.run)))
  <2>1. d.run # 0 => d.run \in RunIds /\ Owns(d, d.run) /\ d.by \in {"map", "slice"}
    BY <1>1 DEF Valid, Owns
  <2>2. QED BY <1>1, <2>1 DEF IInv, OpenRuns
<1>6. d.run # 0 => /\ runs[d.run].total \in Nat /\ Cardinality(ItemsOf(items, d.run)) \in Nat
  BY <1>5, TablesOfIInv, TablesShape, ItemSets DEF Tables, Run
<1>7. d.run # 0 =>
        /\ d.run \in RunIds /\ (runs[d.run].total = 0 => ~runs[d.run].closed)
        /\ runs[d.run].total > 0 => Cardinality(ItemsOf(items, d.run)) + 1 <= runs[d.run].total
  BY <1>3, <1>5, <1>6 DEF Open
<1>8. d.run \in Nat
  BY <1>1 DEF Driver
<1>9. /\ Tables' /\ Len(items') = n
      /\ Len(runs') = IF d.run = 0 THEN Len(runs) + 1 ELSE Len(runs)
      /\ \A q \in RunIds : q # d.run => Undisturbed(q)
      /\ d.run # 0 =>
           /\ runs' = runs
           /\ Cardinality(ItemsOf(items', d.run)) = Cardinality(ItemsOf(items, d.run)) + 1
  BY <1>1, <1>2, <1>3, <1>7, <1>8, TablesOfIInv, ItemInserted
<1>10. Grows
  BY <1>1, <1>2, <1>9 DEF Grows, IInv, LedgerTypeOK
<1>11. Valid(e, Len(items'), Len(runs'))
  <2>1. 1..Len(items) \subseteq 1..Len(items') /\ n \in 1..Len(items') /\ d.run \in 0..Len(runs')
    BY <1>1, <1>9 DEF Valid
  <2>2. record.letter => record.of \in 1..Len(items')
    BY <1>3, <2>1
  <2>3. d.by = "slice" => \A m \in DOMAIN left : left[m].letter => left[m].of \in 1..Len(items')
    BY <1>3, <2>1
  <2>4. d.by # "none" /\ (d.by \notin {"map", "slice"} => d.run = 0)
    BY <1>1 DEF Valid
  <2>5. QED BY <1>4, <1>20, <2>1, <2>2, <2>3, <2>4 DEF Valid
<1>12. CASE d.run = 0
  <2>1. \A q \in RunIds : Undisturbed(q)
    BY <1>1, <1>9, <1>12
  <2>2. QED BY <1>2, <1>4, <1>10, <1>11, <1>12, <2>1, GoesOn
<1>13. CASE d.run # 0
  <2>1. Open(e, runs'[d.run], Cardinality(ItemsOf(items', d.run)))
    BY <1>3, <1>4, <1>5, <1>6, <1>9, <1>13 DEF Open
  <2>2. ASSUME NEW r, Owns(e, r) PROVE r = d.run /\ Owns(proc[p], r)
    BY <1>1, <1>4, <1>5, <1>13, <2>2 DEF Owns
  <2>3. Moves(p, e)
    BY <1>2, <1>4, <1>11, <2>1, <2>2 DEF Moves
  <2>4. \A r \in RunIds : Owns(proc[p], r) \/ Undisturbed(r)
    BY <1>1, <1>5, <1>9, <1>13
  <2>5. QED BY <1>10, <2>3, <2>4, StepKeepsIInv
<1>14. QED BY <1>12, <1>13

\* A driver in the body of its item goes on with it.
LEMMA BodyGoesOn ==
  ASSUME IInv, Grows, Len(items') = Len(items), Len(runs') = Len(runs), NEW p \in Procs,
         NEW e \in Driver, proc' = [proc EXCEPT ![p] = e],
         proc[p].at = "body", e.at \in {"body", "end"}, e.item = proc[p].item,
         e.run = proc[p].run, e.by = proc[p].by, e.record = proc[p].record,
         e.left \in {<<>>, proc[p].left}, \A r \in RunIds : Undisturbed(r)
  PROVE  IInv'
<1>1. proc[p] \in Driver /\ Valid(proc[p], Len(items), Len(runs))
  BY DEF IInv, LedgerTypeOK, DriversValid
<1>2. DOMAIN <<>> = {} /\ Len(<<>>) = 0 /\ Len(proc[p].left) \in Nat
  BY <1>1 DEF Driver
<1>3. Valid(e, Len(items'), Len(runs'))
  <2>1. e.by = "slice" => \A n \in DOMAIN e.left : e.left[n].letter => e.left[n].of \in 1..Len(items)
    BY <1>1, <1>2 DEF Valid
  <2>2. QED BY <1>1, <2>1 DEF Valid
<1>4. Len(e.left) <= Len(proc[p].left)
  BY <1>2
<1>5. Owns(e, e.run) => Owns(proc[p], e.run)
  BY DEF Owns
<1>6. QED BY <1>3, <1>4, <1>5, GoesOn

\* A row is saved for the item in hand.
LEMMA RowSaved ==
  ASSUME IInv, NEW p \in Procs, NEW token \in {"step", "mark"} \X Nat, NEW outcome \in Outcomes,
         proc[p].at = "body", items' = Recorded(items, proc[p].item, token, outcome),
         UNCHANGED <<runs, halted, faults>>
  PROVE  /\ Grows /\ Len(items') = Len(items) /\ Len(runs') = Len(runs)
         /\ \A r \in RunIds : Undisturbed(r)
<1>1. /\ Valid(proc[p], Len(items), Len(runs))
      /\ Len(items) \in Nat /\ Len(runs) \in Nat /\ ItemIds = 1..Len(items)
  BY TablesOfIInv, TablesShape DEF IInv, DriversValid, ItemIds
<1>2. proc[p].item \in ItemIds
  BY <1>1 DEF Valid
<1>3. Tables' /\ Len(items') = Len(items) /\ \A r \in RunIds : Undisturbed(r)
  BY <1>2, TablesOfIInv, RowRecorded
<1>4. QED BY <1>1, <1>3 DEF Grows, IInv, LedgerTypeOK

LEMMA TrippedBoolean ==
  ASSUME NEW d \in Driver, NEW before, NEW after PROVE Tripped(d, before, after) \in BOOLEAN
BY DEF Driver, Tripped

LEMMA StepStep ==
  ASSUME IInv, NEW p \in Procs, NEW o \in Verdicts, Step(p, o) PROVE IInv'
<1> DEFINE d == proc[p]
           m == Cardinality(StepsOf(d.item)) + 1
           token == <<"step", m>>
           trips == Tripped(d, items, items')
           e == [d EXCEPT !.pending = trips]
<1>1. /\ items' = Recorded(items, d.item, token, o) /\ proc' = [proc EXCEPT ![p] = e]
      /\ UNCHANGED <<runs, halted, faults>> /\ d.at = "body" /\ o \in Outcomes
  BY DEF Step, Saved, Outcomes
<1>2. d \in Driver /\ d = proc[p] /\ trips \in BOOLEAN
  BY TrippedBoolean DEF IInv, LedgerTypeOK
<1>3. token \in {"step", "mark"} \X Nat
  <2>1. d.item \in ItemIds
    BY <1>1, TablesOfIInv, TablesShape DEF IInv, DriversValid, Valid, ItemIds
  <2>2. items[d.item].rows \in Seq([token : {"step", "mark"} \X Nat, outcome : Outcomes])
    BY <2>1, TablesOfIInv, TablesShape DEF Item
  <2> DEFINE rows == items[d.item].rows
  <2>3. Len(rows) \in Nat /\ DOMAIN rows = 1..Len(rows)
    BY <2>2
  <2>4. IsFiniteSet(1..Len(rows))
    BY <2>3, FS_Interval
  <2>5. StepsOf(d.item) \in SUBSET (1..Len(rows))
    BY <2>3 DEF StepsOf
  <2>6. Cardinality(StepsOf(d.item)) \in Nat
    BY <2>4, <2>5, FS_Subset, FS_CardinalityType
  <2>7. QED BY <2>6
<1> HIDE DEF d, m, token, trips
<1>4. /\ e \in Driver /\ e.at = "body" /\ e.item = d.item /\ e.run = d.run /\ e.by = d.by
      /\ e.record = d.record /\ e.left = d.left
  BY <1>1, <1>2 DEF Driver
<1> HIDE DEF e
<1>5. /\ Grows /\ Len(items') = Len(items) /\ Len(runs') = Len(runs)
      /\ \A r \in RunIds : Undisturbed(r)
  BY <1>1, <1>2, <1>3, RowSaved
<1>6. QED BY <1>1, <1>2, <1>4, <1>5, BodyGoesOn

LEMMA MarkStep ==
  ASSUME IInv, NEW p \in Procs, NEW o \in Verdicts, Mark(p, o) PROVE IInv'
<1> DEFINE d == proc[p]
           m == d.marks + 1
           token == <<"mark", m>>
           c == [d EXCEPT !.marks = m]
           trips == Tripped(c, items, items')
           e == [c EXCEPT !.pending = trips]
<1>2. d \in Driver /\ d = proc[p] /\ m \in Nat /\ token \in {"step", "mark"} \X Nat
  BY DEF IInv, LedgerTypeOK, Driver
<1>1. /\ items' = Recorded(items, d.item, token, o) /\ proc' = [proc EXCEPT ![p] = e]
      /\ UNCHANGED <<runs, halted, faults>> /\ d.at = "body" /\ o \in Outcomes
  BY <1>2 DEF Mark, Saved, Outcomes, Driver
<1> HIDE DEF d, m, token
<1>3. /\ c \in Driver /\ c.at = d.at /\ c.item = d.item /\ c.run = d.run /\ c.by = d.by
      /\ c.record = d.record /\ c.left = d.left
  BY <1>2 DEF Driver
<1> HIDE DEF c
<1>4. trips \in BOOLEAN
  BY <1>3, TrippedBoolean
<1> HIDE DEF trips
<1>5. /\ e \in Driver /\ e.at = c.at /\ e.item = c.item /\ e.run = c.run /\ e.by = c.by
      /\ e.record = c.record /\ e.left = c.left
  BY <1>3, <1>4 DEF Driver
<1> HIDE DEF e
<1>6. /\ Grows /\ Len(items') = Len(items) /\ Len(runs') = Len(runs)
      /\ \A r \in RunIds : Undisturbed(r)
  BY <1>1, <1>2, RowSaved
<1>7. QED BY <1>1, <1>2, <1>3, <1>5, <1>6, BodyGoesOn

LEMMA ReturnsStep ==
  ASSUME IInv, NEW p \in Procs, Returns(p) PROVE IInv'
<1> DEFINE d == proc[p]
           e == [d EXCEPT !.at = "end", !.verdict = "completed"]
<1>1. /\ UNCHANGED <<runs, items>> /\ UNCHANGED <<halted, faults>>
      /\ proc' = [proc EXCEPT ![p] = e] /\ d.at = "body"
  BY DEF Returns
<1>2. d \in Driver /\ d = proc[p]
  BY DEF IInv, LedgerTypeOK
<1> HIDE DEF d
<1>3. /\ e \in Driver /\ e.at = "end" /\ e.item = d.item /\ e.run = d.run /\ e.by = d.by
      /\ e.record = d.record /\ e.left = d.left
  BY <1>2 DEF Driver, Ends
<1> HIDE DEF e
<1>4. Grows /\ \A r \in RunIds : Undisturbed(r)
  BY <1>1, Silent
<1>5. Len(items') = Len(items) /\ Len(runs') = Len(runs)
  BY <1>1
<1>6. QED BY <1>1, <1>2, <1>3, <1>4, <1>5, BodyGoesOn

\* The exception of the body: its mark, and the verdict that is to come.
Stumbles(p, e) ==
  /\ proc' = [proc EXCEPT ![p] = e]
  /\ items' = Recorded(items, proc[p].item, <<"mark", proc[p].marks + 1>>, "failed")
  /\ UNCHANGED <<runs, halted, faults>> /\ proc[p].at = "body"

LEMMA StumblesStep ==
  ASSUME IInv, NEW p \in Procs, NEW trips \in BOOLEAN, NEW c, NEW e,
         c = Caught(proc[p]), e \in {c, [c EXCEPT !.pending = trips]}, Stumbles(p, e)
  PROVE  IInv'
<1> DEFINE d == proc[p]
           m == d.marks + 1
           left == IF d.by = "map" THEN <<>> ELSE d.left
           token == <<"mark", m>>
<1>1. /\ d \in Driver /\ d = proc[p] /\ m \in Nat /\ token \in {"step", "mark"} \X Nat
      /\ left \in Seq(Record) /\ left \in {<<>>, d.left}
  BY DEF IInv, LedgerTypeOK, Driver
<1>2. c = [d EXCEPT !.at = "end", !.verdict = "failed", !.marks = m, !.left = left]
  BY <1>1 DEF Caught, Driver
<1>3. /\ items' = Recorded(items, d.item, token, "failed") /\ proc' = [proc EXCEPT ![p] = e]
      /\ UNCHANGED <<runs, halted, faults>> /\ d.at = "body"
  BY DEF Stumbles
<1> HIDE DEF d, m, left, token
<1>4. /\ c \in Driver /\ c.at = "end" /\ c.item = d.item /\ c.run = d.run /\ c.by = d.by
      /\ c.record = d.record /\ c.left = left
  <2>1. c \in Driver /\ c.at = "end" /\ c.left = left
    BY <1>1, <1>2 DEF Driver, Ends
  <2>2. c.item = d.item /\ c.run = d.run /\ c.by = d.by /\ c.record = d.record
    BY <1>1, <1>2 DEF Driver
  <2>3. QED BY <2>1, <2>2
<1>5. /\ e \in Driver /\ e.at = "end" /\ e.item = d.item /\ e.run = d.run /\ e.by = d.by
      /\ e.record = d.record /\ e.left = left
  <2>1. CASE e = c
    BY <1>4, <2>1
  <2>2. CASE e = [c EXCEPT !.pending = trips]
    <3>1. e \in Driver /\ e.at = c.at /\ e.left = c.left
      BY <1>4, <2>2 DEF Driver
    <3>2. e.item = c.item /\ e.run = c.run /\ e.by = c.by /\ e.record = c.record
      BY <1>4, <2>2 DEF Driver
    <3>3. QED BY <1>4, <3>1, <3>2
  <2>3. QED BY <2>1, <2>2
<1>6. "failed" \in Outcomes
  BY DEF Outcomes
<1>7. /\ Grows /\ Len(items') = Len(items) /\ Len(runs') = Len(runs)
      /\ \A r \in RunIds : Undisturbed(r)
  BY <1>1, <1>3, <1>6, RowSaved
<1>8. QED BY <1>1, <1>3, <1>5, <1>7, BodyGoesOn

LEMMA RaisesStep ==
  ASSUME IInv, NEW p \in Procs, Raises(p) PROVE IInv'
<1> DEFINE c == Caught(proc[p])
           trips == Tripped(c, items, items')
           e == [c EXCEPT !.pending = trips]
<1>1. proc[p] \in Driver
  BY DEF IInv, LedgerTypeOK
<1>2. Stumbles(p, e)
  BY <1>1 DEF Raises, Failed, Saved, Stumbles, Driver, Caught
<1>3. trips \in BOOLEAN
  <2>1. c.pending = proc[p].pending /\ proc[p].pending \in BOOLEAN
    BY <1>1 DEF Driver, Caught
  <2>2. QED BY <2>1 DEF Tripped
<1>4. QED BY <1>2, <1>3, StumblesStep

\* The fields of a driver that is done with its item.
LEMMA BetweenTyped ==
  ASSUME NEW d \in Driver, NEW at \in {"next", "dispose"}
  PROVE  LET e == [Between(d) EXCEPT !.at = at]
         IN /\ e \in Driver /\ e.at = at /\ e.run = d.run /\ e.by = d.by
            /\ e.record = d.record /\ e.left = d.left
<1> DEFINE e == [Between(d) EXCEPT !.at = at]
<1>1. e \in Driver /\ e.at = at /\ e.run = d.run
  BY DEF Between, Driver, Ends
<1>2. e.by = d.by /\ e.record = d.record /\ e.left = d.left
  BY DEF Between, Driver
<1>3. QED BY <1>1, <1>2

\* A driver goes on to its next record, or to its source, from the body or from the end.
LEMMA GoesOnTo ==
  ASSUME IInv, Grows, Len(items') = Len(items), Len(runs') = Len(runs), NEW p \in Procs,
         proc[p].at \in {"body", "end"}, NEW at \in {"next", "dispose"},
         at = "dispose" => proc[p].record.letter,
         proc' = [proc EXCEPT ![p] = [Between(proc[p]) EXCEPT !.at = at]],
         \A r \in RunIds : Undisturbed(r)
  PROVE  IInv'
<1> DEFINE d == proc[p]
           e == [Between(d) EXCEPT !.at = at]
<1>1. d \in Driver /\ Valid(d, Len(items), Len(runs)) /\ d = proc[p]
  BY DEF IInv, LedgerTypeOK, DriversValid
<1>2. proc' = [proc EXCEPT ![p] = e]
  OBVIOUS
<1>3. /\ e \in Driver /\ e.at = at /\ e.run = d.run /\ e.by = d.by
      /\ e.record = d.record /\ e.left = d.left
  BY <1>1, BetweenTyped
<1> HIDE DEF d, e
<1>4. Valid(e, Len(items'), Len(runs'))
  BY <1>1, <1>3 DEF Valid
<1>5. Len(e.left) <= Len(d.left)
  BY <1>1, <1>3 DEF Driver
<1>6. Owns(e, e.run) => Owns(d, e.run)
  BY <1>1, <1>3 DEF Owns
<1>7. QED BY <1>1, <1>2, <1>3, <1>4, <1>5, <1>6, GoesOn

LEMMA PausedStep ==
  ASSUME IInv, NEW p \in Procs, Paused(p) PROVE IInv'
<1>1. proc[p] \in Driver /\ Valid(proc[p], Len(items), Len(runs)) /\ proc[p].at = "body"
  BY DEF IInv, LedgerTypeOK, DriversValid, Paused
<1>2. CASE proc[p].by \in {"call", "replay"}
  <2>0. LeftRunning(p) /\ UNCHANGED items
    BY <1>2 DEF Paused
  <2>1. UNCHANGED <<runs, items>> /\ halted' \subseteq halted /\ UNCHANGED faults
    BY <2>0 DEF Paused
  <2>2. Grows /\ \A r \in RunIds : Undisturbed(r)
    BY <2>1, Silent
  <2>3. CASE proc[p].by = "replay"
    <3>1. proc' = [proc EXCEPT ![p] = [Between(proc[p]) EXCEPT !.at = "dispose"]]
      BY <2>0, <2>3 DEF LeftRunning
    <3>2. proc[p].record.letter
      BY <1>1, <2>3 DEF Valid
    <3>3. Len(items') = Len(items) /\ Len(runs') = Len(runs)
      BY <2>1
    <3>4. QED BY <1>1, <2>2, <3>1, <3>2, <3>3, GoesOnTo
  <2>4. CASE proc[p].by # "replay"
    <3>1. proc' = [proc EXCEPT ![p] = Idle]
      BY <2>0, <2>4 DEF LeftRunning
    <3>2. QED BY <2>2, <3>1, GoesIdle
  <2>5. QED BY <2>3, <2>4
<1>3. CASE proc[p].by \in {"map", "slice"}
  <2>1. Stumbles(p, Caught(proc[p]))
    BY <1>1, <1>3 DEF Paused, Stumbles
  <2>2. QED BY <2>1, StumblesStep
<1>4. QED BY <1>2, <1>3 DEF Paused

\* Where the driver goes when its item has ended, or was to end.
LEMMA AfterItemStep ==
  ASSUME IInv, Grows, Len(items') = Len(items), Len(runs') = Len(runs), NEW p \in Procs,
         proc[p].at = "end", proc' = [proc EXCEPT ![p] = AfterItem(proc[p])],
         \A r \in RunIds : Undisturbed(r)
  PROVE  IInv'
<1>1. proc[p] \in Driver /\ Valid(proc[p], Len(items), Len(runs))
  BY DEF IInv, LedgerTypeOK, DriversValid
<1>2. CASE proc[p].by = "map" \/ (proc[p].by = "slice" /\ ~proc[p].record.letter)
  <2>1. AfterItem(proc[p]) = [Between(proc[p]) EXCEPT !.at = "next"]
    BY <1>1, <1>2 DEF AfterItem, Between, Driver
  <2>2. QED BY <2>1, GoesOnTo
<1>3. CASE proc[p].by = "call"
  <2>1. AfterItem(proc[p]) = Idle
    BY <1>3 DEF AfterItem
  <2>2. QED BY <2>1, GoesIdle
<1>4. CASE proc[p].by = "replay" \/ (proc[p].by = "slice" /\ proc[p].record.letter)
  <2>1. AfterItem(proc[p]) = [Between(proc[p]) EXCEPT !.at = "dispose"] /\ proc[p].record.letter
    BY <1>1, <1>4 DEF AfterItem, Valid
  <2>2. QED BY <2>1, GoesOnTo
<1>5. QED BY <1>1, <1>2, <1>3, <1>4 DEF Valid, Driver

LEMMA EndItemStep ==
  ASSUME IInv, NEW p \in Procs, EndItem(p) PROVE IInv'
<1>1. /\ proc[p] \in Driver /\ Valid(proc[p], Len(items), Len(runs)) /\ proc[p].at = "end"
      /\ Len(items) \in Nat /\ Len(runs) \in Nat /\ ItemIds = 1..Len(items)
  BY TablesOfIInv, TablesShape DEF IInv, LedgerTypeOK, DriversValid, EndItem, ItemIds
<1>2. proc[p].item \in ItemIds /\ proc[p].verdict \in Ends
  BY <1>1 DEF Valid, Driver
<1>3. EndsWith(proc[p].item, proc[p].verdict)
  BY DEF EndItem, EndsWith
<1>4. /\ Tables' /\ Len(items') = Len(items) /\ Len(runs') = Len(runs)
      /\ \A q \in RunIds : Undisturbed(q)
  BY <1>2, <1>3, TablesOfIInv, ItemEnded
<1>5. halted' \subseteq halted \cup {p} /\ UNCHANGED faults
  BY DEF EndItem
<1>6. Grows
  BY <1>1, <1>4, <1>5 DEF Grows, IInv, LedgerTypeOK
<1>7. proc' = [proc EXCEPT ![p] = AfterItem(proc[p])]
  BY DEF EndItem
<1>8. QED BY <1>1, <1>4, <1>6, <1>7, AfterItemStep

LEMMA EndLostStep ==
  ASSUME IInv, NEW p \in Procs, EndLost(p) PROVE IInv'
<1>1. /\ UNCHANGED <<runs, items>> /\ halted' \subseteq halted /\ Fault
      /\ proc' = [proc EXCEPT ![p] = AfterItem(proc[p])] /\ proc[p].at = "end"
  BY DEF EndLost
<1>2. Grows /\ \A r \in RunIds : Undisturbed(r)
  BY <1>1, Silent
<1>3. Len(items') = Len(items) /\ Len(runs') = Len(runs)
  BY <1>1
<1>4. QED BY <1>1, <1>2, <1>3, AfterItemStep

--------------------------------------------------------------------------------
(* The invariant holds.                                                       *)

LEMMA InitIInv == LedgerInit => IInv
<1> SUFFICES ASSUME LedgerInit PROVE IInv
  OBVIOUS
<1>1. /\ runs = <<>> /\ items = <<>> /\ halted = {} /\ faults = 0
      /\ proc = [p \in Procs |-> Idle]
  BY DEF LedgerInit
<1>2. RunIds = {} /\ ItemIds = {} /\ Len(runs) = 0 /\ Len(items) = 0
  BY <1>1 DEF RunIds, ItemIds
<1>3. LedgerTypeOK
  BY <1>1, IdleTyped DEF LedgerTypeOK
<1>4. ItemsStand /\ Books /\ AggregatesMatchRows /\ OwnersDiffer /\ OpenRuns
  BY <1>2 DEF ItemsStand, Books, AggregatesMatchRows, OwnersDiffer, OpenRuns
<1>5. DriversValid
  BY <1>1, <1>2, IdleTyped DEF DriversValid, Valid
<1>6. QED BY <1>3, <1>4, <1>5 DEF IInv

LEMMA ActsKeepIInv ==
  ASSUME IInv, NEW p \in Procs, Acts(p) PROVE IInv'
<1>1. CASE Map(p)
  BY <1>1, MapStep
<1>2. CASE Call(p)
  BY <1>2, CallStep
<1>3. CASE OpenItem(p)
  BY <1>3, OpenItemStep
<1>4. CASE LoopEnds(p)
  BY <1>4, LoopEndsStep
<1>5. CASE \E i \in ItemIds : Replay(p, i) \/ Reenter(p, i)
  BY <1>5, ReplayStep, ReenterStep
<1>6. CASE \E r \in RunIds : ReplaySlice(p, r)
  BY <1>6, ReplaySliceStep
<1>7. CASE \E o \in Verdicts : Step(p, o) \/ Mark(p, o)
  BY <1>7, StepStep, MarkStep
<1>8. CASE Returns(p)
  BY <1>8, ReturnsStep
<1>9. CASE Raises(p)
  BY <1>9, RaisesStep
<1>10. CASE Paused(p)
  BY <1>10, PausedStep
<1>11. CASE EndItem(p)
  BY <1>11, EndItemStep
<1>12. CASE EndLost(p)
  BY <1>12, EndLostStep
<1>13. CASE Seal(p)
  BY <1>13, SealStep
<1>14. CASE SealLost(p)
  BY <1>14, SealLostStep
<1>15. CASE Dispose(p)
  BY <1>15, DisposeStep
<1>16. CASE ResumeWorkload(p)
  BY <1>16, ResumeStep
<1>17. CASE Crash(p)
  BY <1>17, CrashStep
<1>18. QED BY <1>1, <1>2, <1>3, <1>4, <1>5, <1>6, <1>7, <1>8, <1>9, <1>10, <1>11, <1>12,
             <1>13, <1>14, <1>15, <1>16, <1>17 DEF Acts

LEMMA NextIInv == IInv /\ [LedgerNext]_vars => IInv'
<1> SUFFICES ASSUME IInv, [LedgerNext]_vars PROVE IInv'
  OBVIOUS
<1>1. CASE \E p \in Procs : Acts(p)
  BY <1>1, ActsKeepIInv
<1>2. CASE \E i \in ItemIds : Triage(i)
  BY <1>2, TriageStep
<1>3. CASE UNCHANGED vars
  <2>1. UNCHANGED <<runs, items>> /\ UNCHANGED proc /\ halted' \subseteq halted /\ UNCHANGED faults
    BY <1>3 DEF vars
  <2>2. QED BY <2>1, Silent, DriversStand
<1>4. QED BY <1>1, <1>2, <1>3 DEF LedgerNext

LEMMA IInvHolds == LedgerSpec => []IInv
BY InitIInv, NextIInv, PTL DEF LedgerSpec

\* The tables, the drivers and the fences are always what the schema and the loops allow:
\* ids that are positions, counters that are naturals, statuses of the four a run can have.
THEOREM LedgerTypeCorrect == LedgerSpec => []LedgerTypeOK
<1>1. IInv => LedgerTypeOK
  BY DEF IInv
<1>2. QED BY <1>1, IInvHolds, PTL

LEMMA FirstEndsAre ==
  ASSUME NEW r, NEW s PROVE FirstEnds(r, s) = FirstEndsOf(items, r, s)
BY DEF FirstEnds, FirstEndsOf

\* A run's counters are the number of its items that ended so, each counted once, whatever
\* the number of processes that write into the file and however often an id is passed again.
THEOREM EndsAreCountedOnce == LedgerSpec => []CountersMatchEnds
<1>1. IInv => CountersMatchEnds
  BY FirstEndsAre DEF IInv, Books, Book, Tells, CountersMatchEnds
<1>2. QED BY <1>1, IInvHolds, PTL

\* A run closes with the last of its items, neither before nor never, and then says what
\* its items say, by whichever of the two ways, the roll-up and the seal, it closed.
THEOREM RunsTellTheirItems == LedgerSpec => []RunTellsItsItems
<1>1. ASSUME IInv PROVE RunTellsItsItems
  <2> SUFFICES ASSUME NEW r \in RunIds
               PROVE  /\ runs[r].total > 0 =>
                           (runs[r].closed <=>
                              Cardinality({i \in ItemsOf(items, r) : items[i].first # "none"})
                                = runs[r].total)
                      /\ ~runs[r].closed => runs[r].status = "running"
                      /\ runs[r].closed /\ (\A i \in ItemsOf(items, r) : ~items[i].anew)
                           => runs[r].status = ToldByItems(r)
    BY DEF RunTellsItsItems
  <2> DEFINE I == ItemsOf(items, r)
             C == FirstEndsOf(items, r, "completed")
             F == FirstEndsOf(items, r, "failed")
             L == DeadLetters(items, r)
             E == {i \in ItemsOf(items, r) : items[i].first # "none"}
             once == \A i \in ItemsOf(items, r) : ~items[i].anew
  <2>1. Tables /\ Tells(runs[r], I, C, F, L, once)
    BY <1>1, TablesOfIInv DEF IInv, Books, Book, NoneAnew
  <2>2. /\ IsFiniteSet(I) /\ C \in SUBSET I /\ F \in SUBSET I /\ C \cap F = {}
    BY <2>1, ItemSets DEF Tables
  <2>3. E = C \cup F
    <3>1. \A i \in I : items[i].first \in {"completed", "failed", "none"}
      BY <2>1, TablesShape DEF ItemsOf, ItemIds, Item, Ends
    <3>2. QED BY <3>1 DEF FirstEndsOf
  <2>4. ToldByItems(r) = Told(C, F, L)
    BY FirstEndsAre DEF ToldByItems, Told
  <2> HIDE DEF I, C, F, L, E, once
  <2>5. Cardinality(E) = Cardinality(C) + Cardinality(F)
    BY <2>2, <2>3, Sizes
  <2>6. /\ runs[r].total > 0 => (runs[r].closed <=> Cardinality(E) = runs[r].total)
        /\ ~runs[r].closed => runs[r].status = "running"
        /\ runs[r].closed /\ once => runs[r].status = ToldByItems(r)
    BY <2>1, <2>4, <2>5 DEF Tells
  <2>7. QED BY <2>6 DEF E, once
<1>2. QED BY <1>1, IInvHolds, PTL

\* The worst outcome and the count of an item are those of the rows it has, of however many.
THEOREM AggregatesAreOfRows == LedgerSpec => []AggregatesMatchRows
<1>1. IInv => AggregatesMatchRows
  BY DEF IInv
<1>2. QED BY <1>1, IInvHolds, PTL

\* What a step does to an item that has been disposed of.
DecisionStands ==
  \A i \in ItemIds : items[i].disposition # "none" => items'[i].disposition = items[i].disposition

LEMMA InsertsLeaveDecisions ==
  ASSUME IInv, NEW r, NEW from, InsertItem(r, from) PROVE DecisionStands
<1> DEFINE x == NewItem(IF r = 0 THEN Len(runs) + 1 ELSE r, from)
<1>1. items' = Append(items, x)
  BY DEF InsertItem
<1> HIDE DEF x
<1>2. items \in Seq(Item) /\ ItemIds = 1..Len(items)
  BY DEF IInv, LedgerTypeOK, ItemIds
<1>3. \A i \in ItemIds : items'[i] = items[i]
  BY <1>1, <1>2
<1>4. QED BY <1>3 DEF DecisionStands

LEMMA RowsLeaveDecisions ==
  ASSUME IInv, NEW i, NEW token, NEW outcome, items' = Recorded(items, i, token, outcome)
  PROVE  DecisionStands
<1>1. items \in Seq(Item) /\ ItemIds = DOMAIN items /\ \A j \in ItemIds : items[j] \in Item
  BY DEF IInv, LedgerTypeOK, ItemIds
<1> DEFINE row == [token |-> token, outcome |-> outcome]
           x == [items[i] EXCEPT !.rows = Append(@, row), !.worst = Worse(outcome, @),
                                 !.degraded = IF outcome = "ok" THEN @ ELSE @ + 1]
<1>2. items' = items \/ items' = [items EXCEPT ![i] = x]
  BY DEF Recorded
<1>3. i \in ItemIds => x.disposition = items[i].disposition
  BY <1>1 DEF Item
<1> HIDE DEF x
<1>4. QED BY <1>1, <1>2, <1>3 DEF DecisionStands

LEMMA EndsLeaveDecisions ==
  ASSUME IInv, NEW i, NEW s, EndsWith(i, s) PROVE DecisionStands
<1>1. items \in Seq(Item) /\ ItemIds = DOMAIN items /\ \A j \in ItemIds : items[j] \in Item
  BY DEF IInv, LedgerTypeOK, ItemIds
<1> DEFINE x == [items[i] EXCEPT !.status = s, !.first = IF @ = "none" THEN s ELSE @,
                                 !.anew = @ \/ items[i].status \in Ends]
<1>2. items' = [items EXCEPT ![i] = x]
  BY DEF EndsWith
<1>3. i \in ItemIds => x.disposition = items[i].disposition
  BY <1>1 DEF Item
<1> HIDE DEF x
<1>4. QED BY <1>1, <1>2, <1>3 DEF DecisionStands

\* A second decision is none: it finds that the letter has one.
LEMMA ResolvesLeaveDecisions ==
  ASSUME IInv, NEW i, NEW how, Resolve(i, how) PROVE DecisionStands
<1>1. items \in Seq(Item) /\ ItemIds = DOMAIN items
  BY DEF IInv, LedgerTypeOK, ItemIds
<1>2. \/ items' = items
      \/ items[i].disposition = "none" /\ items' = [items EXCEPT ![i].disposition = how]
  BY DEF Resolve, Disposed
<1>3. \A j \in ItemIds : j # i \/ items[i].disposition # "none" => items'[j] = items[j]
  BY <1>1, <1>2
<1>4. QED BY <1>3 DEF DecisionStands

LEMMA StandsUnchanged == UNCHANGED items => DecisionStands
BY DEF DecisionStands

LEMMA ActsLeaveDecisions ==
  ASSUME IInv, NEW p \in Procs, Acts(p) PROVE DecisionStands
<1>1. CASE Call(p) \/ OpenItem(p)
  BY <1>1, InsertsLeaveDecisions DEF Call, OpenItem
<1>2. CASE \E i \in ItemIds : Replay(p, i) \/ Reenter(p, i)
  BY <1>2, InsertsLeaveDecisions, StandsUnchanged DEF Replay, Reenter
<1>3. CASE \E o \in Verdicts : Step(p, o) \/ Mark(p, o)
  BY <1>3, RowsLeaveDecisions DEF Step, Mark, Saved
<1>4. CASE Raises(p) \/ Paused(p)
  BY <1>4, RowsLeaveDecisions, StandsUnchanged DEF Raises, Failed, Saved, Paused
<1>5. CASE EndItem(p)
  <2>1. EndsWith(proc[p].item, proc[p].verdict)
    BY <1>5 DEF EndItem, EndsWith
  <2>2. QED BY <2>1, EndsLeaveDecisions
<1>6. CASE Dispose(p)
  BY <1>6, ResolvesLeaveDecisions DEF Dispose
<1>7. CASE \/ Map(p) \/ LoopEnds(p) \/ (\E r \in RunIds : ReplaySlice(p, r)) \/ Returns(p)
           \/ EndLost(p) \/ Seal(p) \/ SealLost(p) \/ ResumeWorkload(p) \/ Crash(p)
  BY <1>7, StandsUnchanged DEF Map, LoopEnds, ReplaySlice, Returns, EndLost, Seal, SealLost,
       ResumeWorkload, Crash
<1>8. QED BY <1>1, <1>2, <1>3, <1>4, <1>5, <1>6, <1>7 DEF Acts

\* A dead letter's disposition, once decided, is never decided anew: not by a replay that
\* read the letter before an operator skipped it, nor by an end of the item that comes later.
THEOREM DispositionsAreFinal == LedgerSpec => DispositionIsFinal
<1>1. ASSUME IInv, [LedgerNext]_vars PROVE [DecisionStands]_vars
  <2>1. CASE \E p \in Procs : Acts(p)
    BY <1>1, <2>1, ActsLeaveDecisions
  <2>2. CASE \E i \in ItemIds : Triage(i)
    BY <1>1, <2>2, ResolvesLeaveDecisions DEF Triage
  <2>3. CASE UNCHANGED vars
    BY <2>3
  <2>4. QED BY <1>1, <2>1, <2>2, <2>3 DEF LedgerNext
<1>2. (DecisionStands <=> \A i \in ItemIds : items[i].disposition # "none" =>
                            items'[i].disposition = items[i].disposition)
  BY DEF DecisionStands
<1>3. QED BY <1>1, <1>2, IInvHolds, PTL DEF LedgerSpec, DispositionIsFinal

================================================================================
