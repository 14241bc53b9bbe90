-------------------------------- MODULE Ledger --------------------------------
(***************************************************************************)
(* The local ledger (durable/sqlite_store.py) and what drives items into    *)
(* it: map and iter (iterators.py), direct calls, the replay of one dead    *)
(* letter and of a run's not-ok slice (durable/_replay.py), an operator's   *)
(* triage, and the re-entry of an item by its id.                           *)
(*                                                                         *)
(* Processes share one database file.  A `with self._conn` block is one     *)
(* step, taken together with the read before it; a commit may fail because  *)
(* the file stays locked past busy_timeout, and a process may die anywhere. *)
(* Ids are positions in the two tables: a row is only ever added.  The      *)
(* fences' memory is the process's.  An item is driven by one process at a  *)
(* time.                                                                   *)
(***************************************************************************)
EXTENDS Naturals, Sequences, FiniteSets, SequencesExt

CONSTANTS
  Procs,        \* the processes that have the file open
  Batch,        \* bound: records a map or iter is given
  PauseAfter,   \* K: consecutive degraded steps that pause an item
  Window,       \* the workload fence looks at so many ended items ...
  MinDegraded,  \* ... and trips when so many of them are not ok
  Verdicts,     \* the outcomes a body's own rows get
  MaxItems,     \* bound: item rows
  MaxRuns,      \* bound: run rows minted open or by a slice while there are fewer
  MaxRows,      \* bound: a body saves a row while the ledger has fewer
  MaxFaults     \* bound: crashes, failed commits and items passed again

ASSUME LedgerAssumption ==
  /\ Verdicts \subseteq {"ok", "degraded", "failed"}
  /\ Batch \in Nat /\ PauseAfter \in Nat \ {0}
  /\ Window \in Nat /\ MinDegraded \in Nat \ {0}
  /\ MaxItems \in Nat /\ MaxRuns \in Nat /\ MaxRows \in Nat /\ MaxFaults \in Nat

VARIABLES
  runs,    \* the runs table
  items,   \* the items table, each row with its steps
  proc,    \* what each process is at
  halted,  \* the processes whose workload fence has tripped
  faults   \* how many faults happened

vars == <<runs, items, proc, halted, faults>>

Outcomes == {"ok", "degraded", "failed"}
Ends == {"completed", "failed"}
Severity == [ok |-> 0, degraded |-> 1, failed |-> 2]
Worse(a, b) == IF Severity[a] > Severity[b] THEN a ELSE b

Run == [total : Nat, completed : Nat, failed : Nat, from : Nat,
        status : Ends \cup {"running", "partial"}, closed : BOOLEAN]

Item == [run : Nat, status : Ends \cup {"running"},
         worst : Outcomes, degraded : Nat,
         rows : Seq([token : {"step", "mark"} \X Nat, outcome : Outcomes]),
         disposition : {"none", "replayed", "triaged"}, from : Nat,
         first : Ends \cup {"none"},  \* history: the status it first ended with
         anew : BOOLEAN]  \* history: it ended more than once

\* A record a driver still has: the item it was, if any, and whether that was an
\* untriaged dead letter when the driver read it.
Record == [of : Nat, letter : BOOLEAN]
Fresh == [of |-> 0, letter |-> FALSE]

\* What a process drives: the records it still has and the one it is at, the run
\* it owns, the item in hand, the verdict its body left, whether the item's fence
\* has tripped, and the marks of this pass.
Driver == [at : {"idle", "next", "body", "end", "dispose", "seal"},
           by : {"none", "map", "call", "replay", "slice"},
           left : Seq(Record), record : Record, run : Nat, item : Nat,
           verdict : Ends,
           pending : BOOLEAN, marks : Nat]

Idle == [at |-> "idle", by |-> "none", left |-> <<>>, record |-> Fresh, run |-> 0,
         item |-> 0, verdict |-> "completed", pending |-> FALSE, marks |-> 0]

NewRun(total, from) == [total |-> total, completed |-> 0, failed |-> 0, from |-> from,
                        status |-> "running", closed |-> FALSE]

NewItem(r, from) == [run |-> r, status |-> "running", worst |-> "ok", degraded |-> 0,
               rows |-> <<>>, disposition |-> "none", from |-> from,
               first |-> "none", anew |-> FALSE]

ItemIds == 1..Len(items)
RunIds == 1..Len(runs)
ItemsOf(its, r) == {i \in DOMAIN its : its[i].run = r}
DeadLetters(its, r) ==
  {i \in ItemsOf(its, r) : its[i].status = "failed" /\ its[i].disposition = "none"}

-----------------------------------------------------------------------------
(* The run row's own rules. *)

\* The roll-up: once every item has ended, never while the run is open.
Due(run) == ~run.closed /\ run.total > 0 /\ run.completed + run.failed >= run.total

RolledUp(run) ==
  IF ~Due(run) THEN run
  ELSE [run EXCEPT !.closed = TRUE,
                   !.status = IF run.failed = 0 THEN "completed"
                              ELSE IF run.completed = 0 THEN "failed" ELSE "partial"]

Promoted(run, letters) ==
  IF run.status = "partial" /\ letters = {}
  THEN [run EXCEPT !.status = "completed"] ELSE run

\* (mutant) An end is counted whatever the item was before.
MutEndedTwice(rs, its, i, prior, s) ==
  LET r == its[i].run
      counted == IF s = "completed" THEN [rs[r] EXCEPT !.completed = @ + 1]
                                    ELSE [rs[r] EXCEPT !.failed = @ + 1]
  IN [rs EXCEPT ![r] = Promoted(RolledUp(counted), DeadLetters(its, r))]

\* The runs table after item i of its ends with status s, having been prior.
Ended(rs, its, i, prior, s) ==
  LET r == its[i].run
      counted == IF s = "completed" THEN [rs[r] EXCEPT !.completed = @ + 1]
                                    ELSE [rs[r] EXCEPT !.failed = @ + 1]
  IN IF prior \in Ends THEN rs
     ELSE [rs EXCEPT ![r] = Promoted(RolledUp(counted), DeadLetters(its, r))]

\* (mutant) Sealing leaves the roll-up to the next end.
MutSealedOnly(run, size) ==
  IF size = 0 THEN [run EXCEPT !.status = "completed", !.closed = TRUE]
  ELSE [run EXCEPT !.total = size]

Sealed(run, size) ==
  LET sized == RolledUp([run EXCEPT !.total = size])
  IN IF sized.total = 0 /\ ~sized.closed
     THEN [sized EXCEPT !.status = "completed", !.closed = TRUE] ELSE sized

-----------------------------------------------------------------------------
(* Opening items. *)

Free(p) == proc[p].at = "idle"
Driven(i) == \E p \in Procs : proc[p].at \in {"body", "end"} /\ proc[p].item = i

\* An item row of run r, or of an implicit run of one when r is 0.
InsertItem(r, from) ==
  /\ Len(items) < MaxItems
  /\ items' = Append(items, NewItem(IF r = 0 THEN Len(runs) + 1 ELSE r, from))
  /\ runs' = IF r = 0 THEN Append(runs, NewRun(1, 0)) ELSE runs

Fault == faults < MaxFaults /\ faults' = faults + 1
InBody(p, d) == proc' = [proc EXCEPT ![p] = [d EXCEPT !.at = "body", !.item = Len(items) + 1,
                                                      !.pending = FALSE, !.marks = 0]]

\* map and iter mint their run open, with no total; a mint that fails is logged,
\* and every item gets a run of its own.
Iterate(p, d) ==
  \/ /\ Len(runs) < MaxRuns
     /\ runs' = Append(runs, NewRun(0, 0))
     /\ proc' = [proc EXCEPT ![p] = [d EXCEPT !.at = "next", !.by = "map", !.run = Len(runs) + 1]]
     /\ UNCHANGED faults
  \/ /\ Fault
     /\ proc' = [proc EXCEPT ![p] = [d EXCEPT !.at = "next", !.by = "map"]]
     /\ UNCHANGED runs

Map(p) ==
  /\ Free(p)
  /\ \E size \in 0..Batch : Iterate(p, [Idle EXCEPT !.left = [n \in 1..size |-> Fresh]])
  /\ UNCHANGED <<items, halted>>

\* A direct call of an agent: a run of one.
Call(p) ==
  /\ Free(p)
  /\ InsertItem(0, 0)
  /\ InBody(p, [Idle EXCEPT !.by = "call"])
  /\ UNCHANGED <<halted, faults>>

\* replay(): the item's row is read and the connection closed again.  A handler is
\* driven through iter over one record, a registration is called directly; neither
\* puts its fresh item into the source's run, or links it to its source.
Replay(p, i) ==
  /\ Free(p)
  /\ items[i].status = "failed" /\ items[i].disposition = "none"
  /\ LET d == [Idle EXCEPT !.record = [of |-> i, letter |-> TRUE]]
     IN \/ InsertItem(0, 0) /\ InBody(p, [d EXCEPT !.by = "replay"]) /\ UNCHANGED faults
        \/ Iterate(p, [d EXCEPT !.left = <<Fresh>>]) /\ UNCHANGED items
  /\ UNCHANGED halted

NotOk(r) == {i \in ItemsOf(items, r) : items[i].worst # "ok"}

\* The run's items that are not ok, in their order: there is one such sequence.
Slices(r) ==
  {[n \in DOMAIN chosen |-> [of |-> chosen[n], letter |-> chosen[n] \in DeadLetters(items, r)]] :
     chosen \in {s \in [1..Cardinality(NotOk(r)) -> NotOk(r)] :
                   \A m, n \in DOMAIN s : m < n => s[m] < s[n]}}

\* replay_slice(): the items are selected, then a run of that many is minted.
ReplaySlice(p, r) ==
  /\ Free(p)
  /\ NotOk(r) # {} /\ Len(runs) < MaxRuns
  /\ \E slice \in Slices(r) :
       /\ runs' = Append(runs, NewRun(Len(slice), r))
       /\ proc' = [proc EXCEPT ![p] = [Idle EXCEPT !.at = "next", !.by = "slice",
                                         !.left = slice, !.run = Len(runs) + 1]]
  /\ UNCHANGED <<items, halted, faults>>

\* The caller passes an item's id again: its checkpoints are loaded, and the call
\* goes on under the row that is there.
Reenter(p, i) ==
  /\ Free(p) /\ ~Driven(i) /\ Fault
  /\ proc' = [proc EXCEPT ![p] = [Idle EXCEPT !.at = "body", !.by = "call", !.item = i]]
  /\ UNCHANGED <<runs, items, halted>>

\* iter alone asks the workload fence, which a replay's own store has never seen trip.
Stopped(p) == proc[p].by = "map" /\ ~proc[p].record.letter /\ p \in halted

\* The driver's next record.
OpenItem(p) ==
  /\ proc[p].at = "next" /\ proc[p].left # <<>> /\ ~Stopped(p)
  /\ LET d == proc[p]
         slice == d.by = "slice"
     IN /\ InsertItem(d.run, IF slice THEN Head(d.left).of ELSE 0)
        /\ InBody(p, [d EXCEPT !.left = Tail(@),
                               !.record = IF slice THEN Head(d.left) ELSE @])
  /\ UNCHANGED <<halted, faults>>

\* A driver that opens no further item: iter seals its run on the way out, and a
\* replay disposes of its source.
Over(d) == IF d.by # "slice" /\ d.record.letter THEN [d EXCEPT !.at = "dispose"] ELSE Idle

LoopEnds(p) ==
  /\ proc[p].at = "next"
  /\ \/ (proc[p].left = <<>> \/ Stopped(p)) /\ UNCHANGED faults
     \/ Fault  \* the insert fails, and init() raises out of the loop
  /\ proc' = [proc EXCEPT ![p] = IF @.by = "map" /\ @.run # 0
                                 THEN [@ EXCEPT !.at = "seal", !.left = <<>>, !.item = 0]
                                 ELSE Over(@)]
  /\ UNCHANGED <<runs, items, halted>>

-----------------------------------------------------------------------------
(* The body's checkpoints. *)

\* (mutant) The aggregates take a row in before the guard finds it.
MutRecordedTwice(its, i, token, outcome) ==
  [its EXCEPT ![i].rows = IF \E n \in DOMAIN @ : @[n].token = token THEN @
                          ELSE Append(@, [token |-> token, outcome |-> outcome]),
              ![i].worst = Worse(outcome, @),
              ![i].degraded = IF outcome = "ok" THEN @ ELSE @ + 1]

\* The item after a row is saved: a row under a token it has is not saved again.
Recorded(its, i, token, outcome) ==
  IF \E n \in DOMAIN its[i].rows : its[i].rows[n].token = token THEN its
  ELSE [its EXCEPT ![i].rows = Append(@, [token |-> token, outcome |-> outcome]),
                   ![i].worst = Worse(outcome, @),
                   ![i].degraded = IF outcome = "ok" THEN @ ELSE @ + 1]

Streak(rows) ==
  /\ Len(rows) >= PauseAfter
  /\ \A n \in (Len(rows) - PauseAfter + 1)..Len(rows) : rows[n].outcome # "ok"

\* The run-level fence is looked at when a row that is not ok was saved.
Tripped(d, before, after) ==
  \/ d.pending
  \/ /\ before[d.item] # after[d.item]
     /\ Last(after[d.item].rows).outcome # "ok"
     /\ Streak(after[d.item].rows)

Saved(p, d, token, outcome) ==
  LET its == Recorded(items, d.item, token, outcome)
  IN /\ items' = its
     /\ proc' = [proc EXCEPT ![p] = [d EXCEPT !.pending = Tripped(d, items, its)]]

RoomForRow == Cardinality(UNION {{i} \X DOMAIN items[i].rows : i \in ItemIds}) < MaxRows
StepsOf(i) == {n \in DOMAIN items[i].rows : items[i].rows[n].token[1] = "step"}

\* A step ran and is checkpointed: an execution of its own, under its own token.
Step(p, outcome) ==
  /\ proc[p].at = "body" /\ ~proc[p].pending
  /\ RoomForRow
  /\ Saved(p, proc[p], <<"step", Cardinality(StepsOf(proc[p].item)) + 1>>, outcome)
  /\ UNCHANGED <<runs, halted, faults>>

\* mark_degraded or mark_outcome: named after its place in this pass.
Mark(p, outcome) ==
  /\ proc[p].at = "body"
  /\ RoomForRow /\ proc[p].marks < MaxRows
  /\ Saved(p, [proc[p] EXCEPT !.marks = @ + 1], <<"mark", proc[p].marks + 1>>, outcome)
  /\ UNCHANGED <<runs, halted, faults>>

Returns(p) ==
  /\ proc[p].at = "body"
  /\ proc' = [proc EXCEPT ![p] = [@ EXCEPT !.at = "end", !.verdict = "completed"]]
  /\ UNCHANGED <<runs, items, halted, faults>>

\* The body's exception is caught: it ends the loop of map and iter, and not that of a
\* slice.
Caught(d) == [d EXCEPT !.at = "end", !.verdict = "failed", !.marks = @ + 1,
                       !.left = IF d.by = "map" THEN <<>> ELSE @]

\* A mark that says so, then fail().
Failed(p) == Saved(p, Caught(proc[p]), <<"mark", proc[p].marks + 1>>, "failed")

Raises(p) ==
  /\ proc[p].at = "body"
  /\ Failed(p)
  /\ UNCHANGED <<runs, halted, faults>>

\* A driver between two items.
Between(d) == [d EXCEPT !.at = "next", !.item = 0, !.verdict = "completed",
                        !.pending = FALSE, !.marks = 0]

\* The call goes on under nobody: its row stays as it is.
LeftRunning(p) == proc' = [proc EXCEPT ![p] =
                             IF @.by = "replay" THEN [Between(@) EXCEPT !.at = "dispose"] ELSE Idle]

\* The fence has tripped and the body comes to its next step: WorkloadPaused.  A
\* direct call lets it pass.  A slice catches it with every other Exception, and
\* the generator of iter is closed with GeneratorExit, which is what it then sees
\* as the exception it handles.
Paused(p) ==
  /\ proc[p].at = "body" /\ proc[p].pending
  /\ \/ /\ proc[p].by \in {"call", "replay"}
        /\ LeftRunning(p)
        /\ UNCHANGED items
     \/ /\ proc[p].by \in {"map", "slice"}
        /\ items' = Recorded(items, proc[p].item, <<"mark", proc[p].marks + 1>>, "failed")
        /\ proc' = [proc EXCEPT ![p] = Caught(@)]
  /\ UNCHANGED <<runs, halted, faults>>

-----------------------------------------------------------------------------
(* The end of an item. *)

AfterItem(d) ==
  IF d.by = "map" \/ (d.by = "slice" /\ ~d.record.letter)
  THEN Between(d)
  ELSE IF d.by = "call" THEN Idle ELSE [Between(d) EXCEPT !.at = "dispose"]

\* The last ended items of the agent, newest first.
Recent(its) ==
  LET ended == {i \in DOMAIN its : its[i].status \in Ends}
  IN {i \in ended : Cardinality({j \in ended : j > i}) < Window}

Degrading(its) ==
  LET bad == {i \in Recent(its) : its[i].worst # "ok"}
  IN /\ Cardinality(bad) >= MinDegraded
     /\ Cardinality(bad) * 2 >= Cardinality(Recent(its))

\* set_status.  What the item was is read before the transaction: of an item that
\* one process drives, nobody else changes that.
EndItem(p) ==
  /\ proc[p].at = "end"
  /\ LET d == proc[p]
         its == [items EXCEPT ![d.item].status = d.verdict,
                              ![d.item].first = IF @ = "none" THEN d.verdict ELSE @,
                              ![d.item].anew = @ \/ items[d.item].status \in Ends]
     IN /\ items' = its
        /\ runs' = Ended(runs, its, d.item, items[d.item].status, d.verdict)
        /\ halted' = IF d.by = "map" /\ ~d.record.letter /\ items[d.item].status \notin Ends /\ Degrading(its)
                     THEN halted \cup {p} ELSE halted
        /\ proc' = [proc EXCEPT ![p] = AfterItem(d)]
  /\ UNCHANGED faults

\* The commit fails; every driver logs or swallows it and goes on.
EndLost(p) ==
  /\ proc[p].at = "end"
  /\ Fault
  /\ proc' = [proc EXCEPT ![p] = AfterItem(@)]
  /\ UNCHANGED <<runs, items, halted>>

\* finalize_run: the run is sealed with the items it has.
Seal(p) ==
  /\ proc[p].at = "seal"
  /\ LET r == proc[p].run
     IN runs' = [runs EXCEPT ![r] = Promoted(Sealed(@, Cardinality(ItemsOf(items, r))),
                                             DeadLetters(items, r))]
  /\ proc' = [proc EXCEPT ![p] = Over(@)]
  /\ UNCHANGED <<items, halted, faults>>

SealLost(p) ==
  /\ proc[p].at = "seal"
  /\ Fault
  /\ proc' = [proc EXCEPT ![p] = Over(@)]
  /\ UNCHANGED <<runs, items, halted>>

-----------------------------------------------------------------------------
(* Dead letters. *)

\* (mutant) Whatever was decided of it before.
MutDisposedAgain(its, i, how) ==
  IF its[i].status = "failed" THEN [its EXCEPT ![i].disposition = how] ELSE its

\* mark_dlq_disposition: of a dead letter nobody has resolved yet.
Disposed(its, i, how) ==
  IF its[i].status = "failed" /\ its[i].disposition = "none"
  THEN [its EXCEPT ![i].disposition = how] ELSE its

Resolve(i, how) ==
  LET its == Disposed(items, i, how)
      r == items[i].run
  IN /\ items' = its
     /\ runs' = [runs EXCEPT ![r] = Promoted(@, DeadLetters(its, r))]

\* The source of a replay is disposed of when the replay is over, however it went.
Dispose(p) ==
  /\ proc[p].at = "dispose"
  /\ Resolve(proc[p].record.of, "replayed")
  /\ proc' = [proc EXCEPT ![p] = IF @.by = "slice" THEN [@ EXCEPT !.at = "next"] ELSE Idle]
  /\ UNCHANGED <<halted, faults>>

\* An operator skips or acknowledges it.
Triage(i) ==
  /\ items[i].status = "failed" /\ items[i].disposition = "none"
  /\ Resolve(i, "triaged")
  /\ UNCHANGED <<proc, halted, faults>>

\* resume_workload: the operator lifts the workload fence.
ResumeWorkload(p) ==
  /\ p \in halted
  /\ halted' = halted \ {p}
  /\ UNCHANGED <<runs, items, proc, faults>>

\* The process dies; what it kept in memory is gone.
Crash(p) ==
  /\ ~Free(p)
  /\ Fault
  /\ proc' = [proc EXCEPT ![p] = Idle]
  /\ halted' = halted \ {p}
  /\ UNCHANGED <<runs, items>>

-----------------------------------------------------------------------------
LedgerInit ==
  /\ runs = <<>> /\ items = <<>>
  /\ proc = [p \in Procs |-> Idle]
  /\ halted = {} /\ faults = 0

Acts(p) ==
  \/ Map(p) \/ Call(p) \/ OpenItem(p) \/ LoopEnds(p)
  \/ (\E i \in ItemIds : Replay(p, i) \/ Reenter(p, i))
  \/ (\E r \in RunIds : ReplaySlice(p, r))
  \/ (\E o \in Verdicts : Step(p, o) \/ Mark(p, o))
  \/ Returns(p) \/ Raises(p) \/ Paused(p)
  \/ EndItem(p) \/ EndLost(p) \/ Seal(p) \/ SealLost(p)
  \/ Dispose(p) \/ ResumeWorkload(p) \/ Crash(p)

LedgerNext == (\E p \in Procs : Acts(p)) \/ (\E i \in ItemIds : Triage(i))

LedgerSpec == LedgerInit /\ [][LedgerNext]_vars
-----------------------------------------------------------------------------
(* What must hold. *)

\* Every row is what the schema's columns and the drivers allow.
LedgerTypeOK ==
  /\ runs \in Seq(Run) /\ items \in Seq(Item)
  /\ proc \in [Procs -> Driver]
  /\ halted \subseteq Procs /\ faults \in 0..MaxFaults

FirstEnds(r, s) == {i \in ItemsOf(items, r) : items[i].first = s}

\* A run's counters are the number of its items that ended so, each counted once,
\* however often its id is passed again and whichever commits were lost (set_status).
CountersMatchEnds ==
  \A r \in RunIds :
    /\ runs[r].completed = Cardinality(FirstEnds(r, "completed"))
    /\ runs[r].failed = Cardinality(FirstEnds(r, "failed"))

\* What a run's status should be, told from its items alone.
ToldByItems(r) ==
  IF FirstEnds(r, "failed") = {} THEN "completed"
  ELSE IF FirstEnds(r, "completed") = {} THEN "failed"
  ELSE IF DeadLetters(items, r) # {} THEN "partial" ELSE "completed"

\* A run closes when the last of its items ends, neither before nor never, and what
\* it then says is told by its items: partial exactly as long as a dead letter is
\* left, whether that was resolved before the run was sealed, between two ends, or
\* after the roll-up.  It speaks of runs none of whose ended items was ended anew.
RunTellsItsItems ==
  \A r \in RunIds :
    /\ runs[r].total > 0 =>
         (runs[r].closed <=>
            Cardinality({i \in ItemsOf(items, r) : items[i].first # "none"}) = runs[r].total)
    /\ ~runs[r].closed => runs[r].status = "running"
    /\ runs[r].closed /\ (\A i \in ItemsOf(items, r) : ~items[i].anew)
         => runs[r].status = ToldByItems(r)

\* An item's worst outcome and its count are those of its rows, whatever was saved
\* a second time under a token the item has (save_task's incremental aggregates).
AggregatesMatchRows ==
  \A i \in ItemIds :
    LET outcomes == {items[i].rows[n].outcome : n \in DOMAIN items[i].rows}
    IN /\ items[i].worst \in outcomes \cup {"ok"}
       /\ \A o \in outcomes : Severity[o] <= Severity[items[i].worst]
       /\ items[i].degraded =
            Cardinality({n \in DOMAIN items[i].rows : items[i].rows[n].outcome # "ok"})

\* What an operator or a replay decided about a dead letter is never overwritten by
\* another whose look at it is older (mark_dlq_disposition).
DispositionIsFinal ==
  [][\A i \in ItemIds : items[i].disposition # "none" =>
       items'[i].disposition = items[i].disposition]_vars

================================================================================
