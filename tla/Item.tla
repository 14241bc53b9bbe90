--------------------------------- MODULE Item ---------------------------------
(***************************************************************************)
(* One durable item (durable/run.py): the body of an agent function whose    *)
(* steps are checkpointed, executed in passes.  A crash, a lost lease or a   *)
(* pause ends a pass; the next one loads the checkpoints, runs the body from *)
(* the top and is handed the recorded results of the calls it recognises.    *)
(*                                                                           *)
(* The body is a sequence of calls, the same in every pass: that is the      *)
(* contract of the Item docstring.  Calls start in order; under asyncio a    *)
(* call may start before an earlier one returned (Waits says which must      *)
(* have).  The checkpoint store is abstracted to what CloudStore promises: a *)
(* save arrives, is journaled and arrives at any later time or never, or is  *)
(* refused and raises.  The control plane's fence may pause the item when a  *)
(* degraded checkpoint arrives; it records which executions it counted.      *)
(***************************************************************************)
EXTENDS Naturals, Sequences, FiniteSets, FiniteSetsExt

CONSTANTS
  NumCalls,   \* calls of the body
  StepOf,     \* the step each call names
  RecordOf,   \* the record it passes as item_id, or the item's own
  Waits,      \* the earlier calls that must have returned before it starts
  Document,   \* the item's own record: a step under it aggregates the others
  Copied,     \* <<label, record>> of the checkpoints copied from the run this one replays
  MaxFaults   \* bound: crashes, journaled and refused saves, raises, pauses

Calls == 1..NumCalls
Steps == {StepOf[i] : i \in Calls}
Records == {RecordOf[i] : i \in Calls}
\* The key of a step's n-th call in a pass: "label", "label#2", ...
Labels == Steps \X Calls

ASSUME ItemAssumption ==
  /\ NumCalls \in Nat /\ MaxFaults \in Nat
  /\ Copied \subseteq Labels \X Records
  /\ \A i \in Calls : Waits[i] \subseteq 1..(i - 1)
  \* The server copies no two checkpoints of one step under one record.
  /\ \A c, d \in Copied : c[1][1] = d[1][1] /\ c[2] = d[2] => c = d

VARIABLES
  rows,         \* external: the checkpoints the server has
  late,         \* saves that sit in a journal
  status,       \* external: the run's status on the server
  invalidated,  \* external: the (label, attempt) pairs the fence counted when it paused
  pauses,       \* history: how often it did
  pass,         \* what the Item object of the running pass holds
  seen,         \* history: the checkpoints this pass loaded
  clock,        \* the time: how many executions returned
  faults        \* how many faults happened

vars == <<rows, late, status, invalidated, pauses, pass, seen, clock, faults>>

Row == [label : Labels, record : Records, attempt : Nat, at : Nat,
        copied : BOOLEAN, degraded : BOOLEAN,
        era : Nat]  \* history: how many pauses there had been when its pass began

CopiedRow(c) == [label |-> c[1], record |-> c[2], attempt |-> 1, at |-> 0,
                 copied |-> TRUE, degraded |-> FALSE, era |-> 0]

\* What a call came back with: nothing yet, an exception, or a row's result.
Pending == [kind |-> "todo"]
Running == [kind |-> "running"]
Raised == [kind |-> "raised"]
Result(kind, r) == [kind |-> kind, row |-> r]

NoPass == [live |-> FALSE, era |-> 0, cache |-> {}, reuse |-> {}, executed |-> FALSE,
           attempts |-> [l \in Labels |-> 0], occurrences |-> [s \in Steps |-> 0],
           fenced |-> FALSE, raised |-> "no", call |-> [i \in Calls |-> Pending],
           label |-> [i \in Calls |-> <<StepOf[i], 1>>]]

Fault == faults < MaxFaults /\ faults' = faults + 1
NoFault == UNCHANGED faults

ItemInit ==
  /\ rows = {CopiedRow(c) : c \in Copied}
  /\ late = {} /\ status = "running" /\ invalidated = {} /\ pauses = 0
  /\ pass = NoPass /\ seen = {} /\ clock = 0 /\ faults = 0

--------------------------------------------------------------------------------
(* Hydration.                                                                 *)

\* The highest attempt recorded for a label: max, not count.
Top(rs, l) == Max({0} \cup {r.attempt : r \in {q \in rs : q.label = l}})

Later(r, q) == r.attempt > q.attempt \/ (r.attempt = q.attempt /\ r.at >= q.at)
LatestPerLabel(rs) == {r \in rs : \A q \in rs : q.label = r.label => Later(r, q)}

MutCountedByLabel(r) == \E pair \in invalidated : pair[1] = r.label
MutCountedNever(r) == FALSE
Counted(r) == <<r.label, r.attempt>> \in invalidated

MutSeedsFromCache(kept) == [l \in Labels |-> Top(kept, l)]
\* _attempts is seeded from everything that was loaded, whatever the cache keeps of it.
Seeds(kept) == [l \in Labels |-> Top(rows, l)]

MutFencedByOldStore == pauses > 0
\* A pass makes a store of its own: what the last one was told of a pause is forgotten.
FencedAtStart == FALSE

Begin ==
  /\ ~pass.live /\ status = "running"
  /\ LET kept == {r \in LatestPerLabel(rows) : ~Counted(r)} IN
     pass' = [NoPass EXCEPT !.live = TRUE, !.era = pauses, !.fenced = FencedAtStart,
                            !.cache = kept, !.reuse = {r \in kept : r.copied},
                            !.attempts = Seeds(kept)]
  /\ seen' = rows
  /\ NoFault /\ UNCHANGED <<rows, late, status, invalidated, pauses, clock>>

--------------------------------------------------------------------------------
(* A call: the pause fence, its label, the two-tier lookup, or its execution. *)

Is(i, kind) == pass.call[i].kind = kind
Returned(i) == ~Is(i, "todo") /\ ~Is(i, "running")

Reaches(i) ==
  /\ pass.live /\ pass.raised = "no" /\ Is(i, "todo")
  /\ \A j \in 1..(i - 1) : ~Is(j, "todo")
  /\ \A j \in Waits[i] : Returned(j)

StoppedByFence(i) ==
  /\ Reaches(i) /\ pass.fenced
  /\ pass' = [pass EXCEPT !.raised = "released"]
  /\ NoFault /\ UNCHANGED <<rows, late, status, invalidated, pauses, seen, clock>>

NextLabel(i) == <<StepOf[i], pass.occurrences[StepOf[i]] + 1>>
Occurs(i) == [pass.occurrences EXCEPT ![StepOf[i]] = @ + 1]

\* Tier 1: a copied result is found by its record alone, and one that aggregates the others
\* only while this pass has executed nothing.
ByRecord(i) ==
  {r \in pass.reuse : /\ r.label[1] = StepOf[i] /\ r.record = RecordOf[i]
                      /\ r.record = Document => ~pass.executed}
MutByPositionAny(i) == {r \in pass.cache : r.label = NextLabel(i)}
\* Tier 2: this run's own result is found by its label.
ByPosition(i) == {r \in pass.cache : r.label = NextLabel(i) /\ ~r.copied}

Found(i) == IF ByRecord(i) # {} THEN ByRecord(i) ELSE ByPosition(i)

Hit(i) ==
  /\ Reaches(i) /\ ~pass.fenced
  /\ \E r \in Found(i) :
       pass' = [pass EXCEPT !.call[i] = Result("hit", r), !.occurrences = Occurs(i)]
  /\ NoFault /\ UNCHANGED <<rows, late, status, invalidated, pauses, seen, clock>>

Execute(i) ==
  /\ Reaches(i) /\ ~pass.fenced /\ Found(i) = {}
  /\ pass' = [pass EXCEPT !.executed = TRUE, !.call[i] = Running,
                          !.occurrences = Occurs(i), !.label[i] = NextLabel(i)]
  /\ NoFault /\ UNCHANGED <<rows, late, status, invalidated, pauses, seen, clock>>

--------------------------------------------------------------------------------
(* The control plane takes a checkpoint.                                      *)

\* The row's key derives from the execution token: "label|1" for a first execution, a fresh
\* uuid for every other one.
Token(r) == <<r.label, r.copied, IF r.attempt = 1 THEN 0 ELSE r.at>>

\* external: a re-delivery is the same row, and a degraded one may trip the fence.
Accept(r) ==
  LET new == \A q \in rows : Token(q) # Token(r)
      stored == IF new THEN rows \cup {r} ELSE rows
  IN /\ rows' = stored
     /\ \/ UNCHANGED <<status, invalidated, pauses, faults>>
        \/ /\ new /\ r.degraded /\ status = "running" /\ Fault
           /\ status' = "paused" /\ pauses' = pauses + 1
           /\ \E others \in SUBSET {q \in rows : q.degraded} :
                invalidated' = {<<q.label, q.attempt>> : q \in others \cup {r}}

\* The answer to a save tells its pass that the run is paused.
Told == pass.fenced \/ status' = "paused"

ArrivesLate(r) ==
  /\ r \in late /\ late' = late \ {r}
  /\ Accept(r)
  /\ pass' \in {pass, [pass EXCEPT !.fenced = pass.live /\ Told]}
  /\ UNCHANGED <<seen, clock>>

--------------------------------------------------------------------------------
(* The step's function returns or raises.                                     *)

Executed(i, degraded) ==
  [label |-> pass.label[i], record |-> RecordOf[i],
   attempt |-> pass.attempts[pass.label[i]] + 1, at |-> clock + 1,
   copied |-> FALSE, degraded |-> degraded, era |-> pass.era]

\* _post_call_success puts the entry into the cache before it saves it.
Remembers(i, r) ==
  [pass EXCEPT !.attempts[r.label] = r.attempt,
               !.cache = {q \in @ : q.label # r.label} \cup {r},
               !.call[i] = Result("executed", r)]

SaveArrives(i, degraded) ==
  /\ pass.live /\ Is(i, "running")
  /\ clock' = clock + 1
  /\ Accept(Executed(i, degraded))
  /\ pass' = [Remembers(i, Executed(i, degraded)) EXCEPT !.fenced = Told]
  /\ UNCHANGED <<late, seen>>

SaveJournaled(i, degraded) ==
  /\ pass.live /\ Is(i, "running") /\ Fault
  /\ clock' = clock + 1
  /\ late' = late \cup {Executed(i, degraded)}
  /\ pass' = Remembers(i, Executed(i, degraded))
  /\ UNCHANGED <<rows, status, invalidated, pauses, seen>>

MutRefusedSwallowed(i, r) == Remembers(i, r)
\* A terminal error of the store is raised into the body.
RefusedPass(i, r) == [Remembers(i, r) EXCEPT !.raised = "failed"]

SaveRefused(i, degraded) ==
  /\ pass.live /\ Is(i, "running") /\ Fault
  /\ clock' = clock + 1
  /\ pass' = RefusedPass(i, Executed(i, degraded))
  /\ UNCHANGED <<rows, late, status, invalidated, pauses, seen>>

\* The retries are used up: nothing is recorded.  The body may go on, or be left with an
\* exception that fails the item or releases it (credit).
StepRaises(i) ==
  /\ pass.live /\ Is(i, "running") /\ Fault
  /\ \E raised \in {pass.raised, "failed", "released"} :
       pass' = [pass EXCEPT !.call[i] = Raised,
                            !.raised = IF pass.raised = "no" THEN raised ELSE pass.raised]
  /\ UNCHANGED <<rows, late, status, invalidated, pauses, seen, clock>>

--------------------------------------------------------------------------------
(* The end of a pass.                                                         *)

\* The body is left by an exception; what its other coroutines still run is cancelled.
LeftByException ==
  /\ pass.live /\ pass.raised # "no"
  /\ pass' = NoPass
  /\ status' = IF pass.raised = "failed" /\ status = "running" THEN "failed" ELSE status
  /\ NoFault /\ UNCHANGED <<rows, late, invalidated, pauses, seen, clock>>

\* A paused run stays paused when its body has returned.
Complete ==
  /\ pass.live /\ pass.raised = "no" /\ \A i \in Calls : Returned(i)
  /\ pass' = [pass EXCEPT !.live = FALSE]
  /\ status' = IF status = "running" THEN "completed" ELSE status
  /\ NoFault /\ UNCHANGED <<rows, late, invalidated, pauses, seen, clock>>

Crash ==
  /\ pass.live /\ Fault
  /\ pass' = NoPass
  /\ UNCHANGED <<rows, late, status, invalidated, pauses, seen, clock>>

\* external: an operator resumes the run, and it is queued again.
Resume ==
  /\ status = "paused" /\ ~pass.live
  /\ status' = "running"
  /\ NoFault /\ UNCHANGED <<rows, late, invalidated, pauses, pass, seen, clock>>

--------------------------------------------------------------------------------

Advance(i) == StoppedByFence(i) \/ Hit(i) \/ Execute(i)
Finish(i) ==
  \/ \E degraded \in BOOLEAN :
       SaveArrives(i, degraded) \/ SaveJournaled(i, degraded) \/ SaveRefused(i, degraded)
  \/ StepRaises(i)

ItemNext ==
  \/ Begin \/ LeftByException \/ Complete \/ Crash \/ Resume
  \/ \E i \in Calls : Advance(i) \/ Finish(i)
  \/ \E r \in late : ArrivesLate(r)

ItemSpec == ItemInit /\ [][ItemNext]_vars

\* A queued item is leased, a running body goes on, a paused run is resumed; no journaled
\* save need ever arrive.
FairItemSpec ==
  /\ ItemSpec
  /\ WF_vars(Begin) /\ WF_vars(LeftByException) /\ WF_vars(Complete) /\ WF_vars(Resume)
  /\ \A i \in Calls : WF_vars(Advance(i)) /\ WF_vars(Finish(i))

--------------------------------------------------------------------------------
(* Properties.                                                                *)

\* What a call has come to, and what a pass holds of it, are as the code builds them.
Call == [kind : {"todo", "running", "raised"}] \cup [kind : {"hit", "executed"}, row : Row]

Pass == [live : BOOLEAN, era : Nat, cache : SUBSET Row, reuse : SUBSET Row, executed : BOOLEAN,
         attempts : [Labels -> Nat], occurrences : [Steps -> Nat], fenced : BOOLEAN,
         raised : {"no", "failed", "released"}, call : [Calls -> Call], label : [Calls -> Labels]]

ItemTypeOK ==
  /\ rows \subseteq Row /\ late \subseteq Row /\ seen \subseteq Row
  /\ status \in {"running", "paused", "failed", "completed"}
  /\ invalidated \subseteq Labels \X Nat /\ pauses \in Nat
  /\ pass \in Pass /\ clock \in Nat /\ faults \in 0..MaxFaults

\* A call that is handed a recorded result is handed the result of its own step on its own
\* record, in whatever order the run it was copied from had met its records.
HitIsTheSameWork ==
  \A i \in Calls : Is(i, "hit") =>
    LET r == pass.call[i].row IN r.label[1] = StepOf[i] /\ r.record = RecordOf[i]

Executes(i) == ~Is(i, "running") /\ pass'.call[i].kind = "running"

\* Work of a pass that began after the last pause, once recorded, is never executed again: a
\* fence makes what it counted run once more, and a crash or a lost lease after that nothing.
FenceSpentOnce ==
  [][\A i \in Calls : Executes(i) =>
       \A r \in seen : r.label = pass'.label[i] /\ ~r.copied => r.era < pauses]_vars

\* An item never completes on a result the last fence counted: a resume does not hand the
\* body the very outputs the item was paused for.
CountedNotReused ==
  status = "completed" =>
    \A i \in Calls : "row" \in DOMAIN pass.call[i] =>
      <<pass.call[i].row.label, pass.call[i].row.attempt>> \notin invalidated

\* The key an execution sends the provider is that of no attempt its pass was told of, and at
\* most one beyond those the server knows: work that is recorded and done again is new to the
\* provider, and what crashes and lost saves left unrecorded is asked for under its own key.
KeysFollowTheRecord ==
  [][\A i \in Calls : Executes(i) =>
       LET label == pass'.label[i]
           attempt == pass.attempts[label] + 1
       IN /\ \A r \in seen : r.label = label => r.attempt # attempt
          /\ attempt <= Top(rows, label) + 1]_vars

\* A completed item has a record of every result its body went on with: a row of the server,
\* a row in a journal, or another delivery of the same execution.
CompletedIsRecorded ==
  status = "completed" =>
    \A i \in Calls : "row" \in DOMAIN pass.call[i] =>
      \E r \in rows \cup late : Token(r) = Token(pass.call[i].row)

\* However often it is paused, cut off or released, an item ends.
ItemEnds == <>(status \in {"completed", "failed"})

================================================================================
