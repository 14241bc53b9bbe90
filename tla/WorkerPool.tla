------------------------------ MODULE WorkerPool ------------------------------
(***************************************************************************)
(* Workers (runtime/worker.py) against one dispatcher.                      *)
(*                                                                          *)
(* A worker is one main thread that polls, loads the lease's bundle, runs   *)
(* the item, reports and cleans up, with three things beside it: the        *)
(* heartbeat child (runtime/heartbeat.py), the reader of that child's       *)
(* "gone" lines, and the drain watchdog a SIGTERM starts.  Every request is *)
(* one of Dispatcher's actions taken together with the caller's step.       *)
(*                                                                          *)
(* What goes wrong is bounded by MaxFaults: a lost lease response, a lost   *)
(* PATCH, an undelivered report or a lost acknowledgement, an unreachable   *)
(* bundle endpoint, an executor that cannot be spawned, a SIGTERM, a crash, *)
(* and a clock tick in which a live worker got no heartbeat through.        *)
(*                                                                          *)
(* The control plane's run row (runRow) is not in this repository: it is    *)
(* modelled from the PATCHes the worker sends and what it expects of them.  *)
(***************************************************************************)
EXTENDS Dispatcher

CONSTANTS
  Bundle,       \* what a version's bundle is: "ok", "missing" (404), "broken", "no_agent"
  DepsDiffer,   \* BOOLEAN: two versions have different dep hashes
  Modes,        \* how workers may be started: --executor-reuse "off", or an executor
                \* with --executor-fallback "refuse" or "in-process"
  Bootstrap,    \* BOOLEAN: hosted worker, started without --agent-module
  HasRelease,   \* BOOLEAN: the dispatcher has the /release route
  Unlimited,    \* BOOLEAN: items have no max_duration, so one may never return
  Attempts,     \* how often a report is sent before giving up (the code: 5)
  MaxItems,     \* max_items_before_recycle, 0 for never
  MaxFaults     \* bound: how many faults happen in a behaviour

\* The reaper sweeps, and several beats are due, within one TTL: max(0.1, lease_ttl / 4).
ASSUME PoolAssumption ==
  /\ TTL > 0
  /\ Bundle \in [Versions -> {"ok", "missing", "broken", "no_agent"}]
  /\ {DepsDiffer, Bootstrap, HasRelease, Unlimited} \subseteq BOOLEAN
  /\ Modes \subseteq {"off", "refuse", "in-process"}
  /\ Attempts \in Nat \ {0} /\ MaxItems \in Nat /\ MaxFaults \in Nat
  /\ {"none", "agent", "bundle", "paused", "version_not_found", "recycle_pending",
      "executor_unavailable", "no_agent_module"} \subseteq Categories

VARIABLES
  wk,       \* each worker process
  runRow,   \* external: the status of each unit's durable run
  orphans,  \* the units still run by executor children whose worker is gone
  faults,   \* how many faults happened
  starved   \* history: a tick passed without a live worker's heartbeat

pvars == <<wk, runRow, orphans, faults, starved>>
vars == <<dvars, pvars>>

--------------------------------------------------------------------------------
(* A worker process.                                                         *)

NoLease == [id |-> 0, unit |-> 0, version |-> NoVersion]
Lease == [id : LeaseId, unit : LeaseId, version : Tag] \cup {NoLease}

\* What the handler is going to tell: a verb for the dispatcher, then a run status.
Plan == [verb : {"none", "complete", "release"}, status : Statuses, category : Categories,
         reason : Reasons, mark : Statuses \cup {"none"}]
Nothing == [verb |-> "none", status |-> "failed", category |-> "none",
            reason |-> "paused", mark |-> "none"]
Completes == [Nothing EXCEPT !.verb = "complete", !.status = "completed", !.mark = "completed"]
Fails(category, mark) ==
  [Nothing EXCEPT !.verb = "complete", !.category = category, !.mark = mark]
Releases(r) == [Nothing EXCEPT !.verb = "release", !.reason = r]

Worker ==
  [mode : Modes,
   pc : {"poll", "leased", "load", "exec", "hung", "report", "mark", "down"},
   lease : Lease,        \* the lease _handle_lease works on
   tracked : Nat,        \* _in_flight_lease: its id, 0 for None
   hb : Nat,             \* the lease id the heartbeat child holds, 0 when idle
   post : Nat,           \* the lease id in the child's outstanding POST, 0 for none
   told : Nat,           \* the last lease id the child reported gone
   gone : SUBSET Nat,    \* "gone" lines in the pipe
   running : BOOLEAN,    \* _running
   draining : BOOLEAN,   \* _drain_started
   loaded : SUBSET Versions,  \* _loaded_versions
   plan : Plan,
   tries : Nat,
   items : Nat]          \* _items_processed

Fresh(mode) ==
         [mode |-> mode, pc |-> "poll", lease |-> NoLease, tracked |-> 0, hb |-> 0, post |-> 0, told |-> 0,
          gone |-> {}, running |-> TRUE, draining |-> FALSE, loaded |-> {}, plan |-> Nothing,
          tries |-> 0, items |-> 0]

\* The process is gone, and its heartbeat child reads EOF; a POST already sent may land.
Gone(w) == [Fresh(wk[w].mode) EXCEPT !.pc = "down", !.post = wk[w].post]

Up(w) == wk[w].pc # "down"
At(w, pc) == wk[w].pc = pc
InHand(w) == wk[w].lease.unit
Fault == faults < MaxFaults /\ faults' = faults + 1
NoFault == UNCHANGED faults

PoolInit ==
  /\ DispatcherInit
  /\ wk \in [Workers -> {Fresh(m) : m \in Modes}]
  /\ runRow = Empty
  /\ orphans = {}
  /\ faults = 0
  /\ starved = FALSE

\* A client enqueues an item and creates its run.
Submit(v) ==
  /\ Enqueue(v)
  /\ runRow' = Put(runRow, nextId, "queued")
  /\ UNCHANGED <<wk, orphans, faults, starved>>

--------------------------------------------------------------------------------
(* run(): poll and leave.                                                    *)

\* A granted lease.  The idle and unreachable outcomes only sleep.
Poll(w) ==
  /\ At(w, "poll") /\ wk[w].running
  /\ TakeLease(w)
  /\ LET item == Head(pending) IN
       wk' = [wk EXCEPT ![w].pc = "leased",
                        ![w].lease = [id |-> item.id, unit |-> item.unit,
                                      version |-> item.version]]
  /\ NoFault /\ UNCHANGED <<runRow, orphans, starved>>

\* The dispatcher grants, the response never arrives: UNREACHABLE to the worker.
PollResponseLost(w) ==
  /\ At(w, "poll") /\ wk[w].running
  /\ TakeLease(w)
  /\ Fault /\ UNCHANGED <<wk, runRow, orphans, starved>>

LeaveLoop(w) ==
  /\ At(w, "poll") /\ ~wk[w].running
  /\ wk' = [wk EXCEPT ![w] = Gone(w)]
  /\ NoFault /\ UNCHANGED <<dvars, runRow, orphans, starved>>

--------------------------------------------------------------------------------
(* _handle_lease, up to the customer's function.                             *)

\* Mutant: the lease is never written to the heartbeat child.
MutStartUnpublished(w) ==
  /\ At(w, "leased")
  /\ wk' = [wk EXCEPT ![w].pc = "load", ![w].tracked = wk[w].lease.id]
  /\ runRow' = IF runRow[wk[w].lease.unit] = "queued"
               THEN [runRow EXCEPT ![wk[w].lease.unit] = "running"] ELSE runRow
  /\ NoFault
  /\ UNCHANGED <<dvars, orphans, starved>>

\* _mark_run_running, then the lease is tracked and published to the heartbeat.
Start(w) ==
  /\ At(w, "leased")
  /\ wk' = [wk EXCEPT ![w].pc = "load", ![w].tracked = wk[w].lease.id,
                      ![w].hb = wk[w].lease.id]
  /\ \/ /\ runRow' = IF runRow[wk[w].lease.unit] = "queued"
                     THEN [runRow EXCEPT ![wk[w].lease.unit] = "running"] ELSE runRow
        /\ NoFault
     \/ Fault /\ UNCHANGED runRow
  /\ UNCHANGED <<dvars, orphans, starved>>

UsesExecutor(w) == wk[w].mode # "off" /\ wk[w].lease.version # NoVersion

\* The bundle is asked for: not for an unversioned lease, nor for a resident version.
Fetches(w) == wk[w].lease.version \notin wk[w].loaded \cup {NoVersion}
BundleIs(w, kind) == Fetches(w) /\ Bundle[wk[w].lease.version] = kind

\* Another version of the agent is resident with another dep hash.  Only the in-process
\* path ever makes a version resident.
NeedsRecycle(w) == Fetches(w) /\ wk[w].loaded # {} /\ DepsDiffer

\* Mutant: the run's row is written before the dispatcher hears of the outcome.
MutPlannedMarksFirst(w, plan) ==
  /\ wk' = [wk EXCEPT ![w].pc = "report", ![w].plan = plan, ![w].tries = 0]
  /\ runRow' = IF plan.mark = "none" THEN runRow
               ELSE [runRow EXCEPT ![wk[w].lease.unit] = plan.mark]
  /\ UNCHANGED <<dvars, orphans, starved>>

Planned(w, plan) ==
  /\ wk' = [wk EXCEPT ![w].pc = "report", ![w].plan = plan, ![w].tries = 0]
  /\ UNCHANGED <<dvars, runRow, orphans, starved>>

Load(w) ==
  /\ At(w, "load")
  /\ ~BundleIs(w, "missing") /\ ~BundleIs(w, "broken") /\ ~NeedsRecycle(w)
  /\ wk' = [wk EXCEPT ![w].pc = "exec",
                      ![w].loaded = IF UsesExecutor(w) \/ ~Fetches(w) THEN @
                                    ELSE @ \cup {wk[w].lease.version}]
  /\ NoFault /\ UNCHANGED <<dvars, runRow, orphans, starved>>

\* Mutant: a missing version is handled like an endpoint out of reach.
MutVersionNotFoundDropped(w) ==
  /\ At(w, "load") /\ BundleIs(w, "missing")
  /\ wk' = [wk EXCEPT ![w].pc = "mark", ![w].plan = Nothing]
  /\ NoFault /\ UNCHANGED <<dvars, runRow, orphans, starved>>

VersionNotFound(w) ==
  /\ At(w, "load") /\ BundleIs(w, "missing")
  /\ Planned(w, Fails("version_not_found", "none"))
  /\ NoFault

RecyclePending(w) ==
  /\ At(w, "load") /\ ~BundleIs(w, "missing") /\ NeedsRecycle(w)
  /\ wk' = [wk EXCEPT ![w].pc = "report", ![w].plan = Fails("recycle_pending", "none"),
                      ![w].tries = 0, ![w].running = FALSE]
  /\ NoFault /\ UNCHANGED <<dvars, runRow, orphans, starved>>

\* An OSError from the bundle endpoint: no report, the lease is left to expire.
BundleUnreachable(w) ==
  /\ At(w, "load") /\ Fetches(w)
  /\ wk' = [wk EXCEPT ![w].pc = "mark", ![w].plan = Nothing]
  /\ Fault /\ UNCHANGED <<dvars, runRow, orphans, starved>>

\* Mutant: the lease is completed and the run's row is forgotten.
MutBrokenUnmarked(w) ==
  /\ At(w, "load") /\ BundleIs(w, "broken") /\ ~NeedsRecycle(w)
  /\ Planned(w, Fails("bundle", "none"))
  /\ NoFault

\* An entrypoint that will not import.  (In the executor child it is a failed report, with
\* the same two writes.)
BrokenBundle(w) ==
  /\ At(w, "load") /\ BundleIs(w, "broken") /\ ~NeedsRecycle(w)
  /\ Planned(w, Fails("bundle", "failed"))
  /\ NoFault

--------------------------------------------------------------------------------
(* The customer's function, in this process or in the executor child.        *)

\* get_agent(name, None) answers with the latest registration there is.  Every lease names
\* one agent: what --agent-module imported has it.
Registered(w) ==
  IF wk[w].lease.version = NoVersion THEN ~Bootstrap \/ wk[w].loaded # {}
  ELSE Bundle[wk[w].lease.version] # "no_agent"

NoRegistration(w) ==
  /\ At(w, "exec") /\ ~Registered(w)
  /\ Planned(w, IF UsesExecutor(w) THEN Fails("none", "failed")
                ELSE IF wk[w].lease.version = NoVersion THEN Fails("no_agent_module", "none")
                ELSE Fails("none", "none"))
  /\ NoFault

\* It returns, raises (or times out, or the child dies), or raises WorkloadPaused or
\* CreditExhausted.
Outcomes == {Completes, Fails("agent", "failed")} \cup {Releases(r) : r \in Reasons}

Execute(w) ==
  /\ At(w, "exec") /\ Registered(w)
  /\ \E plan \in Outcomes : Planned(w, plan)
  /\ NoFault

\* With no max_duration nothing ends a function that does not return.
Hang(w) ==
  /\ Unlimited
  /\ At(w, "exec") /\ Registered(w)
  /\ wk' = [wk EXCEPT ![w].pc = "hung"]
  /\ NoFault /\ UNCHANGED <<dvars, runRow, orphans, starved>>

\* The child cannot be spawned.  "refuse" fails the lease; "in-process" re-raises, which
\* the backstop in run() logs after the finally block ran.
ExecutorUnavailable(w) ==
  /\ At(w, "exec") /\ UsesExecutor(w)
  /\ IF wk[w].mode = "refuse" THEN Planned(w, Fails("executor_unavailable", "failed"))
     ELSE /\ wk' = [wk EXCEPT ![w].pc = "mark", ![w].plan = Nothing]
          /\ UNCHANGED <<dvars, runRow, orphans, starved>>
  /\ Fault

--------------------------------------------------------------------------------
(* _report_complete, _report_release: sent up to Attempts times.             *)

\* The dispatcher's side of one delivery.
Delivered(w) ==
  LET l == wk[w].lease.id
      plan == wk[w].plan
  IN  IF plan.verb = "complete"
      THEN MarkComplete(l, plan.status, plan.category) \/ StaleComplete(l)
      ELSE ReleaseLease(l, plan.reason) \/ StaleRelease(l)

Supported(w) == wk[w].plan.verb = "release" => HasRelease

\* An attempt that failed: try again, or log an error and go on without the report.
Retried(w) ==
  wk' = [wk EXCEPT ![w].pc = IF wk[w].tries + 1 = Attempts THEN "mark" ELSE "report",
                   ![w].tries = IF wk[w].tries + 1 = Attempts THEN 0 ELSE @ + 1]

Report(w) ==
  /\ At(w, "report") /\ Supported(w)
  /\ Delivered(w)
  /\ wk' = [wk EXCEPT ![w].pc = "mark", ![w].tries = 0]
  /\ NoFault /\ UNCHANGED <<runRow, orphans, starved>>

ReportAckLost(w) ==
  /\ At(w, "report") /\ Supported(w)
  /\ Delivered(w)
  /\ Retried(w)
  /\ Fault /\ UNCHANGED <<runRow, orphans, starved>>

ReportUndelivered(w) ==
  /\ At(w, "report")
  /\ Retried(w)
  /\ Fault /\ UNCHANGED <<dvars, runRow, orphans, starved>>

\* HTTP 404 from /release: the lease is completed instead, with attempts of its own.
ReleaseUnsupported(w) ==
  /\ At(w, "report") /\ ~Supported(w)
  /\ Planned(w, Fails("paused", "none"))
  /\ NoFault

--------------------------------------------------------------------------------
(* _mark_run_terminal, and _handle_lease's finally block with the recycle    *)
(* threshold.                                                                *)

\* Mutant: the finally block does not tell the heartbeat child that the worker is idle.
MutCleanedKeepsBeating(w) ==
  [wk[w] EXCEPT !.pc = "poll", !.lease = NoLease, !.tracked = 0, !.plan = Nothing,
                !.items = IF MaxItems = 0 THEN 0 ELSE @ + 1,
                !.running = @ /\ (MaxItems > 0 => wk[w].items + 1 < MaxItems)]

Cleaned(w) ==
  [wk[w] EXCEPT !.pc = "poll", !.lease = NoLease, !.tracked = 0, !.hb = 0, !.plan = Nothing,
                !.items = IF MaxItems = 0 THEN 0 ELSE @ + 1,
                !.running = @ /\ (MaxItems > 0 => wk[w].items + 1 < MaxItems)]

\* external: the server moves only a row that is not terminal yet.
Marked(w) ==
  IF runRow[wk[w].lease.unit] \in {"queued", "running"}
  THEN [runRow EXCEPT ![wk[w].lease.unit] = wk[w].plan.mark] ELSE runRow

Mark(w) ==
  /\ At(w, "mark")
  /\ \/ wk[w].plan.mark = "none" /\ NoFault /\ UNCHANGED runRow
     \/ wk[w].plan.mark # "none" /\ NoFault /\ runRow' = Marked(w)
     \/ wk[w].plan.mark # "none" /\ Fault /\ UNCHANGED runRow
  /\ wk' = [wk EXCEPT ![w] = Cleaned(w)]
  /\ UNCHANGED <<dvars, orphans, starved>>

--------------------------------------------------------------------------------
(* The heartbeat child, and the parent's reader of its stdout.               *)

BeatSends(w) ==
  /\ Up(w) /\ wk[w].hb # 0 /\ wk[w].post = 0
  /\ wk' = [wk EXCEPT ![w].post = wk[w].hb]
  /\ NoFault /\ UNCHANGED <<dvars, runRow, orphans, starved>>

BeatLands(w) ==
  /\ wk[w].post # 0
  /\ RecordHeartbeat(wk[w].post, w)
  /\ LET rejected == HeartbeatOutcome(wk[w].post, w) # "ok"
         speaks == Up(w) /\ rejected /\ wk[w].told # wk[w].post
     IN  wk' = [wk EXCEPT ![w].post = 0,
                          ![w].told = IF speaks THEN wk[w].post ELSE @,
                          ![w].gone = IF speaks THEN @ \cup {wk[w].post} ELSE @]
  /\ NoFault /\ UNCHANGED <<runRow, orphans, starved>>

\* A beat that fails on the way is not retried: the next one is due soon.
BeatLost(w) ==
  /\ wk[w].post # 0
  /\ wk' = [wk EXCEPT ![w].post = 0]
  /\ NoFault /\ UNCHANGED <<dvars, runRow, orphans, starved>>

\* Mutant: the reader does not compare the line's lease id with the tracked one.
MutReadGoneAny(w) ==
  /\ Up(w)
  /\ \E l \in wk[w].gone :
       wk' = [wk EXCEPT ![w].gone = @ \ {l}, ![w].tracked = 0]
  /\ NoFault /\ UNCHANGED <<dvars, runRow, orphans, starved>>

ReadGone(w) ==
  /\ Up(w)
  /\ \E l \in wk[w].gone :
       wk' = [wk EXCEPT ![w].gone = @ \ {l}, ![w].tracked = IF @ = l THEN 0 ELSE @]
  /\ NoFault /\ UNCHANGED <<dvars, runRow, orphans, starved>>

--------------------------------------------------------------------------------
(* Signals, crashes, the orchestrator and the clock.                         *)

\* _on_signal: the first SIGTERM stops the loop and starts the watchdog.
Sigterm(w) ==
  /\ Up(w) /\ ~wk[w].draining
  /\ wk' = [wk EXCEPT ![w].draining = TRUE, ![w].running = FALSE]
  /\ Fault /\ UNCHANGED <<dvars, runRow, orphans, starved>>

\* Nobody tells the executor child that its worker is gone: it reads its stdin again only
\* after the item, unless the whole container went down.
Survivors(w) ==
  IF wk[w].pc \in {"exec", "hung"} /\ UsesExecutor(w) THEN {InHand(w)} ELSE {}

Orphaned(w) == orphans' \in {orphans, orphans \cup Survivors(w)}

OrphanEnds(u) ==
  /\ u \in orphans
  /\ orphans' = orphans \ {u}
  /\ NoFault /\ UNCHANGED <<dvars, wk, runRow, starved>>

\* Mutant: the watchdog waits for the item in flight.
MutWatchdogWaits(w) ==
  /\ Up(w) /\ wk[w].draining /\ wk[w].tracked = 0
  /\ wk' = [wk EXCEPT ![w] = Gone(w)]
  /\ Orphaned(w) /\ NoFault /\ UNCHANGED <<dvars, runRow, starved>>

\* _drain_watchdog: the deadline passed and run() did not return, os._exit(1).  It is taken
\* as started: --drain-timeout-seconds is 30, and 0 or less switches it off.
Watchdog(w) ==
  /\ Up(w) /\ wk[w].draining
  /\ wk' = [wk EXCEPT ![w] = Gone(w)]
  /\ Orphaned(w) /\ NoFault /\ UNCHANGED <<dvars, runRow, starved>>

Crash(w) ==
  /\ Up(w)
  /\ wk' = [wk EXCEPT ![w] = Gone(w)]
  /\ Orphaned(w) /\ Fault /\ UNCHANGED <<dvars, runRow, starved>>

\* external: the orchestrator starts a new process once the old one's child ended.
Restart(w) ==
  /\ At(w, "down") /\ wk[w].post = 0
  /\ wk' = [wk EXCEPT ![w] = Fresh(wk[w].mode)]
  /\ NoFault /\ UNCHANGED <<dvars, runRow, orphans, starved>>

\* The lease a live worker keeps alive: with heartbeats, or, between the grant and the
\* publication, by being quick (one request of http_timeout_seconds).
KeptAlive(w) == IF At(w, "leased") THEN wk[w].lease.id ELSE wk[w].hb

\* Every live worker got a beat through since the last tick: several are due in each.
Timely ==
  \A w \in Workers : LET l == KeptAlive(w) IN
    l \in DOMAIN leased /\ leased[l].worker = w => leased[l].age = 0

ClockTick ==
  /\ Tick
  /\ \/ Timely /\ NoFault /\ UNCHANGED starved
     \/ ~Timely /\ Fault /\ starved' = TRUE
  /\ UNCHANGED <<wk, runRow, orphans>>

Reaper == ReaperStep /\ UNCHANGED pvars

WorkerStep(w) ==
  \/ Poll(w) \/ PollResponseLost(w) \/ LeaveLoop(w)
  \/ Start(w)
  \/ Load(w) \/ VersionNotFound(w) \/ RecyclePending(w) \/ BundleUnreachable(w)
  \/ BrokenBundle(w)
  \/ NoRegistration(w) \/ Execute(w) \/ Hang(w) \/ ExecutorUnavailable(w)
  \/ Report(w) \/ ReportAckLost(w) \/ ReportUndelivered(w) \/ ReleaseUnsupported(w)
  \/ Mark(w)
  \/ BeatSends(w) \/ BeatLands(w) \/ BeatLost(w) \/ ReadGone(w)
  \/ Sigterm(w) \/ Watchdog(w) \/ Crash(w) \/ Restart(w)

PoolNext ==
  \/ \E v \in Tag : Submit(v)
  \/ \E w \in Workers : WorkerStep(w)
  \/ \E u \in orphans : OrphanEnds(u)
  \/ ClockTick
  \/ Reaper

PoolSpec == PoolInit /\ [][PoolNext]_vars

\* What the scheduling owes.  A thread or a process that can go on does (WF); one that needs
\* the dispatcher's lock, which the reaper takes once per sweep and gives back, gets it in the
\* end, and of the heartbeats sent some arrive (SF).  No fault is ever owed, and neither is
\* Hang: but an item that hung is not owed an end.
Fairness ==
  /\ WF_vars(Reaper) /\ WF_vars(ClockTick /\ Timely)
  /\ \A w \in Workers :
       /\ SF_vars(Poll(w)) /\ WF_vars(LeaveLoop(w)) /\ WF_vars(Start(w))
       /\ WF_vars(Load(w) \/ VersionNotFound(w) \/ RecyclePending(w) \/ BrokenBundle(w))
       /\ WF_vars(NoRegistration(w) \/ Execute(w))
       /\ SF_vars(Report(w) \/ ReleaseUnsupported(w)) /\ WF_vars(Mark(w))
       /\ WF_vars(BeatSends(w)) /\ SF_vars(BeatLands(w)) /\ WF_vars(ReadGone(w))
       /\ WF_vars(Watchdog(w)) /\ WF_vars(Restart(w))

FairPoolSpec == PoolSpec /\ Fairness

--------------------------------------------------------------------------------
(* Properties.                                                               *)

\* The dispatcher's tables, the processes and the run rows are what the code builds.
PoolTypeOK ==
  /\ TypeOK
  /\ wk \in [Workers -> Worker]
  /\ DOMAIN runRow = DOMAIN submitted
  /\ \A u \in DOMAIN runRow : runRow[u] \in Statuses \cup {"queued", "running"}
  /\ orphans \subseteq Nat
  /\ faults \in 0..MaxFaults /\ starved \in BOOLEAN

Idle(u) == \A w \in Workers : InHand(w) # u

\* A lease that is still live is in nobody's hand but its grantee's, for the unit it was
\* granted for: a zombie's lease id is dead, so its completion, release or heartbeat cannot
\* touch the redelivered item.
LiveLeaseIsMine ==
  \A w \in Workers : wk[w].lease.id \in DOMAIN leased =>
    leased[wk[w].lease.id].worker = w /\ leased[wk[w].lease.id].unit = InHand(w)

\* As long as every live worker gets its heartbeats through, no item is ever in the hands
\* of two workers at once, whatever else is lost, crashes or is drained.  (An executor child
\* whose worker is gone is nobody's hand: its item expires and is leased again beside it.)
NoDoubleExecution ==
  ~starved => \A v, w \in Workers : v # w /\ InHand(v) # 0 => InHand(v) # InHand(w)

\* _handle_lease loses its in-flight tracking half-way only when its own lease is dead: a
\* "gone" line about the previous lease, read late, does not clear the next one.
GoneOnlyForLost ==
  \A w \in Workers :
    InHand(w) # 0 /\ ~At(w, "leased") /\ wk[w].tracked = 0 => Retired(wk[w].lease.id)

\* The failures that _handle_lease reports and returns from without _mark_run_terminal.
LeftRunning == {"version_not_found", "recycle_pending", "no_agent_module", "paused"}

\* What the run's row is to read for what the dispatcher recorded.  An agent that the bundle
\* does not have ("none") is the executor's failed report, which is marked, or the early
\* return of the in-process path, which is not.
RowsFor(ended) ==
  CASE ended.category \in LeftRunning -> {"running"}
    [] ended.status = "completed" \/ ended.category \notin LeftRunning \cup {"none"} ->
         {ended.status}
    [] OTHER -> {IF wk[w].mode = "off" THEN "running" ELSE "failed" : w \in Workers}

\* When nothing was lost and the worker has moved on, the run's row tells what the dispatcher
\* recorded for its item, except after five failures: a version that is not found, a pending
\* recycle, no agent module, no such agent in process, and a pause without /release leave the
\* row "running", although the lease is over and nothing else moves the row ("the item reads
\* 'in progress' forever", _handle_lease_in_executor says of that).  A parked item's run is
\* left alone.
RunMatchesOutcome ==
  faults = 0 =>
    /\ \A l \in DOMAIN completed : Idle(completed[l].unit) =>
         runRow[completed[l].unit] \in RowsFor(completed[l])
    /\ \A l \in DOMAIN parked : Idle(parked[l].unit) => runRow[parked[l].unit] = "running"

\* The run ends only after its lease: as long as the workers' heartbeats and reports get
\* through, a run that is terminal is not queued, leased or run again, wherever a crash fell.
RunEndsAfterItsLease ==
  ~starved /\ MaxFaults < Attempts =>
    \A u \in DOMAIN runRow : runRow[u] \in Statuses => u \in UnitsOf(completed)

\* When nothing was lost, a lease is only ever live in its worker's hand: no path through
\* _handle_lease leaves one dangling.
NoDanglingLease ==
  faults = 0 => \A l \in DOMAIN leased : wk[leased[l].worker].lease.id = l

Settled(u) == u \in UnitsOf(completed) \cup UnitsOf(parked)
HungOn(u) == \E w \in Workers : At(w, "hung") /\ InHand(w) = u

\* However far the queue has come, all that was enqueued is completed or parked in the end,
\* unless a customer's function never returns: what a crash, a drain or a lost message left
\* behind expires and is run again.
EveryItemSettles == []<>(\A u \in DOMAIN submitted : Settled(u) \/ HungOn(u))

\* A worker told to drain ends, even one whose item never returns.
DrainEnds == \A w \in Workers : wk[w].draining ~> At(w, "down")

================================================================================
