# A verification of papayya-python

TLA+ models of the papayya SDK and runtime, TLC runs that check them on small
instances, and TLAPS proofs of what matters most for every instance. The code is the
reference: where a doc and the code disagree the model follows the code, and section 5
names the disagreement.

papayya runs LLM agents over documents. A customer decorates an agent function; a hosted
worker leases items from a dispatcher, runs the function on each, and reports. Inside
the function every step is checkpointed, so an item that is cut off (a crash, a lost
lease, a pause) starts again from the top and is handed the results it already has.
Without a control plane the same functions run in the customer's own processes and are
recorded in a local SQLite file. Tokens cost money and steps have side effects, so the
questions this project asks are: is an item ever lost, run twice at the same time, or
completed twice; is recorded work repeated or unrecorded work believed; whose code and
whose secrets does an item run with; does what the control plane or the ledger shows agree
with what happened; and does everything end.

Paths below are relative to `src/src/papayya/`.

## 1. The system

```
  papayya deploy ──upload, triggers──▶ Control plane ◀──verdict── canary (in the Worker)
                                            ▲
  client ──enqueue──▶ LocalDispatcher ◀──lease / complete / release── Worker ── Executor child
                          ▲                                           │  ▲   ╲        │
                          └────────heartbeat── Heartbeat child ◀──stdin  stdout ╲      │
                                                                      │   Bundle cache │
                              PATCH run (running, completed, failed)  ▼                ▼
                                      Control plane ◀── CloudStore ◀──────────────── Item
                                                           │                           │
                                                     lineage journal         SQLite ledger (local)
                                                        (file)                 ▲  map, iter, replay
```

### Components, their state, and what makes each correct

**LocalDispatcher** (`runtime/dispatcher.py`). State: `_pending` (deque), `_leased`,
`_completed`, `_parked` (dicts by lease id), `_enqueued_total`, all under one lock; a
reaper thread. Operations: enqueue, lease, complete, release, heartbeat, the sweep,
`wait_until_drained`. Hard: the sweep reads the clock before it takes the lock; workers
that lost their lease go on talking. Correct when an item is in exactly one place, ids of
ended leases stay dead, only silent leases are reaped, and "drained" means done.

**Worker** (`runtime/worker.py`, `runtime/heartbeat.py`). State: the lease in hand, the
lease id shared with the heartbeat child, `_in_flight_lease`, `_running`,
`_loaded_versions`, `_items_processed`. One main thread; a child process that posts
heartbeats; a thread that reads the child's stdout; signal handlers and a drain watchdog
that calls `os._exit`. Hard: a response or an acknowledgement is lost, a "gone" line is
read late, a drain falls anywhere, and every one of a dozen ways out of `_handle_lease`
must leave dispatcher and run row in agreement. Correct when a live lease is only in its
grantee's hand, no two workers run one item while heartbeats land, a run ends only after
its lease, and every item settles.

**Executor child and timeouts** (`runtime/executor.py`, `_run_in_executor`). The worker
holds the platform key and runs no customer code; a child process does, one item after the
other, as long as the leases are for the same account, agent and version. State: the job
pipe and the report pipe, the environment with the last item's secrets, the import, the
invocation's context variables, an armed SIGALRM. Hard: the alarm is an asynchronous
exception; the worker's own deadline and the child's death come at any moment; what one
item leaves behind is the next one's. Correct when a lease is settled only by what was said
of it, when code sees exactly its own item's secrets and context, when no alarm outlives
its item, and when an item with a budget settles whatever its body does.

**CloudStore** (`durable/cloud_store.py`) and its **lineage journal**
(`durable/lineage_journal.py`). State: one JSON-lines file per working directory, the
credential of the invocation in hand, what a response said of a pause. Every write drains
the journal, is sent with retries, and is journaled when they are used up. Hard: drain and
rewrite against a crash, an interrupt, another process; journaled writes of other runs;
a server rolled back to an older schema. Correct when a write whose call returned is
somewhere, the drain keeps the order, and it gets there.

**Item** (`durable/run.py`, `durable/types.py`). State of a pass: the hydrated cache,
the index of copied rows, attempts and occurrences per label, `_executed_any`. Operations:
`init`, the wrapper around every step (look up, execute, retry, save), `complete`, `fail`.
Hard: passes follow each other after crashes and pauses; gathered coroutines interleave;
journaled saves arrive in a later pass; copied results are matched by record, own ones by
position. Correct when a call is handed only its own work, recorded work is not repeated,
provider keys are new exactly when they must be, and what a pause counted runs once more.

**Local ledger** (`durable/sqlite_store.py`) and what drives items into it: `map`, `iter`,
the ambient run of a direct call and the `mark_*` verbs (`iterators.py`), **replay** of one
dead letter or of a run's not-ok slice (`durable/_replay.py`), an operator's triage. State:
tables runs, items, steps; in each process the two fences. Hard: a run's counters, status
and dead letters are written by the last end, the seal and the dispositions, by several
processes in any order, and commits may be lost. Correct when counters are the number of
ends, the status is told by the items, aggregates are those of the rows, and a decided
dead letter stays decided.

**Ledger schema migrations** (`durable/sqlite_store.py`, `_migrate`). State: the file's
tables, the version it says, the backups beside it. Hard: Python's sqlite3 commits every
ALTER on its own, so a crash falls between any two statements and the next open starts that
migration again. Correct when the file is always a version's tables with a first part of
the next migration, when it can be opened again, and when the checkpoints survive.

**Bundle cache and loader** (`runtime/_bundle_cache.py`, `_bundle_loader.py`,
`import_bundle_module` in `worker.py`). State: a directory per account, agent and version,
lock files, staging directories; in each process the finder's roots, the resident bundles
and `sys.modules`. Hard: several processes fetch the same bundle, one is killed half-way;
all bundles use the same module names. Correct when a visible directory is whole and never
changes, nobody waits for ever, and a lease's code imports its own bundle's modules.

**Deploy** (`cli.py`, `_reconcile.py`) and the **canary** (`_handle_canary` in
`worker.py`). State: the invocation (agents up and failed, the plan), on the server agents,
deployments and trigger rows, in a worker the deployment it checks. Hard: a verdict is lost
or given twice, its worker dies, the pool is empty; `apply_plan` is a sequence of replacing
PUTs that may stop after any; a teammate deploys at the same time. Correct when a verdict
is earned, triggers follow the bundle, exit 0 means converged, and the command comes back.

**Pure algorithms**: `latest_per_label` (an operator of `Item`), the severity order
(`Ledger`), the trigger diff (`Deploy`); the pairing of `cohort_diff.py`, outcome
inspection, error categories and retry classification are not modelled.

**Not in a module of their own**: agent registry, client methods that are one request each,
argument parsing, the bundler, offline analysis (`verify.py`, `fixtures.py`), the memory and
file stores.

**Outside this repository**: the control plane (run rows, checkpoints, fences, tokens,
deployments, triggers), the orchestrator that restarts workers, the operator who resumes a
paused run, the model provider, SQLite itself. They appear as definitions marked
`external`, with no more behaviour than the code here relies on.

`PROJECT.json` lists every component with its status, and under `hazards` what in this
code is hard to test, at the line where it bites.

## 2. The modules

| Module | Models | Kind |
|---|---|---|
| `WorkQueue` | what a dispatcher promises a client: absent, queued, held, done or parked | abstract specification |
| `Dispatcher` | `LocalDispatcher` and its reaper thread | component, implements `WorkQueue` |
| `WorkerPool` | workers, heartbeat children, drain, run rows, composed with `Dispatcher` | composition |
| `Executor` | the worker's side and the child's side of one item after another | two processes and their pipes |
| `Bundles` | the shared bundle directory, its lock, and which module an import gets | component, any number of processes |
| `CloudStore` | `_execute`, the drain and the journal, any number of processes | component |
| `Item` | one durable item over all its passes | component |
| `Ledger` | the SQLite tables and every driver that writes them | component and its clients |
| `Migration` | opening a file of any version, statement by statement | component |
| `Deploy` | the deploy command, the canary, trigger reconciliation, the server between them | composition |
| `*Proofs` | theorems, a module for each component; `Dispatcher`'s are in `WorkerPoolProofs` | proofs |
| `MC*` | values for the constants | TLC |

### Dispatcher

One action per handler, because every handler holds the lock throughout: `Enqueue`,
`TakeLease`, `MarkComplete`/`StaleComplete`, `ReleaseLease`/`StaleRelease`,
`RecordHeartbeat`. The reaper does not: `ReaperReadsClock` (outside the lock),
`ReaperLocks`, `ReapOne` or `Spare` for each lease in the dict's order, `ReaperUnlocks`; any
handler may run between the first two. Time is kept as ages, so no clock grows: `leased[l].age`
is the time since the lease was last heard of, `reaper.lag` the age of the reaper's reading,
and the code's `now - last_heartbeat` is `age - lag`. A lease id (uuid4) is a number never
minted before. `unit`, the handle of an item's enqueue, `seen` and `submitted` are history:
the code forgets them when it mints a new id for a redelivery.

### WorkerPool

Each request is a `Dispatcher` action conjoined with the caller's step, so requests are
atomic at the dispatcher and a lost response is a step of its own (`PollResponseLost`,
`ReportAckLost`, `ReportUndelivered`). `wk[w].pc` follows `_handle_lease`: poll, leased
(before the lease is published), load (bundle), exec or hung, report, mark (run row and
`finally`). What a path is going to report is decided once, in `plan`, and the paths differ in
their plans: `VersionNotFound`, `RecyclePending`, `BrokenBundle`, `NoRegistration`,
`Execute`, `ExecutorUnavailable`; `BundleUnreachable` reports nothing. The heartbeat child
has a POST in flight (`post`) that may land at any time, even after its worker is gone, and
answers with `gone` lines that are read at any time. `orphans` are the items that an executor
child still runs although its worker is gone. `Sigterm`, `Watchdog`, `Crash` and `Restart`
may fall anywhere. `starved` records that a clock tick passed while a live worker had got no
heartbeat through: only then may a lease expire under a worker that still runs.

### Executor

`at` is where the worker is with its lease: `ExecutorFor` (reuse, or close and spawn), `Send`,
then `ReadReport`, `ReadEnd` (the child died) or `Deadline` (the worker's own budget, which
only the payload's `max_duration_seconds` gives). The child goes `Receive`
(`_apply_secrets`), `Import`, the body, `Leave` (the `finally`, the scope's exit, the report).
`BodyEnds`, `BodyExits` (a `SystemExit` that nothing catches), `Alarm` and `Cancel` are what
a body can come to; an alarm that rings outside the `try` kills the process, and one in the
body may be swallowed. `reports` is the result pipe: the worker takes its next line whatever
it is about, as `read_report` does. `Killed` may fall anywhere.

### Bundles

`Look`, `Lock`, `Recheck`, `Fetch`, `Extract`, `Seal` and `Rename` are `ensure_bundle` from
the check without the lock to `os.rename`; `LockWorks = FALSE` lets two processes hold the
file lock (the comment at `_bundle_cache.py:278` allows for it). A tree is what a reader
could find: whose files, and whether all are there. `Import`, `ImportBeside`, `Loaded`,
`LoadFails`, `Body`, `BodyEnds` follow `import_bundle_module` and the finder. A bundle has a
package `pkg` with a submodule, which its code, at import or in the body, may ask for in three
ways: `Imported` (`import pkg`, which the finder serves and whose name the scope's frame
restores), `ImportedRelative` (from inside the package, which goes by its versioned name, so
that the submodule stays under the token's own name) and `ImportedDotted` (`pkg.sub`: `find_spec`
declines every name with a path, the ordinary path finder loads it, and no frame removes it).
`beside`, `named` and `below` are what `sys.modules` holds under these three names, `scope` the
token that is active, `got` what the last import returned and `first` who first asked for
`pkg.sub` in this process.

### CloudStore

A call of `_execute` goes through drain, rewrite and send. `DrainAccepted`, `DrainTransient`,
`DrainRejected`, `DrainDropped` and `DrainInterrupted` are the loop's branches for one entry,
`DrainRest` moves what is left to `remaining`, `Rewrite` replaces the file. The reader reads
lazily: `unread` is what it has not yielded yet, and grows when another process appends to
the same file; after somebody's rewrite the reader holds an unlinked file (`linked`). The
write then succeeds, is retried, is journaled after the last attempt, is refused, or is
interrupted. `lane` says which credential writes carry: with a run token a request is
authorised for one run only (`agent.py:218`).

### Item

`rows` are the server's checkpoints, `late` the journaled ones, `pass` what the `Item` object
holds. `Begin` hydrates: latest row per label, minus what the last fence counted, attempts
seeded from *all* rows. A call is stopped by the fence, is a `Hit`, or is executed
(`Execute`); its function returns and the save arrives, is journaled or is refused
(`SaveArrives`, `SaveJournaled`, `SaveRefused`), or it raises (`StepRaises`). Calls start in
body order; `Waits` says which must have returned first, so gathered coroutines interleave.
`ArrivesLate` delivers a journaled save in any later pass, or never. `Accept` is the server's
side: a re-delivery (same execution token) is the same row, and a degraded row may pause the
run and count any of the degraded rows.

### Ledger

A `with self._conn` block is one step together with the read before it. `proc[p]` is what a
process drives: `Map` (both `map` and `iter`; a run minted open, sealed by `Seal`), `Call` (an
ambient run of one), `Replay` (one dead letter, by registration or by handler) and
`ReplaySlice`; `OpenItem` and `LoopEnds` are the loop. In the body `Step` and `Mark` save rows
(`Recorded` is `save_task` with its incremental aggregates), then `Returns`, `Raises` or
`Paused`, and `EndItem` is `set_status` with the roll-up and the workload fence. `EndLost`,
`SealLost` and `LoopEnds`' second branch are commits that fail; drivers log those and go on.
`Dispose` and `Triage` are `mark_dlq_disposition`. `Reenter` passes an item's id a second
time. The helpers `Ended`, `RolledUp`, `Promoted` and `Sealed` are the SQL updates as
functions of a row.

### Migration

`Migration[v]` is the list of statements from version v to the next, each with the guard the
code puts around it (`_existing_columns`, IF EXISTS) or none. `Open` reads the version, `Backup`
and `CopyEnds` write the copy, `Execute` runs one statement or raises, `Stamp` writes the version,
`Create` builds a new file table by table. The columns a version adds to one table are one
column. `Crash` may fall between any two. `Schema(v)` says what the tables of a version are
without a look at the statements, as the script of a new file does: that the statements lead
from one to the next is something to check (`OpenedIsCurrent`). `PartOf` is what a first part
of a migration makes of them.

### Deploy

`cli[d].pc` follows the command: `Find`, `Create`, `Upload`, `Await` or `GiveUp` for each agent
in turn, then `List` for each resource (a resource is what one PUT replaces: an agent's
code-managed schedules or webhooks), `Preview`, and `Apply`, whose `Put` replaces the rows.
`CallFails` ends the command at any call, with or without the effect of a create or an upload;
`Put` has a lost response of its own. `--dry-run` is looked at after `Preview`, as in the code.
`PollCanary`, `HandleCanary`, `ReportCanary` and `WorkerDies` are a worker's side. `Results` says
what importing a bundle in a child can come to, `Troubles` what can happen with any bundle: the
child is killed, the server answers 404, or the bundle cannot be checked. `Verdict` is what
`_handle_canary` makes of each: the 404 is reported as failed without an import
(`worker.py:1684`), and so is a killed child (1666); only what lands in the last `except` gives no
verdict and leaves the claim to go stale. `found` (all that workers met with a deployment) and
`raced` (the resources somebody else wrote since they were listed) are history.

### Interactions, and where they are cut

`Dispatcher` and `WorkerPool` are composed by conjunction of actions. Elsewhere a module uses
another's promise and not its text. `Item` sees of a save that it arrives, sits in a journal,
or is refused, which is what `CloudStore` shows of a write. `WorkerPool` sees a body as one
`Execute` with an outcome and a bundle as good, missing, broken or agent-less: `Executor` and
`Bundles` are what happens inside those steps, and `Executor`'s `Settle` is the report that
`WorkerPool` sends. `Ledger` takes a file of the current version, which `Migration` delivers.
`Deploy` ends where a deployment is ready and `WorkerPool` begins with its version.

## 3. The runs

| Run | Instance | What it shows |
|---|---|---|
| `dispatcher` | 2 workers, 2 items, 5 lease ids, TTL 1, lag 1 | items are in one place, ids die with leases, only silent leases are reaped, drained means done; `WorkQueue` is implemented |
| `pool` | 2 workers, 1 item, 2 faults, hanging functions, recycling after 2 items | a live lease is in its grantee's hand; no double execution while heartbeats land; late "gone" lines are harmless |
| `pool_bundles` | 1 worker in each mode, 2 items, good/missing/broken/agent-less bundles, 1 fault | after every path out of `_handle_lease` the row tells what was reported, or is left running after exactly the failures named; none leaves its lease dangling; runs end after leases |
| `pool_live` | 1 worker, 1 item, 2 faults | items settle, drains end |
| `executor` | 5 agents (plain, async, raising, exiting, agent-less), 2 projects, 3 leases, 1 fault | leases are settled by their own reports; secrets, context and alarm do not leak; a budget settles |
| `bundles` | 2 processes, 4 bundles of 2 accounts, 2 loads, any number of leases of loaded bundles, 2 faults, a lock that may fail | directories appear whole, lookups are answered, code imports its own modules, and by a dotted name those of the first to ask |
| `store` | 1 process, a run of 4 writes, batch 1, 6 faults | nothing lost, order kept, journal drains |
| `item` | 2 pages at once and a validation, one page and the verdict copied, 3 faults | calls get their own work; fences are spent once; keys follow the record; completed is recorded; items end |
| `ledger` | 2 processes, 3 items, 2 runs, maps of up to 2, fences at 1 and at 2 of 2, 1 fault | counters, roll-ups, aggregates and dispositions agree with the rows |
| `migration` | files of all versions from 0 (none) to 15 (newer), 3 crashes | no statement is skipped or misapplied, an opened file is like a new one, older versions reopen, the checkpoints are in the file or in the copy |
| `migration_again` ✗ | a file of version 11, 1 crash | a crash in version 12's rebuild, and the second attempt drops the checkpoints from the file |
| `deploy` | 2 deployers with different files, 2 workers, 2 invocations, 2 checks, 1 fault | verdicts are what workers met, also where two meet; triggers follow the bundle; exit 0 means converged; the command comes back |

The ✗ run refutes one sentence of a docstring, quoted under `findings` in `PROJECT.json`.

### Why these bounds

* `dispatcher`: two items and two workers give two leases that expire in one sweep, one that
  expires while another is live, a heartbeat between the reading and the lock, and a stale
  call about each. Five ids let an item be redelivered three times. A third item adds
  positions in the queue and no new relation of two entries; the theorems do not depend on it.
* `pool`: a double execution takes a first worker that loses an item and a second that gets
  it, so one item and two workers suffice; two faults combine every two losses (a lost
  acknowledgement and a crash, a SIGTERM and a missed beat).
* `pool_bundles`: what a worker has loaded matters to the next item, so two items, one after
  the other, on one worker. `MaxFaults` is below `Attempts`: a report gets through, which
  `RunEndsAfterItsLease` needs, and `RunMatchesOutcome` and `NoDanglingLease` speak of
  behaviours without a fault, where the paths themselves are on trial. The dispatcher has
  `/release`, so the fifth of the failures that leave the row running (a pause that has to be
  reported as failed) is beyond this run; `RowsMatchOutcomes` covers it.
* `executor`: what leaks does so from one item to the next of the same key, and a third lease
  is the one after a child was replaced. One fault (a kill or a failed spawn) is placed
  anywhere; alarms, deadlines, exits and cancellations need none.
* `bundles`: two processes race for one directory; the four bundles differ in exactly one of
  account, agent and version from one another. Two loads are one bundle in two processes, or two
  bundles in one, where the second finds what the first left in `sys.modules`; leases of what is
  in memory are not bounded, so that either may come back after the other. Two faults give a
  broken lock with a kill, or a failed extraction with a kill.
* `store`: with a batch of one and up to three entries a drain halts at the first or a later
  entry, stops at its batch, and is cut off before, between and after the two. Six faults are
  what it takes to journal three writes at two attempts each. The run adds one write of
  some other run at any time.
* `item`: two gathered calls of one step, a step that waits for both, and copied rows whose
  positions are those of another order. Three faults give a pause, a crash and a late save
  in one history. `SUBSET` of degraded rows covers every set a fence may have counted.
* `ledger`: a partial run needs one item that failed and one that did not, and its promotion a
  third that replays the first; two processes give a seal, an end and a disposition in every
  order. `Batch`, `MaxItems`, `MaxRuns`, `MaxRows`, `MaxFaults` bound the instance. The
  verdict "failed" differs from "degraded" only in its severity, and a body that raises writes it.
* `migration`: a file of every version there was, of a newer one, and no file at all. Three
  crashes hit one migration twice and another once; the theorems do not depend on their number.
* `deploy`: two agents and one agent, sharing a name, with schedules to keep, to add and to
  remove and a webhook. One bundle is good and the other's answer cannot be read: the good one
  gets a ready verdict and, by a killed child or a 404, a failed one, in either order from two
  workers; the other has no verdict from its import and may fail all the same. Two checks are two
  deployments checked or one checked twice; one fault is any failed call, lost response or
  verdict, dead worker or child, or failed fetch. Bundles that raise, die, hang or are slow have
  verdicts that need no fault; they multiply the states and are left to `VerdictsAreEarned`,
  which holds for all of them.

Symmetry is used in `pool` (workers) and `ledger` (processes), which check no liveness.
`CHECK_DEADLOCK FALSE` appears where the system really stops: an item that ended (`item`),
bounds on leases, items or invocations that are used up with nothing left to run
(`executor`, `bundles`, `ledger`, `deploy`).

### Properties, by what could go wrong

* **Lost or duplicated items**: `OnePlace`, `ImplementsQueue`, `DrainedMeansDone`,
  `NoDanglingLease`, `EveryItemSettles`.
* **Stale actors**: `RetiredForGood` (an ended lease's id finds nothing), `ReapedOnlySilent`
  (the clock reading is old by the time the lock is held), `LiveLeaseIsMine`,
  `GoneOnlyForLost`, `NoDoubleExecution`, `ReportIsForItsItem` (a report read after its item),
  `DispositionIsFinal` (a decision taken on an old look).
* **Two records of one outcome**: `RunMatchesOutcome`, `RunEndsAfterItsLease`,
  `CompletedIsRecorded`, `CountersMatchEnds`, `RunTellsItsItems`, `AggregatesMatchRows`.
* **Whose code, whose secrets**: `RunsUnderItsOwn`, `NothingLeaksToTheNext`,
  `RunsItsOwnCode`, `OnceAndWhole`.
* **Writes that must arrive**: `NothingLost`, `DrainInOrder`, `JournalDrains`.
* **Repeated work**: `HitIsTheSameWork`, `CountedNotReused`, `FenceSpentOnce`,
  `KeysFollowTheRecord` (recorded work that is done again is new to the provider, unrecorded work
  is asked for under its own key).
* **Crashes between statements**: `VersionTellsTables` (`BetweenVersions` and `OpenedIsCurrent`),
  `OlderVersionsReopen`, `CheckpointsSurvive`.
* **Deploys**: `VerdictIsEarned`, `TriggersFollowTheBundle`, `SuccessIsConverged`.
* **Ends**: `DrainEnds`, `ItemEnds`, `BudgetedItemSettles`, `AskedIsAnswered`, `DeployEnds`.

Every property of a passing run has a mutant in `PROJECT.json`: a bug one could plausibly
write at that place (a dropped comparison, an `append` for an `appendleft`, a count for a
maximum, a reset left out) that the same run finds. Type invariants and what is proved of
the dispatcher beyond that are theorems and no longer checked by a run.

### Fairness

* `FairPoolSpec`. Threads and processes that can go on do (WF). Requests to the dispatcher
  need a lock the reaper takes once per sweep, so `Poll`, `Report` and `BeatLands` get SF: the
  lock is free again and again and `threading.Lock` is granted in the end; for the beats it
  also says that not every one is lost. A worker that went down is restarted, the clock
  ticks as long as beats are timely. No fault is owed an occurrence, and no hung function its
  return: `EveryItemSettles` excepts hung items by name, since without `max_duration` the
  code does not end them. `DrainEnds` takes the watchdog as started: `--drain-timeout-seconds` is
  positive, as it is by default; zero or less disables it (`worker.py:1755`), and then a drain
  waits for the function.
* `ExecutorSpec`. Only the worker goes on (WF of `Supervises`, whose deadline is a clock);
  nothing is promised of the child. `BudgetedItemSettles` is about leases with a budget,
  since without one `read_report` waits for ever on a child that lives.
* `BundlesSpec`. A process that has gone to look for its bundle goes on (SF): whoever waits for a
  file lock that is free again and again gets it. Customer code may take for ever, and so
  `AskedIsAnswered` ends where the import begins.
* `FairStoreSpec`. A call that began goes on; a rolled back server is upgraded in the end;
  and there is always one more write, since nothing but a write drains the journal. Without
  the last two `JournalDrains` is false, and the code promises no more.
* `FairItemSpec`. A queued item is leased, a running body goes on, a paused run is resumed.
  Late deliveries are owed nothing.
* `DeploySpec`. The command goes on (WF of `Goes(d)`): calls have timeouts and the wait has a
  deadline. No pool is assumed, and no server that answers in time. `DeployEnds` says that each
  deployer is again and again without a running command, since one may start the next.
* `LedgerSpec` and `MigrationSpec` state none: their properties are about safety.

## 4. The proofs

All theorems hold for any number of workers, items, versions, runs, bundles, agents and
faults, under the assumptions on constants the modules name (`TTLAssumption`,
`BoundsAssumption`, `PoolAssumption`, `StoreAssumption`, `ExecutorAssumption`,
`BundlesAssumption`, `DeployAssumption`, `ItemAssumption`, `LedgerAssumption`,
`MigrationAssumption`), which the runs evaluate; `OwnJournalLosesNothing` and those of
`MigrationProofs` are about one process. Each safety theorem goes the same way: an inductive invariant, one lemma per action,
a lemma that collects them, and the property from the invariant.

**WorkerPoolProofs**, first part: the dispatcher. `OnePlace` is not inductive: that completing, parking and leasing
never overwrite an entry rests on the ids. `IInv` adds that queued ids are distinct, that
every id and unit in use was minted, that queued, leased and completed ids are apart, and
that the reaper's list holds current leases and is empty outside a sweep. `NextIInv` gives
`TypeCorrect`, `AlwaysOnePlace`, `AlwaysNothingLost`. From the same invariant:
`AlwaysRetiredForGood` (through `IdsMoveOn`, what a step does to ids),
`AlwaysReapedOnlySilent` (the lag only makes an age smaller), `AlwaysRedeliveriesFirst`,
`AlwaysDrainedMeansDone` (by counting: units enqueued equal `enqueued_total`, and as many
completions with distinct units exhaust them), and `Implements`, the refinement of
`WorkQueue`: each step moves at most one unit, along an edge `WorkQueue` has.

**WorkerPoolProofs**, second part: the pool. `PoolIsDispatcher` says that every step of the pool is a dispatcher
step or leaves it alone, so all of the above holds in the pool (`PoolServesQueue`).
`HandInv` strengthens `LiveLeaseIsMine`: every id a process holds anywhere (its handler,
its heartbeat child, the POST in flight, the pipe) was granted and, while still leased, is
leased to it; a gone line names a retired id; and a handler that lost its tracking lost its
lease. Ids only move on (`IdsMoveOn`), so what a delayed message says of an id stays true.
`LiveLeasesAreMine` and `TrackingEndsWithLease` follow.

The rest is about the item in a hand, and goes over `RunsInv`. Nothing in a worker keeps
its item from being leased again: only its beats do. `Fed` says, for as long as beats get
through (`starved` is false), that a worker with an item either has its lease in the table, heard
of no more than a tick ago, or has had its report applied and is settling it. Two hands with one
item would then be two leases of it, or a lease of a completed item, against `OnePlace`:
`NoItemTwice`. It needs a TTL above zero (`PoolAssumption`; the reaper sweeps, and several
beats are due, within one TTL: `dispatcher.py:136`), since with none a lease is over when it is
granted. `RunsEndAfterLeases` counts: a report that has not got through has cost a fault per
attempt (`tries <= faults`), and there are fewer faults than attempts. `Calm` follows a behaviour
without a fault: a hand's lease is in the table until its report, the row is what its plan
said, and what the dispatcher recorded is what the plan reported; from which `NoPathDangles`. For
`RowsMatchOutcomes` every path's plan is asked what it will write into the row (`Tells`): the
status it reports, or nothing in the five failures of `LeftRunning` and `RowsFor`. The statement
exempts no path, so that one more that forgets its row, or one of the five that marks it, would
break it. `NoDoubleExecution` is about workers' hands; the executor child that outlives
its worker is in section 5.

**CloudStoreProofs.** `OwnJournalLosesNothing` assumes `Procs = {p}`: one process owns the
journal. That is what it needs; with two, an append between another process's last read and
its rewrite is lost. The strengthening (`Accounted`) follows the entries through the drain:
each one in the file is kept, unread, delivered or given up, so a crash before the rewrite
finds the file as it was and one after it misses nothing.

`DeliveredInOrder` needs no such assumption, though the run has one process: even where
processes lose each other's entries they do not swap them. Each process inside a drain holds a
copy of some state of the file (`Copies`: what it kept, then what it has not read), perhaps of a
file that was replaced since. `OrderInv` says that a followed write is in a copy once, that what
one copy has ahead of a write is ahead of it in every other copy that has the write, or is on
the server or given up (`Agree`), and that the write in a process's hand is in no copy, for it
is the one its run has come to (`Past`, `OneCall`). An append puts a write behind everything
that copies of the same file have; a delivery takes the first of a copy. Writes of runs that are
not followed may be in a copy any number of times.

**ExecutorProofs.** Nothing on the report pipe says which lease the worker should take it for,
so `ReportIsForItsItem` needs to know what is in both pipes at every point. `EInv` says it: a live
child holds at most one of a job on its way, a job at work and a report, that one is of the
lease in hand, and only while the worker reads; a child that was given up is not there any
more. For the environment: what is set beyond the operator's names is exactly what
`injected` remembers (`Provided`), so that removing those names leaves nothing of the last item;
for alarms: armed only between the body and the `finally`, for the job in hand (`Scoped`). `SettledByItsOwn`,
`NothingLeaks` and `RunsUnderItsOwnSecrets` follow.

**BundlesProofs.** `DirectoriesOnceAndWhole` does not use the lock at all: a staging directory is
its process's own, is whole when that process is at the rename, and a directory that is there
is never replaced. `AlwaysItsOwnCode` rests on `BInv`: the finder's root for a token, and the
module under the shared name while a scope is open, are of that token's account and version, no
module is left under the shared name when no scope is open, and of what does stay, the submodule
under a token's own name is of that token and the one under the dotted name of the token that was
first to ask (`Kept`).

**DeployProofs.** `VerdictsAreEarned`: what has been found of a deployment is what can be met with
its bundle, its status and a verdict on its way are what `Verdict` makes of something found
(`Earned`, `Claimed`, `Said`), and findings are added and never taken back (`GoOn`), so a late or
second verdict is earned as the first was. The theorem covers all six kinds of bundle.
`TriggersAfterTheBundle`: an invocation that plans or writes has all agents of its file up and
none failed (`Invoked`), and what it took for up had been decided and stays so (`Informed`).
`SuccessConverges` follows what an invocation knows of a resource that nobody else wrote since
it listed it: before its own PUT the rows are still those it listed, so that a resource without an
operation has the declared keys already, and after it they are what it sent (`Converging`). It
says nothing of what somebody else's PUT replaced meanwhile, and the code does not either.

**ItemProofs.** All of it rests on one fact: calls start in order in every pass, so the label a
call gets is a function of its place in the body (`Place`), the same in the pass that records it
and in the one that finds it. `IInv` has the counters of occurrences agree with that (`InOrder`);
every row, on the server, in a journal or in the cache, stem from the call of its label or from a
copy (`RowsStem`); the attempts of a pass be at least those it loaded and, for labels it has not
come to, at most those the server knows (`AttemptsFollow`); what a pass that began after the last
pause may hand out exclude what that pause counted (`PauseKnown`); and what a pass holds be
recorded until an exception leaves its body (`HeldIsRecorded`). `HitsAreTheSameWork` is then a
matter of the two indexes, by position for own rows and by record for copied ones;
`KeysFollowRecords` of the seeds; `FencesAreSpentOnce` and `CountedIsNotReused` of what `Begin`
subtracts. `ItemAssumption` is about the environment: a call waits only for earlier ones of
the body, and the server copies no two checkpoints of one step under one record.

**LedgerProofs.** The last end, the seal and the dispositions write a run's row, by different
processes in any order, so `IInv` speaks of a run as of sets of items: `Books` (`Tells`) says that
its counters are the sizes of the sets of items that first ended completed and failed, that it is
closed exactly when these are all, and what its status must then be. Only a driver that has
work left adds items to a minted run: it is the only one to (`OwnersDiffer`), and there is room
for what it has left (`OpenRuns`). Every action is one of a few things done to the tables (a run
minted, an item inserted or ended, a row recorded, a run sealed, a letter resolved), and a
lemma for each carries the invariant. `EndsAreCountedOnce`, `RunsTellTheirItems`,
`AggregatesAreOfRows` and `DispositionsAreFinal` follow. `RunsTellTheirItems` speaks of runs none
of whose items ended a second time (`anew`): the statement that left that out has no proof,
because an item that failed and completes when it is entered again leaves its run 'partial'
without a dead letter (section 5).

**MigrationProofs.** The theorems assume `Procs = {p}`: a file is opened by one process at a
time, since two break one another (section 5). They hold for any set of versions the file may be
found at and any number of crashes. The properties speak of the file only, and what the next
statement does to it depends on where the process is: `MigrationIInv` adds that (`Located`).
For every version it says how many statements of the migration the file has, that the
process does not stand further on than these, that a copy from before them exists, and, as long
as nothing crashed, that they are as many as the process executed. From such a place a statement
leads to the next (`NextPart`), finds itself done and leaves the tables alone (`PartAgain`), or,
with a crash behind it, is refused; the last place is the next version (`PartLast`), which is
where `Schema` and the statements meet, thirteen times. That works since every migration but one
only adds columns, or only drops them, besides one table that is created; so what is left to do
never depends on how often the first part was done. Version 11's rebuild renames, and is written out
(`Rebuilding(0)` to `Rebuilding(10)`, and `Wrecked`, which a second attempt makes of the tenth);
its second attempt gets no further than its second statement, which is what
`OlderVersionsReopen` and `CheckpointsSurvive` say of versions 11 and up.
`VersionsTellTables` (from `KeepsBetweenVersions` and `OpensCurrent`), `ReopensOlder` and
`KeepsCheckpoints` follow. Of a new
file whose creation crashed nothing is said, by the properties or the theorems.

**Only model-checked.** All liveness (`EveryItemSettles`, `DrainEnds`, `JournalDrains`,
`ItemEnds`, `BudgetedItemSettles`, `AskedIsAnswered`, `DeployEnds`), which is out of TLAPS's
reach. Every invariant and every action property that a run checks has a theorem.

## 5. What the models leave out

* Requests are atomic at the server; JSON, HTTP status text, logging, telemetry, RSS
  recycling and environment scrubbing are not modelled.
* `CloudStore`: an append to, an opening of and a replacement of the journal are each one
  step; interrupts fall during requests. The window between `exists()` and `open()` only raises.
* `Item`: passes do not overlap (`WorkerPool` says when that is so); the body names the same
  calls in every pass, which is the contract of the class; the run row exists already, as on
  the hosted path; stamps are monotone; each pass makes a new store (`papayya.py:139`),
  although the comment at `cloud_store.py:276` speaks of one per process; a completed
  PATCH on a paused run leaves it paused, which is how `cli.py` reads it. Snapshots,
  `prepopulated_tasks`, outcome inspection and the result list are left out.
* `Ledger`: one agent; an item is driven by one process at a time; a `with self._conn` block is
  atomic; marks are counted per pass, not named after steps; the percentage of the workload
  fence is a half. Which steps a replay prepopulates is left out.
* `Migration`: one opener at a time; indexes are left out (they are created and dropped IF [NOT]
  EXISTS); the columns one version adds to one table are one column.
* `Executor`: a body is one region in which the alarm may ring at any time; the `finally` and the
  report are one step, with the ring in between as a step of its own.
* `Bundles`: a bundle is an entrypoint and a package with one submodule, under names that all
  bundles use; circular imports and `baked_deps.py` (text analysis of a requirements file) are
  left out. Recycling on a changed
  dependency hash is in `WorkerPool`.
* `Deploy`: schedules are a cron key and a zone; the archive's contents, the preflight on baked
  dependencies, pruning prompts and printing are left out.

**Not modelled**: the memory and file checkpoint stores (without concurrency; the rows of
`Item` are what they promise), outcome inspection and classification (pure functions over
arbitrary values and texts), cohort diff, fixtures and offline verification (no state that
outlives a call), client methods that are one request, the commands of the CLI other than
`deploy`, the bundler.

### Known and not run

Found while modelling, where the code and what is written about it disagree or a model would
fail a stronger property. Each is reproducible by reading the lines; none is claimed by a run.

*Dispatcher and workers.* The reaper re-queues an expired item without its `agent_version`
(`dispatcher.py:563`; `tests/integration/test_multi_version_dispatch` expects it kept). Five
failures complete the lease and leave the run row in progress for good, as the comment at
`worker.py:1246` says of such paths: a missing version (2155), a pending recycle (2168), no agent
module (2282), an agent the bundle does not have in process (2302), and a pause that a dispatcher
without `/release` has to be told as a failure (1957; to the control plane that run stays paused). `RunMatchesOutcome` pins that these five do
and no other path does; that the row agrees after every path is false. A `recycle_pending`
item is completed as failed although the comment at `worker.py:2169` counts on redelivery. An
executor child outlives a worker that crashes or is ended by the watchdog ("the child
outlives nothing", `worker.py:1571`).

*Store and items.* On the runtime lane a journaled entry is reissued with another run's token
and dropped (`cloud_store.py:197`, `agent.py:218`). A timeout or an interrupt that is raised
inside the drain is swallowed (`cloud_store.py:551`, `worker.py:334`). Two processes that share a
working directory can lose a journaled write. A journaled write can be overtaken by a newer
one when the server recovers in between. A copied aggregate is handed out over a page executed in an
earlier pass (`run.py:1046`, against the comment at 1037). A copied row whose label an own row
later takes is executed again by the next pass.

*Ledger.* A `map` or `iter` item stopped by its own fence ends failed, because Python closes the
generator with `GeneratorExit` (`iterators.py:254`). The docstring of
`_promote_partial_if_drained` counts on replays putting fresh items in the source's run; they
put them in another. A single-item replay never records `replayed_from`. An item that failed
and completes when it is entered again leaves its run 'partial' with no dead letter. Marks
are named after their place in the pass, so a second pass's mark is taken for the first's and
dropped. Two processes that drive one item can count it twice (`sqlite_store.py:1076`). A mark
or an 'ok' row saved in between breaks a streak of K. Two concurrent replays of one dead letter both drive it.

*Migrations.* Two concurrent openers break one another. A crash between two unguarded ADD COLUMNs
(versions 13 and 14) leaves a file that raises "duplicate column" for ever. A crash while a new
file is created leaves one that says version 14 and misses tables, or has no version. Two
crashes in version 12's rebuild can lose the rows entirely, when the copy was cut short as well.

*Executor.* A secret named like a let-through name that is not reserved overwrites it
(`executor.py:158` says otherwise). Clients made at import keep the first item's secrets. A limit
that only the decorator sets gives the worker no deadline. In process, an alarm that rings in a
handler or in a report's retry escapes `run()`'s `except Exception`. A body's own
`asyncio.TimeoutError` is reported as the timeout. `run_job` ("Never raises") raises for
`sys.exit()` in a body and for an alarm in an `except` clause.

*Bundles.* The cache key has no project, although a slug is unique per project only
(`_fetch_bundle`'s docstring). The residency token has no agent, so two agents of one account
at one version share the finder's root. Circular imports of neighbours end in a
`RecursionError`; a neighbour imported in a body is executed anew at every activation. A submodule
imported by its dotted name (`from pkg.sub import x`) stays in `sys.modules`, and whoever asks for
it by that name later in this process, in another version or another account's bundle, is handed the
first one's; `RunsItsOwnCode` says exactly that, and the isolation that the loader promises
holds for top-level and relative imports only. A bundle without its agent can pick up another
account's registration in process. Staging directories of killed processes stay.

*Deploy.* `--dry-run` uploads and deploys a live version. Removing the file's last trigger leaves
the old rows firing (`cli.py:1167`); agents removed from the file keep theirs. The time zone of
a schedule is previewed and never sent (`_reconcile.py:316`, against "byte-faithful" at
`cli.py:1181`). A read timeout in a later PUT loses the webhook secrets that are "only shown
once". A half-converged state is possible (the re-run converges), though `_reconcile`'s docstring denies it.
`--agent-id` with several agents and no project skips all and exits 0. "NOT deployed" after 120 s
may still become ready. A bundle that imports is reported as failed when the server answers 404
for it once (`worker.py:1684`) or its child is killed, for memory for one, and a second verdict
may follow either way. Unchanged operations are printed as "delete (not in yaml)". A bundle
that prints after the marker never gets a verdict.

## 6. The plan

Done: all modules of section 2, and proofs of every safety property that a run checks. What is
left, in order of worth:

1. An abstract ledger (a run's status as a function of its items' ends) that `Ledger` implements
   as long as no ended item is entered again; `Books` and `Tells` of `LedgerProofs` are what its
   refinement proof needs.
2. `Executor` as what happens inside `WorkerPool`'s `Execute`: a report per lease, or the worker's
   own finding.
3. Marks under `asyncio.gather` in `Item` (`_mark_label` names the last step entered), and which
   steps a rewind prepopulates.

A dozen runs is what the project keeps: a new one takes the place of the weakest.
