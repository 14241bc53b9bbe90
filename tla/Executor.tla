------------------------------- MODULE Executor -------------------------------
(***************************************************************************)
(* How a hosted item is run: the worker's main thread, which holds the      *)
(* platform key and runs no customer code (runtime/worker.py), and the      *)
(* child that does (runtime/executor.py).                                   *)
(*                                                                         *)
(* The child serves the items of one (account, agent, version) one after    *)
(* the other: it installs the item's secrets, imports the bundle once, runs *)
(* the body under the item's context and a SIGALRM, and reports.  The       *)
(* worker reads one report for each job it sent, or gives the child up.     *)
(* The alarm and the worker's deadline may come at any moment of the item,  *)
(* and the child may be killed at any; MaxFaults bounds that.               *)
(***************************************************************************)
EXTENDS Naturals, Sequences

CONSTANTS
  Agents,     \* the (account, agent, version) that leases are for
  Async,      \* those whose function is a coroutine
  OwnLimit,   \* those whose decorator sets max_duration_seconds
  Bundle,     \* what importing one does: "ok", "raises", "exits", "no_agent"
  Secrets,    \* the names of each project's secrets
  Reserved,   \* names a secret may not take
  Ambient,    \* names the child gets from the operator that are not reserved
  Reuse,      \* --executor-reuse: "version" or "item"
  MaxLeases,  \* bound
  MaxFaults   \* bound: kills of the child and failed spawns

Projects == DOMAIN Secrets
Names == UNION {Secrets[p] : p \in Projects} \cup Reserved \cup Ambient

ASSUME ExecutorAssumption ==
  /\ Async \subseteq Agents /\ OwnLimit \subseteq Agents
  /\ Bundle \in [Agents -> {"ok", "raises", "exits", "no_agent"}]
  /\ Reuse \in {"version", "item"}
  /\ MaxLeases \in Nat /\ MaxFaults \in Nat
  /\ Projects \cap {"unset", "operator"} = {}

VARIABLES
  lease,    \* the lease in hand
  at,       \* where the worker is with it
  child,    \* the executor it has
  outcome,  \* what it made of each lease, and whose report it went by
  faults

vars == <<lease, at, child, outcome, faults>>

\* The payload's max_duration_seconds is the worker's budget; project is whose
\* secrets came with the lease.
Lease == [id : 1..MaxLeases, agent : Agents, project : Projects, limit : BOOLEAN]
NoLease == [id |-> 0]

Key(l) == IF Reuse = "item" THEN <<l.agent, l.id>> ELSE <<l.agent>>

SpawnEnv == [n \in Names |-> IF n \in Reserved \cup Ambient THEN "operator" ELSE "unset"]

Spawned(l) ==
  [alive |-> TRUE, key |-> Key(l), env |-> SpawnEnv, injected |-> {},
   imported |-> "no", at |-> "wait", job |-> NoLease, sent |-> << >>,
   context |-> 0, alarm |-> 0, result |-> "failed", reports |-> << >>]

NoChild == [alive |-> FALSE, key |-> << >>, reports |-> << >>]

Fault == faults < MaxFaults /\ faults' = faults + 1

-----------------------------------------------------------------------------
(* The worker. *)

Take(agent, project, limit) ==
  /\ at = "poll" /\ Len(outcome) < MaxLeases
  /\ lease' = [id |-> Len(outcome) + 1, agent |-> agent, project |-> project, limit |-> limit]
  /\ at' = "spawn"
  /\ UNCHANGED <<child, outcome, faults>>

Settle(kind, of) ==
  /\ outcome' = Append(outcome, [kind |-> kind, of |-> of])
  /\ lease' = NoLease /\ at' = "poll"

\* A child serves one key, and not after its death.
Usable(l) == child.alive /\ child.key = Key(l)

\* _executor_for: another key's child is closed before this one's is started.
ExecutorFor ==
  /\ at = "spawn"
  /\ \/ /\ child' = IF Usable(lease) THEN child ELSE Spawned(lease)
        /\ at' = "send"
        /\ UNCHANGED <<lease, outcome, faults>>
     \/ /\ ~Usable(lease) /\ Fault
        /\ child' = NoChild
        /\ Settle("executor_unavailable", 0)

\* A child that died since leaves a broken pipe, and stays to be found dead.
Send ==
  /\ at = "send"
  /\ IF child.alive
     THEN /\ child' = [child EXCEPT !.sent = Append(@, lease)]
          /\ at' = "read"
          /\ UNCHANGED <<lease, outcome>>
     ELSE /\ Settle("executor_unavailable", 0)
          /\ UNCHANGED child
  /\ UNCHANGED faults

\* What the child reports decides the lease's verb and the run's status.
ReadReport ==
  /\ at = "read" /\ child.reports # << >>
  /\ Settle(Head(child.reports).kind, Head(child.reports).of)
  /\ child' = [child EXCEPT !.reports = Tail(@)]
  /\ UNCHANGED faults

ReadEnd ==
  /\ at = "read" /\ ~child.alive /\ child.reports = << >>
  /\ Settle("executor_died", 0)
  /\ child' = NoChild
  /\ UNCHANGED faults

\* (mutant) Only a plain function is given a deadline.
MutBudgeted(l) == l.limit /\ l.agent \notin Async

\* The worker has a deadline only if the payload says so.
Budgeted(l) == l.limit

\* (mutant) The late child is left to finish, and used again.
MutGivenUp(c) == c

\* The late child is killed.
GivenUp(c) == NoChild

Deadline ==
  /\ at = "read" /\ Budgeted(lease)
  /\ Settle("timeout", 0)
  /\ child' = GivenUp(child)
  /\ UNCHANGED faults

-----------------------------------------------------------------------------
(* The child. *)

\* The names of an item's secrets, but those the process itself runs on.
Own(l) == Secrets[l.project] \ Reserved

\* (mutant) The previous item's names stay.
MutInstalled(c, l) ==
  [c EXCEPT !.env = [n \in Names |-> IF n \in Own(l) THEN l.project ELSE @[n]],
            !.injected = Own(l)]

\* _apply_secrets: the names of the previous item are taken out, then this one's put
\* in, except those that are reserved.
Installed(c, l) ==
  [c EXCEPT !.env = [n \in Names |-> IF n \in Own(l) THEN l.project
                                     ELSE IF n \in c.injected THEN "unset" ELSE @[n]],
            !.injected = Own(l)]

Works(where) == child.alive /\ child.at = where

Receive ==
  /\ Works("wait") /\ child.sent # << >>
  /\ child' = [Installed(child, Head(child.sent)) EXCEPT
                 !.at = "import", !.job = Head(child.sent), !.sent = Tail(@)]

Reported(c, kind) ==
  [c EXCEPT !.at = "wait", !.context = 0, !.job = NoLease,
            !.reports = Append(@, [kind |-> kind, of |-> c.job.id])]

Dead(c) == [c EXCEPT !.alive = FALSE, !.context = 0, !.alarm = 0]

Limited(c) == c.job.limit \/ c.job.agent \in OwnLimit

\* The scope is entered; a plain function runs under an alarm.
Entered(c) ==
  [c EXCEPT !.at = "body", !.context = c.job.id,
            !.alarm = IF Limited(c) /\ c.job.agent \notin Async THEN c.job.id ELSE 0]

\* The bundle is imported with the first item; an import that raises is tried again
\* with the next, and one that exits takes the process with it.
Import ==
  /\ Works("import")
  /\ LET bundle == Bundle[child.job.agent]
     IN child' =
          IF child.imported = "yes" THEN Entered(child)
          ELSE IF child.imported = "no_agent" THEN Reported(child, "no_registration")
          ELSE CASE bundle = "ok" -> Entered([child EXCEPT !.imported = "yes"])
                 [] bundle = "no_agent" ->
                      Reported([child EXCEPT !.imported = "no_agent"], "no_registration")
                 [] bundle = "raises" -> Reported(child, "failed")
                 [] bundle = "exits" -> Dead(child)

\* The body returns, raises, or stops for a pause or for credit.
BodyEnds(kind) ==
  /\ Works("body")
  /\ child' = [child EXCEPT !.at = "leave", !.result = kind]

\* sys.exit() in the body is no Exception: nothing in the child catches it.
BodyExits ==
  /\ Works("body")
  /\ child' = Dead(child)

\* A plain function's alarm, which rings once.  The body may swallow it.  When it
\* rings in an except clause or in the finally, nobody is left to catch it.
Alarm ==
  /\ child.alive /\ child.alarm # 0
  /\ \/ /\ child.at = "body"
        /\ \E swallowed \in BOOLEAN :
             child' = [child EXCEPT !.alarm = 0, !.result = "timeout",
                                    !.at = IF swallowed THEN @ ELSE "leave"]
     \/ /\ child.at # "body"
        /\ child' = Dead(child)

\* wait_for cancels the coroutine.
Cancel ==
  /\ Works("body") /\ Limited(child) /\ child.job.agent \in Async
  /\ child' = [child EXCEPT !.at = "leave", !.result = "timeout"]

\* (mutant) The alarm is disarmed when the body has returned.
MutDisarmed(c) == IF c.result = "completed" THEN [c EXCEPT !.alarm = 0] ELSE c

\* The finally disarms the alarm, however the body ended.
Disarmed(c) == [c EXCEPT !.alarm = 0]

Leave ==
  /\ Works("leave")
  /\ child' = Reported(Disarmed(child), child.result)

Killed ==
  /\ child.alive /\ Fault
  /\ child' = Dead(child)
  /\ UNCHANGED <<lease, at, outcome>>

-----------------------------------------------------------------------------
ExecutorInit ==
  /\ lease = NoLease /\ at = "poll" /\ child = NoChild
  /\ outcome = << >> /\ faults = 0

Supervises == ExecutorFor \/ Send \/ ReadReport \/ ReadEnd \/ Deadline

Runs ==
  /\ \/ Receive \/ Import \/ BodyExits \/ Alarm \/ Cancel \/ Leave
     \/ \E kind \in {"completed", "failed", "released"} : BodyEnds(kind)
  /\ UNCHANGED <<lease, at, outcome, faults>>

ExecutorNext ==
  \/ \E a \in Agents, p \in Projects, limit \in BOOLEAN : Take(a, p, limit)
  \/ Supervises \/ Runs \/ Killed

\* The worker goes on; of the child nothing is promised, its body least of all.
ExecutorSpec == ExecutorInit /\ [][ExecutorNext]_vars /\ WF_vars(Supervises)

-----------------------------------------------------------------------------
(* What must hold. *)

\* A lease is settled by a report about itself or by the worker's own finding, never
\* by what a late or dead child said of an earlier item (read_report takes the next
\* line whatever it is about).
ReportIsForItsItem ==
  \A n \in DOMAIN outcome : outcome[n].of \in {0, n}

\* Customer code runs only for the lease in hand, in a process that has served its
\* account, agent and version alone, under its own run context, and it sees of all
\* projects' secrets exactly those that came with the lease.  Of the names that the
\* operator let through it says nothing.
RunsUnderItsOwn ==
  child.alive /\ child.at \in {"import", "body"} =>
    /\ at = "read" /\ child.job = lease /\ child.key = Key(lease)
    /\ child.at = "body" => child.context = lease.id
    /\ \A n \in Names \ Ambient :
         child.env[n] = IF n \in Reserved THEN "operator"
                        ELSE IF n \in Secrets[lease.project] THEN lease.project ELSE "unset"

\* No alarm and no run credential outlives its item, whether the body returned,
\* raised, was paused or swallowed the timeout ("no SIGALRM leaks across leases").
NothingLeaksToTheNext ==
  child.alive =>
    /\ child.alarm # 0 => child.at \in {"body", "leave"} /\ child.alarm = child.job.id
    /\ child.at \in {"wait", "import"} => child.context = 0

\* An item whose payload has a budget is settled, even if its body never ends,
\* swallows the alarm or sits where none is delivered: the worker's deadline does not
\* depend on the child.
BudgetedItemSettles ==
  (at # "poll" /\ lease.limit) ~> (at = "poll")

================================================================================
