-------------------------------- MODULE Deploy --------------------------------
(***************************************************************************)
(* papayya deploy (cli.py, _reconcile.py, api.py), the canary that answers  *)
(* it (runtime/worker.py), and the control plane between them.              *)
(*                                                                         *)
(* A deployer uploads one bundle for each agent of its working tree, waits   *)
(* until a worker of the pool has imported it, and then makes the schedules  *)
(* and webhooks on the server what the decorators declare.  Workers pick up  *)
(* waiting deployments before each lease poll, import the bundle in a child  *)
(* and report.  Deployers, workers, their deaths and lost responses          *)
(* interleave; MaxDeploys and MaxFaults bound them.                          *)
(*                                                                         *)
(* The server is external: it is what these calls make of it.  A resource is *)
(* what one PUT replaces, the code-managed schedules or webhooks of an       *)
(* agent; the rows of the dashboard are in neither the diff nor the PUT.     *)
(***************************************************************************)
EXTENDS Naturals, Sequences, Functions

CONSTANTS
  Deployers,   \* processes that run the command
  Workers,     \* of the managed pool
  Trees,       \* each one's working trees: its agents in order, what importing its
               \* bundle does, and the rows it declares for each resource
  HasProject,  \* FALSE: --agent-id for several agents and no project; they are skipped
  None,        \* no deployment in hand
  MaxDeploys,  \* bound: invocations of the command
  MaxChecks,   \* bound: how often a worker is given a deployment to check
  MaxFaults    \* bound: failed calls, lost responses, deaths of workers, and a bundle that
               \* cannot be checked

Kinds == <<"schedule", "webhook">>

AllTrees == UNION {Trees[d] : d \in Deployers}
Resources == UNION {DOMAIN t.declares : t \in AllTrees}

\* An agent's schedules are planned and applied before its webhooks.
InOrder(tree) ==
  [i \in 1..2 * Len(tree.agents) |-> <<tree.agents[(i + 1) \div 2], Kinds[2 - (i % 2)]>>]

Imports == {"ok", "raises", "dies", "hangs", "slow", "noisy"}

Outcomes == {"ready", "ready_unverified", "failed"}

ASSUME DeployAssumption ==
  /\ HasProject \in BOOLEAN /\ {MaxDeploys, MaxChecks, MaxFaults} \subseteq Nat
  /\ \A t \in AllTrees :
       /\ t.agents \in Seq(Range(t.agents)) /\ t.agents # << >>
       /\ t.imports \in Imports /\ DOMAIN t.declares = Range(InOrder(t))
  /\ None \notin Nat

VARIABLES
  cli,          \* each deployer's invocation
  agents,       \* the server: agents that exist
  deployments,  \* the server: each upload's agent, imports and status; found is for the
                \* properties, all that workers have judged it by
  rows,         \* the server: the code-managed rows of each resource
  canary,       \* each worker's deployment and what it made of it
  deploys, checks, faults

vars == <<cli, agents, deployments, rows, canary, deploys, checks, faults>>
server == <<agents, deployments, rows>>

NoRows == [r \in Resources |-> {}]

Idle == [pc |-> "idle"]

\* One invocation: at is the agent or the resource it is at; up and down are
\* deployed and failed_deploys; plan is what it has listed.  dry is set where the flag is
\* first looked at.
Started(tree) ==
  [pc |-> "find", tree |-> tree, dry |-> FALSE, at |-> 1, id |-> 0,
   up |-> {}, down |-> {}, plan |-> NoRows, raced |-> {}, exit |-> 0]

Fault == faults < MaxFaults /\ faults' = faults + 1

-----------------------------------------------------------------------------
(* The deployer. *)

At(d, pc) == cli[d].pc = pc

\* The process is over; what it had done and how it exited is all that remains.
Done(c, code) ==
  [Started(c.tree) EXCEPT !.pc = "done", !.exit = code, !.raced = c.raced, !.dry = c.dry]

Exit(d, code) == cli' = [cli EXCEPT ![d] = Done(@, code)]

Here(d) == cli[d].tree.agents[cli[d].at]

Start(d, tree) ==
  /\ cli[d].pc \in {"idle", "done"} /\ deploys < MaxDeploys
  /\ cli' = [cli EXCEPT ![d] = Started(tree)]
  /\ deploys' = deploys + 1
  /\ UNCHANGED <<server, canary, checks, faults>>

Declares(tree) == \E r \in DOMAIN tree.declares : tree.declares[r] # {}

This(c) == InOrder(c.tree)[c.at]
Last(c) == c.at = Len(InOrder(c.tree))

\* What follows the last agent: any that is not up ends the command; triggers are
\* looked at only if the file declares some.
AfterUploads(c) ==
  IF c.down # {} THEN Done(c, 1)
  ELSE IF Declares(c.tree) THEN [c EXCEPT !.pc = "list", !.at = 1]
  ELSE Done(c, 0)

NextAgent(c) ==
  IF c.at < Len(c.tree.agents) THEN [c EXCEPT !.at = @ + 1, !.pc = "find"]
  ELSE AfterUploads(c)

\* The agent is looked for; without a project it is skipped, and not as a failure.
Find(d) ==
  /\ At(d, "find")
  /\ cli' = [cli EXCEPT ![d] =
               IF ~HasProject THEN NextAgent(@)
               ELSE [@ EXCEPT !.pc = IF Here(d) \in agents THEN "upload" ELSE "create"]]
  /\ UNCHANGED <<server, canary, deploys, checks, faults>>

\* A teammate may have created it in between; the server refuses a slug it has.
Create(d) ==
  /\ At(d, "create")
  /\ IF Here(d) \in agents THEN Exit(d, 1) ELSE cli' = [cli EXCEPT ![d].pc = "upload"]
  /\ agents' = agents \cup {Here(d)}
  /\ UNCHANGED <<deployments, rows, canary, deploys, checks, faults>>

Uploaded(d) ==
  Append(deployments, [agent |-> Here(d), imports |-> cli[d].tree.imports,
                       status |-> "verifying", found |-> {}])

Upload(d) ==
  /\ At(d, "upload")
  /\ deployments' = Uploaded(d)
  /\ cli' = [cli EXCEPT ![d].id = Len(deployments) + 1, ![d].pc = "await"]
  /\ UNCHANGED <<agents, rows, canary, deploys, checks, faults>>

\* A poll of the deployment that finds it settled.
Await(d) ==
  /\ At(d, "await")
  /\ LET status == deployments[cli[d].id].status
     IN /\ status \in Outcomes
        /\ cli' = [cli EXCEPT ![d] =
                     NextAgent(
                       IF status = "failed" THEN [@ EXCEPT !.down = cli[d].down \cup {Here(d)}]
                       ELSE [@ EXCEPT !.up = cli[d].up \cup {<<Here(d), cli[d].id>>}])]
  /\ UNCHANGED <<server, canary, deploys, checks, faults>>

\* (mutant) It waits for as long as the pool takes.
MutPatient(status) == FALSE

\* Its deadline lies past the reclaim of a canary whose worker died.
Patient(status) == status = "verifying"

\* (mutant) A pool that is slow is no reason to fail, like an empty one.
MutGiveUp(d) ==
  /\ At(d, "await") /\ Patient(deployments[cli[d].id].status)
  /\ cli' = [cli EXCEPT ![d] = NextAgent([@ EXCEPT !.up = cli[d].up \cup {<<Here(d), cli[d].id>>}])]
  /\ UNCHANGED <<server, canary, deploys, checks, faults>>

\* The deadline, and the deployment counts as failed although it may yet be ready.
GiveUp(d) ==
  /\ At(d, "await") /\ Patient(deployments[cli[d].id].status)
  /\ cli' = [cli EXCEPT ![d] = NextAgent([@ EXCEPT !.down = cli[d].down \cup {Here(d)}])]
  /\ UNCHANGED <<server, canary, deploys, checks, faults>>

Keys(set) == {row.key : row \in set}

Deployed(c) == {u[1] : u \in c.up}

\* diff_env lists one resource after the other.  Every agent it has triggers for must
\* be one it has just deployed.
List(d) ==
  /\ At(d, "list")
  /\ LET c == cli[d]
     IN IF Range(c.tree.agents) \subseteq Deployed(c)
        THEN cli' = [cli EXCEPT ![d].plan[This(c)] = Keys(rows[This(c)]),
                                ![d].raced = @ \ {This(c)},
                                ![d].at = IF Last(c) THEN 1 ELSE @ + 1,
                                ![d].pc = IF Last(c) THEN "preview" ELSE @]
        ELSE Exit(d, 1)
  /\ UNCHANGED <<server, canary, deploys, checks, faults>>

\* The preview asks the server, in every deploy, and changes nothing.  Only after it is
\* --dry-run looked at: it has uploaded like any other.
Preview(d) ==
  /\ At(d, "preview")
  /\ \/ cli' = [cli EXCEPT ![d] = Done([@ EXCEPT !.dry = TRUE], 0)]
     \/ cli' = [cli EXCEPT ![d].pc = "apply"]
  /\ UNCHANGED <<server, canary, deploys, checks, faults>>

\* (mutant) The rows that are there already are not sent again.
MutDesired(c) ==
  {[key |-> key, zone |-> "UTC"] : key \in Keys(c.tree.declares[This(c)]) \ c.plan[This(c)]}

\* The body of the PUT is the union of what is new and what is unchanged, by its key
\* alone: the server gives a schedule sent without a time zone its default.
Desired(c) ==
  {[key |-> key, zone |-> "UTC"] : key \in Keys(c.tree.declares[This(c)])}

\* Nothing is sent for a resource whose keys are all there and all declared.
Unchanged(c) == c.plan[This(c)] = Keys(c.tree.declares[This(c)])

Applied(c) ==
  IF Last(c) THEN Done(c, 0) ELSE [c EXCEPT !.at = @ + 1]

\* A PUT replaces all rows of the resource.  raced is kept for the properties: the
\* resources that somebody else wrote since they were listed.
Put(d) ==
  LET r == This(cli[d])
      Others(mine) == [e \in Deployers |->
        IF e = d THEN mine
        ELSE IF cli[e].pc = "idle" THEN cli[e]
        ELSE [cli[e] EXCEPT !.raced = cli[e].raced \cup {r}]]
  IN /\ rows' = [rows EXCEPT ![r] = Desired(cli[d])]
     /\ \/ /\ cli' = Others([Applied(cli[d]) EXCEPT !.raced = Applied(cli[d]).raced \ {r}])
           /\ UNCHANGED faults
        \/ /\ cli' = Others(Done(cli[d], 1))
           /\ Fault

Apply(d) ==
  /\ At(d, "apply")
  /\ IF Unchanged(cli[d])
     THEN /\ cli' = [cli EXCEPT ![d] = Applied(@)]
          /\ UNCHANGED <<rows, faults>>
     ELSE Put(d)
  /\ UNCHANGED <<agents, deployments, canary, deploys, checks>>

\* Any call may fail before it reaches the server, and the command ends.  An upload or
\* a create may also have reached it: its deployment waits for a worker all the same.
CallFails(d) ==
  /\ cli[d].pc \in {"find", "create", "upload", "await", "list", "preview", "apply"}
  /\ Fault
  /\ Exit(d, 1)
  /\ \/ UNCHANGED server
     \/ /\ At(d, "create")
        /\ agents' = agents \cup {Here(d)}
        /\ UNCHANGED <<deployments, rows>>
     \/ /\ At(d, "upload")
        /\ deployments' = Uploaded(d)
        /\ UNCHANGED <<agents, rows>>
  /\ UNCHANGED <<canary, deploys, checks>>

-----------------------------------------------------------------------------
(* The pool. *)

NoCanary == [of |-> None, verdict |-> "none"]

\* A worker asks before each lease poll.  The server hands out a deployment that nobody
\* has claimed, or whose claim went stale: its worker died, or is slow.
PollCanary(w) ==
  /\ canary[w] = NoCanary /\ checks < MaxChecks
  /\ checks' = checks + 1
  /\ \E id \in DOMAIN deployments :
       /\ deployments[id].status = "verifying"
       /\ canary' = [canary EXCEPT ![w] = [of |-> id, verdict |-> "none"]]
  /\ UNCHANGED <<cli, server, deploys, faults>>

\* What comes of importing a bundle in a child: the child says that it did, or what was
\* raised; it ends without the marker; it is not done in time; or it prints after the
\* marker, and what it said cannot be read.
Results(imports) ==
  CASE imports = "ok" -> {"imported"}
    [] imports = "raises" -> {"raised"}
    [] imports = "dies" -> {"died"}
    [] imports = "hangs" -> {"late"}
    [] imports = "slow" -> {"imported", "late"}
    [] imports = "noisy" -> {"unreadable"}

\* With any bundle: the child is killed, for memory for one; the server answers that it has
\* no such bundle, and nothing is imported; the server cannot be reached, the archive not
\* be extracted or the child not be started.
Troubles == {"killed", "missing", "unreachable"}

Failures == {"raised", "died", "late", "killed", "missing"}

\* (mutant) Whatever is not the answer "ok" is the bundle's failure.
MutVerdict(result) == IF result = "imported" THEN "ready" ELSE "failed"

Verdict(result) ==
  CASE result = "imported" -> "ready"
    [] result \in Failures -> "failed"
    [] OTHER -> "none"

\* Without a verdict the claim is left to go stale.
HandleCanary(w) ==
  /\ canary[w].of # None /\ canary[w].verdict = "none"
  /\ LET id == canary[w].of
     IN \E result \in Results(deployments[id].imports) \cup Troubles :
          /\ IF result \in Troubles THEN Fault ELSE UNCHANGED faults
          /\ IF Verdict(result) = "none"
             THEN canary' = [canary EXCEPT ![w] = NoCanary] /\ UNCHANGED deployments
             ELSE /\ canary' = [canary EXCEPT ![w].verdict = Verdict(result)]
                  /\ deployments' = [deployments EXCEPT ![id].found = @ \cup {result}]
  /\ UNCHANGED <<cli, agents, rows, deploys, checks>>

\* The verdict may be lost; it is not sent again.  Of two verdicts about one deployment
\* the server keeps either.
ReportCanary(w) ==
  LET id == canary[w].of
  IN /\ canary[w].verdict # "none"
     /\ canary' = [canary EXCEPT ![w] = NoCanary]
     /\ \/ deployments' = [deployments EXCEPT ![id].status = canary[w].verdict] /\ UNCHANGED faults
        \/ deployments[id].status # "verifying" /\ UNCHANGED <<deployments, faults>>
        \/ Fault /\ UNCHANGED deployments
     /\ UNCHANGED <<cli, agents, rows, deploys, checks>>

WorkerDies(w) ==
  /\ canary[w] # NoCanary /\ Fault
  /\ canary' = [canary EXCEPT ![w] = NoCanary]
  /\ UNCHANGED <<cli, server, deploys, checks>>

\* The server gives up waiting for a worker.
NobodyFree ==
  /\ \E id \in DOMAIN deployments :
       /\ deployments[id].status = "verifying"
       /\ deployments' = [deployments EXCEPT ![id].status = "ready_unverified"]
  /\ UNCHANGED <<cli, agents, rows, canary, deploys, checks, faults>>

-----------------------------------------------------------------------------
DeployInit ==
  /\ cli = [d \in Deployers |-> Idle]
  /\ agents = {} /\ deployments = << >> /\ rows = NoRows
  /\ canary = [w \in Workers |-> NoCanary]
  /\ deploys = 0 /\ checks = 0 /\ faults = 0

Goes(d) ==
  \/ Find(d) \/ Create(d) \/ Upload(d) \/ Await(d) \/ GiveUp(d)
  \/ List(d) \/ Preview(d) \/ Apply(d)

Checks(w) == PollCanary(w) \/ HandleCanary(w) \/ ReportCanary(w) \/ WorkerDies(w)

DeployNext ==
  \/ \E d \in Deployers :
       \/ \E tree \in Trees[d] : Start(d, tree)
       \/ Goes(d) \/ CallFails(d)
  \/ \E w \in Workers : Checks(w)
  \/ NobodyFree

\* The command goes on; that there is a pool, or that it answers, is not assumed.
DeploySpec ==
  /\ DeployInit /\ [][DeployNext]_vars
  /\ \A d \in Deployers : WF_vars(Goes(d))

-----------------------------------------------------------------------------
(* What must hold. *)

\* A deployment is ready only if a worker's child imported its bundle, and failed only if a
\* worker saw the import raise, die or take too long, saw its child killed, or was told that
\* there is no such bundle, which is the one verdict without an import.  A bundle that
\* imports fails only by those last two: no lost response, dead worker, stale claim or
\* second verdict, and nothing that a worker could not check, decides about a deployment
\* (_handle_canary: "rather than recording a verdict we did not earn").
VerdictIsEarned ==
  \A id \in DOMAIN deployments :
    LET d == deployments[id]
    IN /\ d.status = "ready" => "imported" \in d.found /\ d.imports \in {"ok", "slow"}
       /\ d.status = "failed" =>
            \E result \in d.found \cap Failures :
              d.imports \in {"ok", "noisy"} => result \in {"killed", "missing"}

\* Triggers are touched only once the bundle is up for every agent of the file
\* (deploy: exiting before the reconcile avoids "mutating schedules and webhooks for a
\* half-deployed bundle").
TriggersFollowTheBundle ==
  [][rows' # rows =>
       \E d \in Deployers :
         /\ At(d, "apply") /\ ~cli[d].dry /\ cli[d].down = {}
         /\ Deployed(cli[d]) = Range(cli[d].tree.agents)
         /\ \A u \in cli[d].up : deployments[u[2]].status # "verifying"]_vars

\* After a deploy that reconciled and exits 0, each resource that nobody else wrote in
\* between has exactly the declared keys, whatever earlier deploys left half done.
SuccessIsConverged ==
  \A d \in Deployers :
    At(d, "done") /\ cli[d].exit = 0 /\ ~cli[d].dry /\ Declares(cli[d].tree) =>
      \A r \in DOMAIN cli[d].tree.declares \ cli[d].raced :
        Keys(rows[r]) = Keys(cli[d].tree.declares[r])

\* The command comes back, with or without a pool: again and again each deployer has none
\* that is still running.
DeployEnds == \A d \in Deployers : []<>(cli[d].pc \in {"idle", "done"})

================================================================================
