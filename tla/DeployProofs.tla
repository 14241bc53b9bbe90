----------------------------- MODULE DeployProofs ------------------------------
(***************************************************************************)
(* Proofs about Deploy: a deployment's verdict is earned, triggers are       *)
(* written only for a file whose every agent is up, and a deploy that exits *)
(* 0 has converged, for any deployers, workers and working trees and any     *)
(* number of deploys and faults.                                            *)
(***************************************************************************)
EXTENDS Deploy, SequenceTheorems, TLAPS

-----------------------------------------------------------------------------
(* The invariant. *)

Statuses == {"verifying"} \cup Outcomes

\* All that a worker can come across with a bundle.
Met == (UNION {Results(imports) : imports \in Imports}) \cup Troubles

Deployment(A) == [agent : A, imports : Imports, status : Statuses, found : SUBSET Met]

Typed(ds) == \E A : ds \in Seq(Deployment(A))

\* An invocation: what is up or failed is of its tree, and it plans and writes only when
\* all of that is up.
Invoked(c) ==
  /\ DOMAIN c = {"pc", "tree", "dry", "at", "id", "up", "down", "plan", "raced", "exit"}
  /\ c.pc # "idle" /\ c.tree \in AllTrees
  /\ c.pc \in {"find", "create", "upload", "await"} => c.at \in DOMAIN c.tree.agents
  /\ Deployed(c) \subseteq Range(c.tree.agents)
  /\ c.pc \in {"list", "preview", "apply"} => c.down = {}
  /\ c.pc \in {"preview", "apply"} => Range(c.tree.agents) \subseteq Deployed(c)
  /\ c.pc # "done" => ~c.dry

Settled(ds, id) == id \in DOMAIN ds /\ ds[id].status # "verifying"

\* What it waits for exists, and what it took for up had been decided.
Informed(c, ds) ==
  /\ c.pc = "await" => c.id \in DOMAIN ds
  /\ \A u \in c.up : Settled(ds, u[2])

Sound(c, ds) == c = Idle \/ (Invoked(c) /\ Informed(c, ds))

\* A verdict says what a worker found.
Said(verdict, d) == \E result \in d.found : Verdict(result) = verdict

\* What has been found of a deployment is what can be met with its bundle, and what is
\* recorded of it was said.
Earned(ds) ==
  \A id \in DOMAIN ds :
    /\ ds[id].found \subseteq Results(ds[id].imports) \cup Troubles
    /\ ds[id].status \in {"ready", "failed"} => Said(ds[id].status, ds[id])

\* So is what a worker is about to report.
Claimed(k, ds) ==
  \/ k = NoCanary
  \/ /\ DOMAIN k = {"of", "verdict"} /\ k.of \in DOMAIN ds
     /\ k.verdict = "none" \/ Said(k.verdict, ds[k.of])

DInv ==
  /\ Typed(deployments) /\ Earned(deployments)
  /\ DOMAIN cli = Deployers /\ \A d \in Deployers : Sound(cli[d], deployments)
  /\ DOMAIN canary = Workers /\ \A w \in Workers : Claimed(canary[w], deployments)

\* Deployments are added, judged and decided, and nothing of it is taken back.
GoOn ==
  /\ Typed(deployments') /\ DOMAIN deployments \subseteq DOMAIN deployments'
  /\ \A id \in DOMAIN deployments :
       /\ deployments'[id].imports = deployments[id].imports
       /\ deployments[id].found \subseteq deployments'[id].found
       /\ Settled(deployments, id) => Settled(deployments', id)

\* Who writes rows has all agents of its file up.
Reconciles ==
  rows' # rows =>
    \E d \in Deployers :
      /\ At(d, "apply") /\ ~cli[d].dry /\ cli[d].down = {}
      /\ Deployed(cli[d]) = Range(cli[d].tree.agents)
      /\ \A u \in cli[d].up : deployments[u[2]].status # "verifying"

USE DeployAssumption

-----------------------------------------------------------------------------
(* Lemmas. *)

\* What a verdict says of the result, and of the bundle.
LEMMA VerdictsEarned ==
  ASSUME NEW imports \in Imports, NEW result \in Results(imports) \cup Troubles
  PROVE  /\ result \in Met /\ Verdict(result) \in {"none", "ready", "failed"}
         /\ Verdict(result) = "ready" => result = "imported" /\ imports \in {"ok", "slow"}
         /\ Verdict(result) = "failed" =>
              /\ result \in Failures
              /\ imports \in {"ok", "noisy"} => result \in {"killed", "missing"}
<1>1. result \in Met
  BY DEF Met
<1>2. CASE result \in Troubles
  BY <1>1, <1>2 DEF Troubles, Failures, Verdict
<1>3. CASE result \in Results(imports)
  BY <1>1, <1>3 DEF Imports, Results, Failures, Verdict
<1>4. QED BY <1>1, <1>2, <1>3

\* The verdicts that can be said of a deployment.
LEMMA SaidOf ==
  ASSUME NEW d, d.imports \in Imports, d.found \subseteq Results(d.imports) \cup Troubles,
         NEW verdict, Said(verdict, d)
  PROVE  verdict \in {"none", "ready", "failed"}
BY VerdictsEarned DEF Said

\* What the invariant promises of verdicts.
LEMMA EarnedVerdicts == DInv => VerdictIsEarned
<1> SUFFICES ASSUME DInv, NEW id \in DOMAIN deployments
             PROVE  LET d == deployments[id]
                    IN /\ d.status = "ready" =>
                            "imported" \in d.found /\ d.imports \in {"ok", "slow"}
                       /\ d.status = "failed" =>
                            \E result \in d.found \cap Failures :
                              d.imports \in {"ok", "noisy"} => result \in {"killed", "missing"}
  BY DEF VerdictIsEarned
<1> DEFINE d == deployments[id]
<1>1. PICK A : deployments \in Seq(Deployment(A))
  BY DEF DInv, Typed
<1>2. d.imports \in Imports /\ d.found \subseteq Results(d.imports) \cup Troubles
  <2>1. d \in Deployment(A)
    BY <1>1
  <2>2. QED BY <2>1 DEF DInv, Earned, Deployment
<1>3. ASSUME d.status \in {"ready", "failed"}
      PROVE  \E result \in d.found : Verdict(result) = d.status
  BY <1>3 DEF DInv, Earned, Said
<1> HIDE DEF d
<1>4. d.status = "ready" => "imported" \in d.found /\ d.imports \in {"ok", "slow"}
  BY <1>2, <1>3, VerdictsEarned
<1>5. d.status = "failed" =>
        \E result \in d.found \cap Failures :
          d.imports \in {"ok", "noisy"} => result \in {"killed", "missing"}
  BY <1>2, <1>3, VerdictsEarned
<1>6. QED BY <1>4, <1>5 DEF d

\* A deployment of the table.
LEMMA OfTable ==
  ASSUME DInv, NEW id \in DOMAIN deployments
  PROVE  /\ deployments[id].imports \in Imports /\ deployments[id].status \in Statuses
         /\ DOMAIN deployments[id] = {"agent", "imports", "status", "found"}
         /\ deployments[id].found \subseteq Met
<1>1. PICK A : deployments \in Seq(Deployment(A))
  BY DEF DInv, Typed
<1>2. deployments[id] \in Deployment(A)
  BY <1>1
<1>3. QED BY <1>2 DEF Deployment

\* A deployment is added and waits for a worker.
LEMMA Added ==
  ASSUME DInv, NEW d \in Deployers, cli[d].tree.imports \in Imports, deployments' = Uploaded(d)
  PROVE  GoOn /\ Earned(deployments') /\ Len(deployments) + 1 \in DOMAIN deployments'
<1> DEFINE new == [agent |-> Here(d), imports |-> cli[d].tree.imports,
                   status |-> "verifying", found |-> {}]
<1>1. PICK A : deployments \in Seq(Deployment(A))
  BY DEF DInv, Typed
<1> DEFINE B == A \cup {Here(d)}
<1>2. deployments \in Seq(Deployment(B)) /\ new \in Deployment(B)
  <2>1. Deployment(A) \subseteq Deployment(B)
    BY DEF Deployment
  <2>2. new \in Deployment(B)
    BY DEF Deployment, Statuses
  <2> HIDE DEF B, new
  <2>3. QED BY <1>1, <2>1, <2>2
<1>3. deployments' = Append(deployments, new)
  BY DEF Uploaded
<1>4. new.status = "verifying" /\ new.found = {}
  OBVIOUS
<1> HIDE DEF new, B
<1>5. /\ deployments' \in Seq(Deployment(B)) /\ Len(deployments) \in Nat
      /\ DOMAIN deployments = 1..Len(deployments)
      /\ DOMAIN deployments' = 1..(Len(deployments) + 1)
      /\ deployments'[Len(deployments) + 1] = new
      /\ \A id \in 1..Len(deployments) : deployments'[id] = deployments[id]
  BY <1>2, <1>3, AppendProperties, LenProperties
<1>6. Typed(deployments')
  BY <1>5 DEF Typed
<1>7. GoOn
  BY <1>5, <1>6 DEF GoOn, Settled
<1>8. ASSUME NEW id \in DOMAIN deployments'
      PROVE  /\ deployments'[id].found \subseteq Results(deployments'[id].imports) \cup Troubles
             /\ deployments'[id].status \in {"ready", "failed"} =>
                  Said(deployments'[id].status, deployments'[id])
  <2>1. CASE id = Len(deployments) + 1
    BY <1>4, <1>5, <2>1
  <2>2. CASE id \in DOMAIN deployments
    BY <1>5, <2>2 DEF DInv, Earned
  <2>3. QED BY <1>5, <2>1, <2>2
<1>9. QED BY <1>5, <1>7, <1>8 DEF Earned

\* One deployment goes on: what has been found of it grows, and its status is what it was or
\* what has been said.
LEMMA Changed ==
  ASSUME DInv, NEW id \in DOMAIN deployments, NEW new,
         deployments' = [deployments EXCEPT ![id] = new],
         DOMAIN new = DOMAIN deployments[id], new = [l \in DOMAIN new |-> new[l]],
         new.agent = deployments[id].agent, new.imports = deployments[id].imports,
         new.status \in Statuses, deployments[id].found \subseteq new.found,
         new.found \subseteq Results(new.imports) \cup Troubles,
         new.status \in {"ready", "failed"} => Said(new.status, new),
         deployments[id].status # "verifying" => new.status # "verifying"
  PROVE  GoOn /\ Earned(deployments')
<1>1. PICK A : deployments \in Seq(Deployment(A))
  BY DEF DInv, Typed
<1>2. new \in Deployment(A)
  <2>1. deployments[id] \in Deployment(A)
    BY <1>1
  <2>2. new.imports \in Imports
    BY OfTable
  <2>3. new.found \subseteq Met
    BY <2>2, VerdictsEarned
  <2>4. DOMAIN new = {"agent", "imports", "status", "found"} /\ new.agent \in A
    BY <2>1, OfTable DEF Deployment
  <2>5. QED BY <2>2, <2>3, <2>4 DEF Deployment
<1>3. /\ deployments' \in Seq(Deployment(A)) /\ DOMAIN deployments' = DOMAIN deployments
      /\ deployments'[id] = new
      /\ \A other \in DOMAIN deployments \ {id} : deployments'[other] = deployments[other]
  BY <1>1, <1>2
<1>4. Typed(deployments')
  BY <1>3 DEF Typed
<1>5. GoOn
  BY <1>3, <1>4 DEF GoOn, Settled
<1>6. Earned(deployments')
  BY <1>3 DEF DInv, Earned
<1>7. QED BY <1>5, <1>6

\* A waiting deployment is decided, or a decided one again.
LEMMA Decided ==
  ASSUME DInv, NEW id \in DOMAIN deployments, NEW status \in Outcomes,
         status = "ready_unverified" \/ Said(status, deployments[id]),
         deployments' = [deployments EXCEPT ![id].status = status]
  PROVE  GoOn /\ Earned(deployments')
<1> DEFINE new == [deployments[id] EXCEPT !.status = status]
<1>1. /\ DOMAIN new = DOMAIN deployments[id] /\ new = [l \in DOMAIN new |-> new[l]]
      /\ new.agent = deployments[id].agent /\ new.imports = deployments[id].imports
      /\ new.status = status /\ new.found = deployments[id].found
  BY OfTable
<1>2. deployments' = [deployments EXCEPT ![id] = new]
  OBVIOUS
<1> HIDE DEF new
<1>3. new.status \in Statuses /\ new.status # "verifying"
  BY <1>1 DEF Statuses, Outcomes
<1>4. new.found \subseteq Results(new.imports) \cup Troubles
  BY <1>1 DEF DInv, Earned
<1>5. new.status \in {"ready", "failed"} => Said(new.status, new)
  BY <1>1 DEF Said
<1>6. QED BY <1>1, <1>2, <1>3, <1>4, <1>5, Changed

\* A worker has judged a deployment's bundle.
LEMMA Judged ==
  ASSUME DInv, NEW id \in DOMAIN deployments,
         NEW result \in Results(deployments[id].imports) \cup Troubles,
         deployments' = [deployments EXCEPT ![id].found = deployments[id].found \cup {result}]
  PROVE  GoOn /\ Earned(deployments') /\ Said(Verdict(result), deployments'[id])
<1> DEFINE new == [deployments[id] EXCEPT !.found = deployments[id].found \cup {result}]
<1>1. /\ DOMAIN new = DOMAIN deployments[id] /\ new = [l \in DOMAIN new |-> new[l]]
      /\ new.agent = deployments[id].agent /\ new.imports = deployments[id].imports
      /\ new.status = deployments[id].status /\ new.found = deployments[id].found \cup {result}
  BY OfTable
<1>2. deployments' = [deployments EXCEPT ![id] = new]
  OBVIOUS
<1> HIDE DEF new
<1>3. new.status \in Statuses /\ new.found \subseteq Results(new.imports) \cup Troubles
  BY <1>1, OfTable DEF DInv, Earned
<1>4. new.status \in {"ready", "failed"} => Said(new.status, new)
  BY <1>1 DEF DInv, Earned, Said
<1>5. deployments'[id] = new /\ Said(Verdict(result), new)
  <2>1. deployments'[id] = new
    BY <1>2
  <2>2. QED BY <1>1, <2>1 DEF Said
<1>6. GoOn /\ Earned(deployments')
  BY <1>1, <1>2, <1>3, <1>4, Changed
<1>7. QED BY <1>5, <1>6

\* Nothing happens to the deployments.
LEMMA Stays ==
  ASSUME DInv, UNCHANGED deployments
  PROVE  GoOn /\ Earned(deployments')
BY DEF DInv, GoOn, Earned, Settled

\* A step keeps the invariant if the deployments go on and each deployer is where it was, or
\* somewhere sound.
LEMMA CliKeeps ==
  ASSUME DInv, GoOn, Earned(deployments'), UNCHANGED canary, DOMAIN cli' = Deployers,
         \A d \in Deployers : cli'[d] = cli[d] \/ Sound(cli'[d], deployments')
  PROVE  DInv'
<1>1. ASSUME NEW d \in Deployers PROVE Sound(cli'[d], deployments')
  <2>1. CASE cli'[d] = cli[d] /\ cli[d] # Idle
    <3>1. Invoked(cli[d]) /\ Informed(cli[d], deployments)
      BY <2>1 DEF DInv, Sound
    <3>2. Informed(cli[d], deployments')
      BY <3>1 DEF Informed, GoOn, Settled
    <3>3. QED BY <2>1, <3>1, <3>2 DEF Sound
  <2>2. QED BY <2>1 DEF Sound
<1>2. \A w \in Workers : Claimed(canary[w], deployments')
  BY DEF DInv, GoOn, Claimed, Said
<1>3. QED BY <1>1, <1>2 DEF DInv, GoOn

\* The same for a step of one deployer.
LEMMA OneKeeps ==
  ASSUME DInv, GoOn, Earned(deployments'), UNCHANGED canary, NEW d \in Deployers, NEW c,
         cli' = [cli EXCEPT ![d] = c], Sound(c, deployments')
  PROVE  DInv'
<1>1. DOMAIN cli' = Deployers /\ \A e \in Deployers : cli'[e] = cli[e] \/ Sound(cli'[e], deployments')
  BY DEF DInv
<1>2. QED BY <1>1, CliKeeps

\* A step of one worker.
LEMMA CanaryKeeps ==
  ASSUME DInv, GoOn, Earned(deployments'), UNCHANGED cli, NEW w \in Workers, NEW k,
         canary' = [canary EXCEPT ![w] = k], Claimed(k, deployments')
  PROVE  DInv'
<1>1. \A d \in Deployers : Sound(cli[d], deployments')
  BY DEF DInv, Sound, Informed, GoOn, Settled
<1>2. \A v \in Workers : Claimed(canary'[v], deployments')
  BY DEF DInv, GoOn, Claimed, Said
<1>3. QED BY <1>1, <1>2 DEF DInv, GoOn

\* A command that is over, or has just begun.
LEMMA Fresh ==
  ASSUME NEW tree \in AllTrees, NEW ds
  PROVE  /\ Sound(Started(tree), ds)
         /\ \A code, raced, dry :
              Sound([Started(tree) EXCEPT !.pc = "done", !.exit = code, !.raced = raced,
                                          !.dry = dry], ds)
<1>1. 1 \in DOMAIN tree.agents
  BY EmptySeq, LenProperties
<1>2. Sound(Started(tree), ds)
  BY <1>1 DEF Sound, Invoked, Informed, Started, Deployed
<1>3. ASSUME NEW code, NEW raced, NEW dry
      PROVE  Sound([Started(tree) EXCEPT !.pc = "done", !.exit = code, !.raced = raced,
                                         !.dry = dry], ds)
  BY DEF Sound, Invoked, Informed, Started, Deployed
<1>4. QED BY <1>2, <1>3

LEMMA DoneSound ==
  ASSUME NEW c, c.tree \in AllTrees, NEW code, NEW ds
  PROVE  Sound(Done(c, code), ds)
BY Fresh DEF Done

\* What follows an agent that is at its place and has been dealt with.
LEMMA NextAgentSound ==
  ASSUME NEW c, NEW ds, Invoked(c), Informed(c, ds),
         c.pc \in {"find", "await"}
  PROVE  Sound(NextAgent(c), ds)
<1>1. /\ c.tree \in AllTrees /\ c.at \in DOMAIN c.tree.agents
      /\ Len(c.tree.agents) \in Nat /\ DOMAIN c.tree.agents = 1..Len(c.tree.agents)
  BY LenProperties DEF Invoked
<1>2. CASE c.at < Len(c.tree.agents)
  <2> DEFINE n == [c EXCEPT !.at = c.at + 1, !.pc = "find"]
  <2>1. /\ DOMAIN n = DOMAIN c /\ n.pc = "find" /\ n.tree = c.tree /\ n.at = c.at + 1
        /\ n.up = c.up /\ n.down = c.down /\ n.dry = c.dry
    BY DEF Invoked
  <2>2. n.at \in DOMAIN n.tree.agents
    BY <1>1, <1>2, <2>1
  <2>3. Invoked(n) /\ Informed(n, ds)
    BY <2>1, <2>2 DEF Invoked, Informed, Deployed
  <2>4. QED BY <1>2, <2>3 DEF NextAgent, Sound
<1>3. CASE ~(c.at < Len(c.tree.agents))
  <2> DEFINE n == [c EXCEPT !.pc = "list", !.at = 1]
  <2>1. NextAgent(c) = AfterUploads(c)
    BY <1>3 DEF NextAgent
  <2>2. CASE c.down = {} /\ Declares(c.tree)
    <3>1. /\ DOMAIN n = DOMAIN c /\ n.pc = "list" /\ n.tree = c.tree
          /\ n.up = c.up /\ n.down = c.down /\ n.dry = c.dry
      BY DEF Invoked
    <3>2. Invoked(n) /\ Informed(n, ds)
      BY <2>2, <3>1 DEF Invoked, Informed, Deployed
    <3>3. QED BY <2>1, <2>2, <3>2 DEF AfterUploads, Sound
  <2>3. CASE ~(c.down = {} /\ Declares(c.tree))
    BY <2>1, <2>3, DoneSound DEF AfterUploads, Invoked
  <2>4. QED BY <2>2, <2>3
<1>4. QED BY <1>2, <1>3

\* A command that goes elsewhere and is still with its agent.
LEMMA GoesTo ==
  ASSUME NEW c, NEW ds, Invoked(c), Informed(c, ds), c.pc \in {"find", "create"},
         NEW pc \in {"create", "upload"}
  PROVE  Sound([c EXCEPT !.pc = pc], ds)
<1> DEFINE n == [c EXCEPT !.pc = pc]
<1>1. /\ DOMAIN n = DOMAIN c /\ n.pc = pc /\ n.tree = c.tree /\ n.at = c.at
      /\ n.up = c.up /\ n.down = c.down /\ n.dry = c.dry
  BY DEF Invoked
<1>2. Invoked(n) /\ Informed(n, ds)
  BY <1>1 DEF Invoked, Informed, Deployed
<1>3. QED BY <1>2 DEF Sound

\* A deployer that is not idle.
LEMMA AtWork ==
  ASSUME DInv, NEW d \in Deployers, cli[d].pc # "idle"
  PROVE  /\ Invoked(cli[d]) /\ Informed(cli[d], deployments) /\ cli[d].tree \in AllTrees
         /\ cli[d].tree.imports \in Imports
BY DEF DInv, Sound, Idle, Invoked

-----------------------------------------------------------------------------
(* The deployer's steps. *)

LEMMA StartKeeps ==
  ASSUME DInv, NEW d \in Deployers, NEW tree \in Trees[d], Start(d, tree)
  PROVE  DInv' /\ Reconciles
<1>1. cli' = [cli EXCEPT ![d] = Started(tree)] /\ UNCHANGED <<rows, canary, deployments>>
  BY DEF Start, server
<1>2. Sound(Started(tree), deployments')
  BY Fresh DEF AllTrees
<1>3. QED BY <1>1, <1>2, Stays, OneKeeps DEF Reconciles

LEMMA FindKeeps ==
  ASSUME DInv, NEW d \in Deployers, Find(d)
  PROVE  DInv' /\ Reconciles
<1> DEFINE c == cli[d]
           n == IF ~HasProject THEN NextAgent(c)
                ELSE [c EXCEPT !.pc = IF Here(d) \in agents THEN "upload" ELSE "create"]
<1>1. Invoked(c) /\ Informed(c, deployments) /\ c.pc = "find"
  BY AtWork DEF Find, At
<1>2. cli' = [cli EXCEPT ![d] = n] /\ UNCHANGED <<rows, canary, deployments>>
  BY DEF Find, server
<1>3. Sound(n, deployments)
  BY <1>1, NextAgentSound, GoesTo
<1> HIDE DEF n
<1>4. QED BY <1>2, <1>3, Stays, OneKeeps DEF Reconciles

LEMMA CreateKeeps ==
  ASSUME DInv, NEW d \in Deployers, Create(d)
  PROVE  DInv' /\ Reconciles
<1> DEFINE c == cli[d]
           n == IF Here(d) \in agents THEN Done(c, 1) ELSE [c EXCEPT !.pc = "upload"]
<1>1. Invoked(c) /\ Informed(c, deployments) /\ c.pc = "create"
  BY AtWork DEF Create, At
<1>2. cli' = [cli EXCEPT ![d] = n] /\ UNCHANGED <<rows, canary, deployments>>
  BY DEF Create, Exit
<1>3. Sound(n, deployments)
  BY <1>1, DoneSound, GoesTo DEF Invoked
<1> HIDE DEF n
<1>4. QED BY <1>2, <1>3, Stays, OneKeeps DEF Reconciles

LEMMA UploadKeeps ==
  ASSUME DInv, NEW d \in Deployers, Upload(d)
  PROVE  DInv' /\ Reconciles
<1> DEFINE c == cli[d]
           id == Len(deployments) + 1
           n == [c EXCEPT !.id = id, !.pc = "await"]
<1>1. Invoked(c) /\ Informed(c, deployments) /\ c.pc = "upload" /\ c.tree.imports \in Imports
  BY AtWork DEF Upload, At
<1>2. cli' = [cli EXCEPT ![d] = n] /\ UNCHANGED <<rows, canary>>
  BY DEF Upload
<1>3. GoOn /\ Earned(deployments') /\ id \in DOMAIN deployments'
  BY <1>1, Added DEF Upload
<1> HIDE DEF id
<1>4. /\ DOMAIN n = DOMAIN c /\ n.pc = "await" /\ n.tree = c.tree /\ n.at = c.at /\ n.id = id
      /\ n.up = c.up /\ n.down = c.down /\ n.dry = c.dry
  BY <1>1 DEF Invoked
<1>5. Invoked(n)
  BY <1>1, <1>4 DEF Invoked, Deployed
<1> HIDE DEF n
<1>6. Informed(n, deployments')
  <2>1. ASSUME NEW u \in n.up PROVE Settled(deployments', u[2])
    <3>1. Settled(deployments, u[2])
      BY <1>1, <1>4 DEF Informed
    <3>2. QED BY <1>3, <3>1 DEF Settled, GoOn
  <2>2. QED BY <1>3, <1>4, <2>1 DEF Informed
<1>7. QED BY <1>2, <1>3, <1>5, <1>6, OneKeeps DEF Sound, Reconciles

\* An agent is up, or it is not.
LEMMA AwaitKeeps ==
  ASSUME DInv, NEW d \in Deployers, Await(d) \/ GiveUp(d)
  PROVE  DInv' /\ Reconciles
<1> DEFINE c == cli[d]
           failed == [c EXCEPT !.down = c.down \cup {Here(d)}]
           passed == [c EXCEPT !.up = c.up \cup {<<Here(d), c.id>>}]
<1>1. Invoked(c) /\ Informed(c, deployments) /\ c.pc = "await" /\ c.id \in DOMAIN deployments
  BY AtWork DEF Await, GiveUp, At, Informed
<1>2. UNCHANGED <<rows, canary, deployments>>
  BY DEF Await, GiveUp, server
<1>3. Here(d) \in Range(c.tree.agents)
  BY <1>1 DEF Here, Invoked, Range
<1>4. Sound(NextAgent(failed), deployments)
  <2>1. /\ DOMAIN failed = DOMAIN c /\ failed.pc = "await" /\ failed.tree = c.tree
        /\ failed.at = c.at /\ failed.id = c.id /\ failed.up = c.up /\ failed.dry = c.dry
    BY <1>1 DEF Invoked
  <2>2. Invoked(failed) /\ Informed(failed, deployments)
    BY <1>1, <2>1 DEF Invoked, Informed, Deployed
  <2> HIDE DEF failed
  <2>3. QED BY <2>1, <2>2, NextAgentSound
<1>5. ASSUME deployments[c.id].status # "verifying" PROVE Sound(NextAgent(passed), deployments)
  <2>1. /\ DOMAIN passed = DOMAIN c /\ passed.pc = "await" /\ passed.tree = c.tree
        /\ passed.at = c.at /\ passed.id = c.id /\ passed.up = c.up \cup {<<Here(d), c.id>>}
        /\ passed.dry = c.dry /\ passed.down = c.down
    BY <1>1 DEF Invoked
  <2>2. Deployed(passed) \subseteq Range(c.tree.agents)
    BY <1>1, <1>3, <2>1 DEF Invoked, Deployed
  <2>3. Invoked(passed)
    BY <1>1, <2>1, <2>2 DEF Invoked
  <2>4. Informed(passed, deployments)
    BY <1>1, <1>5, <2>1 DEF Informed, Settled
  <2> HIDE DEF passed
  <2>5. QED BY <2>1, <2>3, <2>4, NextAgentSound
<1>6. PICK n : cli' = [cli EXCEPT ![d] = n] /\ Sound(n, deployments)
  <2>1. CASE Await(d) /\ deployments[c.id].status = "failed"
    BY <1>4, <2>1 DEF Await
  <2>2. CASE Await(d) /\ deployments[c.id].status # "failed"
    BY <1>5, <2>2 DEF Await, Outcomes
  <2>3. CASE GiveUp(d)
    BY <1>4, <2>3 DEF GiveUp
  <2>4. QED BY <2>1, <2>2, <2>3
<1>7. QED BY <1>2, <1>6, Stays, OneKeeps DEF Reconciles

LEMMA ListKeeps ==
  ASSUME DInv, NEW d \in Deployers, List(d)
  PROVE  DInv' /\ Reconciles
<1> DEFINE c == cli[d]
           n == [c EXCEPT !.plan[This(c)] = Keys(rows[This(c)]), !.raced = c.raced \ {This(c)},
                          !.at = IF Last(c) THEN 1 ELSE c.at + 1,
                          !.pc = IF Last(c) THEN "preview" ELSE c.pc]
<1>1. Invoked(c) /\ Informed(c, deployments) /\ c.pc = "list"
  BY AtWork DEF List, At
<1>2. UNCHANGED <<rows, canary, deployments>>
  BY DEF List, server
<1>3. CASE Range(c.tree.agents) \subseteq Deployed(c)
  <2>1. cli' = [cli EXCEPT ![d] = n]
    BY <1>3 DEF List
  <2>2. /\ DOMAIN n = DOMAIN c /\ n.pc \in {"list", "preview"} /\ n.tree = c.tree
        /\ n.up = c.up /\ n.down = c.down /\ n.dry = c.dry
    BY <1>1 DEF Invoked
  <2>3. Sound(n, deployments)
    BY <1>1, <1>3, <2>2 DEF Sound, Invoked, Informed, Deployed
  <2> HIDE DEF n
  <2>4. QED BY <1>2, <2>1, <2>3, Stays, OneKeeps DEF Reconciles
<1>4. CASE ~(Range(c.tree.agents) \subseteq Deployed(c))
  <2>1. cli' = [cli EXCEPT ![d] = Done(c, 1)]
    BY <1>4 DEF List, Exit
  <2>2. Sound(Done(c, 1), deployments)
    BY <1>1, DoneSound DEF Invoked
  <2>3. QED BY <1>2, <2>1, <2>2, Stays, OneKeeps DEF Reconciles
<1>5. QED BY <1>3, <1>4

LEMMA PreviewKeeps ==
  ASSUME DInv, NEW d \in Deployers, Preview(d)
  PROVE  DInv' /\ Reconciles
<1> DEFINE c == cli[d]
           n == [c EXCEPT !.pc = "apply"]
<1>1. Invoked(c) /\ Informed(c, deployments) /\ c.pc = "preview"
  BY AtWork DEF Preview, At
<1>2. UNCHANGED <<rows, canary, deployments>>
  BY DEF Preview, server
<1>3. CASE cli' = [cli EXCEPT ![d] = Done([c EXCEPT !.dry = TRUE], 0)]
  <2>1. [c EXCEPT !.dry = TRUE].tree \in AllTrees
    BY <1>1 DEF Invoked
  <2>2. Sound(Done([c EXCEPT !.dry = TRUE], 0), deployments)
    BY <2>1, DoneSound
  <2>3. QED BY <1>2, <1>3, <2>2, Stays, OneKeeps DEF Reconciles
<1>4. CASE cli' = [cli EXCEPT ![d] = n]
  <2>1. /\ DOMAIN n = DOMAIN c /\ n.pc = "apply" /\ n.tree = c.tree
        /\ n.up = c.up /\ n.down = c.down /\ n.dry = c.dry
    BY <1>1 DEF Invoked
  <2>2. Sound(n, deployments)
    BY <1>1, <2>1 DEF Sound, Invoked, Informed, Deployed
  <2> HIDE DEF n
  <2>3. QED BY <1>2, <1>4, <2>2, Stays, OneKeeps DEF Reconciles
<1>5. QED BY <1>3, <1>4 DEF Preview

\* A deployer whose plan somebody else's write has outrun.
LEMMA RacedSound ==
  ASSUME NEW c, NEW ds, Sound(c, ds), c.pc # "idle", NEW raced
  PROVE  Sound([c EXCEPT !.raced = raced], ds)
<1> DEFINE n == [c EXCEPT !.raced = raced]
<1>1. Invoked(c) /\ Informed(c, ds)
  BY DEF Sound, Idle
<1>2. /\ DOMAIN n = DOMAIN c /\ n.pc = c.pc /\ n.tree = c.tree /\ n.at = c.at /\ n.id = c.id
      /\ n.up = c.up /\ n.down = c.down /\ n.dry = c.dry
  BY <1>1 DEF Invoked
<1>3. QED BY <1>1, <1>2 DEF Sound, Invoked, Informed, Deployed

\* The next resource, or the end; whatever else the history says.
LEMMA AppliedSound ==
  ASSUME NEW c, NEW ds, Invoked(c), Informed(c, ds), c.pc = "apply", NEW raced
  PROVE  Sound(Applied(c), ds) /\ Sound([Applied(c) EXCEPT !.raced = raced], ds)
<1>1. CASE Last(c)
  <2>1. Sound(Done(c, 0), ds) /\ Done(c, 0).pc # "idle"
    BY DoneSound DEF Done, Started, Invoked
  <2>2. Sound([Done(c, 0) EXCEPT !.raced = raced], ds)
    BY <2>1, RacedSound
  <2>3. QED BY <1>1, <2>1, <2>2 DEF Applied
<1>2. CASE ~Last(c)
  <2> DEFINE n == [c EXCEPT !.at = c.at + 1]
             m == [n EXCEPT !.raced = raced]
  <2>1. /\ DOMAIN n = DOMAIN c /\ n.pc = "apply" /\ n.tree = c.tree
        /\ n.up = c.up /\ n.down = c.down /\ n.dry = c.dry
    BY DEF Invoked
  <2>2. /\ DOMAIN m = DOMAIN c /\ m.pc = "apply" /\ m.tree = c.tree
        /\ m.up = c.up /\ m.down = c.down /\ m.dry = c.dry
    BY DEF Invoked
  <2>3. Sound(n, ds) /\ Sound(m, ds)
    BY <2>1, <2>2 DEF Sound, Invoked, Informed, Deployed
  <2>4. QED BY <1>2, <2>3 DEF Applied
<1>3. QED BY <1>1, <1>2

LEMMA ApplyKeeps ==
  ASSUME DInv, NEW d \in Deployers, Apply(d)
  PROVE  DInv' /\ Reconciles
<1> DEFINE c == cli[d]
<1>1. Invoked(c) /\ Informed(c, deployments) /\ c.pc = "apply"
  BY AtWork DEF Apply, At
<1>2. UNCHANGED <<canary, deployments>>
  BY DEF Apply
<1>3. Reconciles
  <2>1. /\ At(d, "apply") /\ ~c.dry /\ c.down = {}
        /\ Deployed(c) = Range(c.tree.agents)
    BY <1>1 DEF Invoked, At
  <2>2. \A u \in c.up : deployments[u[2]].status # "verifying"
    BY <1>1 DEF Informed, Settled
  <2>3. QED BY <2>1, <2>2 DEF Reconciles
<1>4. CASE Unchanged(c)
  <2>1. cli' = [cli EXCEPT ![d] = Applied(c)]
    BY <1>4 DEF Apply
  <2>2. QED BY <1>1, <1>2, <1>3, <2>1, AppliedSound, Stays, OneKeeps
<1>5. CASE ~Unchanged(c)
  <2> DEFINE r == This(c)
             Others(mine) == [e \in Deployers |->
               IF e = d THEN mine
               ELSE IF cli[e].pc = "idle" THEN cli[e]
               ELSE [cli[e] EXCEPT !.raced = cli[e].raced \cup {r}]]
  <2>1. PICK mine : cli' = Others(mine) /\ Sound(mine, deployments)
    <3>1. \/ cli' = Others([Applied(c) EXCEPT !.raced = Applied(c).raced \ {r}])
          \/ cli' = Others(Done(c, 1))
      BY <1>5 DEF Apply, Put
    <3>2. /\ Sound([Applied(c) EXCEPT !.raced = Applied(c).raced \ {r}], deployments)
          /\ Sound(Done(c, 1), deployments)
      BY <1>1, AppliedSound, DoneSound DEF Invoked
    <3> HIDE DEF Others
    <3>3. CASE cli' = Others([Applied(c) EXCEPT !.raced = Applied(c).raced \ {r}])
      BY <3>2, <3>3
    <3>4. CASE cli' = Others(Done(c, 1))
      BY <3>2, <3>4
    <3>5. QED BY <3>1, <3>3, <3>4
  <2>2. ASSUME NEW e \in Deployers PROVE cli'[e] = cli[e] \/ Sound(cli'[e], deployments)
    <3>1. Sound(cli[e], deployments)
      BY DEF DInv
    <3>2. QED BY <2>1, <3>1, RacedSound
  <2>3. DOMAIN cli' = Deployers
    BY <2>1
  <2>4. QED BY <1>2, <1>3, <2>2, <2>3, Stays, CliKeeps
<1>6. QED BY <1>4, <1>5

LEMMA CallFailsKeeps ==
  ASSUME DInv, NEW d \in Deployers, CallFails(d)
  PROVE  DInv' /\ Reconciles
<1> DEFINE c == cli[d]
<1>1. Invoked(c) /\ c.tree.imports \in Imports
  BY AtWork DEF CallFails
<1>2. cli' = [cli EXCEPT ![d] = Done(c, 1)] /\ Sound(Done(c, 1), deployments')
  BY <1>1, DoneSound DEF CallFails, Exit, Invoked
<1>3. UNCHANGED <<canary, rows>>
  BY DEF CallFails, server
<1>4. GoOn /\ Earned(deployments')
  <2>1. CASE UNCHANGED deployments
    BY <2>1, Stays
  <2>2. CASE deployments' = Uploaded(d)
    BY <1>1, <2>2, Added
  <2>3. QED BY <2>1, <2>2 DEF CallFails, server
<1>5. QED BY <1>2, <1>3, <1>4, OneKeeps DEF Reconciles

-----------------------------------------------------------------------------
(* The pool's steps. *)

LEMMA PollKeeps ==
  ASSUME DInv, NEW w \in Workers, PollCanary(w)
  PROVE  DInv' /\ Reconciles
<1>1. PICK id \in DOMAIN deployments :
        canary' = [canary EXCEPT ![w] = [of |-> id, verdict |-> "none"]]
  BY DEF PollCanary
<1>2. UNCHANGED <<cli, deployments, rows>>
  BY DEF PollCanary, server
<1>3. Claimed([of |-> id, verdict |-> "none"], deployments)
  BY DEF Claimed
<1>4. QED BY <1>1, <1>2, <1>3, Stays, CanaryKeeps DEF Reconciles

LEMMA HandleKeeps ==
  ASSUME DInv, NEW w \in Workers, HandleCanary(w)
  PROVE  DInv' /\ Reconciles
<1> DEFINE k == canary[w]
           id == k.of
<1>1. UNCHANGED <<cli, rows>>
  BY DEF HandleCanary
<1>2. DOMAIN k = {"of", "verdict"} /\ id \in DOMAIN deployments
  BY DEF HandleCanary, NoCanary, DInv, Claimed
<1>3. PICK result \in Results(deployments[id].imports) \cup Troubles :
        IF Verdict(result) = "none"
        THEN canary' = [canary EXCEPT ![w] = NoCanary] /\ UNCHANGED deployments
        ELSE /\ canary' = [canary EXCEPT ![w].verdict = Verdict(result)]
             /\ deployments' = [deployments EXCEPT ![id].found = @ \cup {result}]
  BY DEF HandleCanary
<1>4. CASE Verdict(result) = "none"
  <2>1. Claimed(NoCanary, deployments')
    BY DEF Claimed
  <2>2. canary' = [canary EXCEPT ![w] = NoCanary] /\ UNCHANGED deployments
    BY <1>3, <1>4
  <2>3. QED BY <1>1, <2>1, <2>2, Stays, CanaryKeeps DEF Reconciles
<1>5. CASE Verdict(result) # "none"
  <2> DEFINE n == [k EXCEPT !.verdict = Verdict(result)]
  <2>1. /\ canary' = [canary EXCEPT ![w] = n]
        /\ deployments' = [deployments EXCEPT ![id].found = deployments[id].found \cup {result}]
    BY <1>3, <1>5
  <2> HIDE DEF id
  <2>2. /\ GoOn /\ Earned(deployments') /\ Said(Verdict(result), deployments'[id])
    BY <1>2, <2>1, Judged
  <2>3. DOMAIN n = {"of", "verdict"} /\ n.of = id /\ n.verdict = Verdict(result)
    BY <1>2 DEF id
  <2> HIDE DEF n
  <2>4. Claimed(n, deployments')
    BY <1>2, <2>2, <2>3 DEF Claimed, GoOn
  <2>5. QED BY <1>1, <2>1, <2>2, <2>4, CanaryKeeps DEF Reconciles
<1>6. QED BY <1>4, <1>5

LEMMA ReportKeeps ==
  ASSUME DInv, NEW w \in Workers, ReportCanary(w)
  PROVE  DInv' /\ Reconciles
<1> DEFINE k == canary[w]
<1>1. UNCHANGED <<cli, rows>> /\ canary' = [canary EXCEPT ![w] = NoCanary]
  BY DEF ReportCanary
<1>2. /\ k.of \in DOMAIN deployments /\ k.verdict # "none"
      /\ Said(k.verdict, deployments[k.of])
  BY DEF ReportCanary, DInv, Claimed, NoCanary
<1>3. k.verdict \in Outcomes
  <2>1. /\ deployments[k.of].imports \in Imports
        /\ deployments[k.of].found \subseteq Results(deployments[k.of].imports) \cup Troubles
    BY <1>2, OfTable DEF DInv, Earned
  <2>2. k.verdict \in {"none", "ready", "failed"}
    BY <1>2, <2>1, SaidOf
  <2>3. QED BY <1>2, <2>2 DEF Outcomes
<1>4. GoOn /\ Earned(deployments')
  <2>1. CASE UNCHANGED deployments
    BY <2>1, Stays
  <2>2. CASE deployments' = [deployments EXCEPT ![k.of].status = k.verdict]
    BY <1>2, <1>3, <2>2, Decided
  <2>3. QED BY <2>1, <2>2 DEF ReportCanary
<1>5. Claimed(NoCanary, deployments')
  BY DEF Claimed
<1>6. QED BY <1>1, <1>4, <1>5, CanaryKeeps DEF Reconciles

LEMMA DiesKeeps ==
  ASSUME DInv, NEW w \in Workers, WorkerDies(w)
  PROVE  DInv' /\ Reconciles
<1>1. UNCHANGED <<cli, deployments, rows>> /\ canary' = [canary EXCEPT ![w] = NoCanary]
  BY DEF WorkerDies, server
<1>2. Claimed(NoCanary, deployments')
  BY DEF Claimed
<1>3. QED BY <1>1, <1>2, Stays, CanaryKeeps DEF Reconciles

LEMMA NobodyKeeps ==
  ASSUME DInv, NobodyFree
  PROVE  DInv' /\ Reconciles
<1>1. PICK id \in DOMAIN deployments :
        deployments' = [deployments EXCEPT ![id].status = "ready_unverified"]
  BY DEF NobodyFree
<1>2. UNCHANGED <<cli, rows, canary>>
  BY DEF NobodyFree
<1>3. GoOn /\ Earned(deployments')
  BY <1>1, Decided DEF Outcomes
<1>4. QED BY <1>2, <1>3, CliKeeps DEF DInv, Reconciles

-----------------------------------------------------------------------------
(* The theorems. *)

\* Every step keeps the invariant, and writes rows only for what is up.
LEMMA NextKeeps ==
  ASSUME DInv, [DeployNext]_vars
  PROVE  DInv' /\ Reconciles
<1>1. CASE UNCHANGED vars
  <2>1. UNCHANGED <<cli, canary, rows, deployments>>
    BY <1>1 DEF vars
  <2>2. QED BY <2>1, Stays, CliKeeps DEF DInv, Reconciles
<1>2. ASSUME NEW d \in Deployers, NEW tree \in Trees[d], Start(d, tree)
      PROVE  DInv' /\ Reconciles
  BY <1>2, StartKeeps
<1>3. ASSUME NEW d \in Deployers, Goes(d) PROVE DInv' /\ Reconciles
  BY <1>3, FindKeeps, CreateKeeps, UploadKeeps, AwaitKeeps, ListKeeps, PreviewKeeps, ApplyKeeps
  DEF Goes
<1>4. ASSUME NEW d \in Deployers, CallFails(d) PROVE DInv' /\ Reconciles
  BY <1>4, CallFailsKeeps
<1>5. ASSUME NEW w \in Workers, Checks(w) PROVE DInv' /\ Reconciles
  BY <1>5, PollKeeps, HandleKeeps, ReportKeeps, DiesKeeps DEF Checks
<1>6. CASE NobodyFree
  BY <1>6, NobodyKeeps
<1>7. QED BY <1>1, <1>2, <1>3, <1>4, <1>5, <1>6 DEF DeployNext

\* Verdicts, invocations and claims, in every state.
THEOREM DInvInductive == DeploySpec => []DInv
<1>1. DeployInit => DInv
  <2>1. ASSUME DeployInit PROVE DInv
    <3>1. Typed(deployments) /\ Earned(deployments)
      BY <2>1, EmptySeq DEF DeployInit, Typed, Earned
    <3>2. QED BY <2>1, <3>1 DEF DeployInit, DInv, Sound, Claimed
  <2>2. QED BY <2>1
<1>2. DInv /\ [DeployNext]_vars => DInv'
  BY NextKeeps
<1>3. QED BY <1>1, <1>2, PTL DEF DeploySpec

\* Whatever calls are lost, workers die and verdicts come twice, a deployment is ready only
\* because some worker's child imported its bundle, and failed only for what some worker
\* made of it: of a bundle that imports, only because its child was killed or the server
\* answered that there was no such bundle.
THEOREM VerdictsAreEarned == DeploySpec => []VerdictIsEarned
<1>1. DInv => VerdictIsEarned
  BY EarnedVerdicts
<1>2. QED BY <1>1, DInvInductive, PTL

\* Whatever else deployers and workers do in between, rows are written only by a deploy all
\* of whose agents are up.
THEOREM TriggersAfterTheBundle == DeploySpec => TriggersFollowTheBundle
<1>1. DInv /\ [DeployNext]_vars =>
        [rows' # rows =>
           \E d \in Deployers :
             /\ At(d, "apply") /\ ~cli[d].dry /\ cli[d].down = {}
             /\ Deployed(cli[d]) = Range(cli[d].tree.agents)
             /\ \A u \in cli[d].up : deployments[u[2]].status # "verifying"]_vars
  BY NextKeeps DEF Reconciles
<1>2. QED BY <1>1, DInvInductive, PTL DEF DeploySpec, TriggersFollowTheBundle

-----------------------------------------------------------------------------
(* Convergence. *)

\* The resources a deploy has listed, or written, so far.
Handled(c) == {InOrder(c.tree)[j] : j \in 1..(c.at - 1)}

\* What a deploy knows of a resource that nobody else wrote since it listed it: what it has
\* listed is what is there, until it is what the file declares.
Abreast(c, rs) ==
  /\ DOMAIN c.plan = Resources
  /\ c.pc \in {"list", "apply"} => c.at \in DOMAIN InOrder(c.tree)
  /\ c.pc = "preview" => c.at = 1
  /\ c.pc = "list" => \A r \in Handled(c) \ c.raced : Keys(rs[r]) = c.plan[r]
  /\ c.pc \in {"preview", "apply"} =>
       \A r \in DOMAIN c.tree.declares \ c.raced :
         Keys(rs[r]) \in {c.plan[r], Keys(c.tree.declares[r])}
  /\ c.pc = "apply" =>
       \A r \in Handled(c) \ c.raced : Keys(rs[r]) = Keys(c.tree.declares[r])
  /\ c.pc = "done" /\ c.exit = 0 /\ ~c.dry /\ Declares(c.tree) =>
       \A r \in DOMAIN c.tree.declares \ c.raced : Keys(rs[r]) = Keys(c.tree.declares[r])

Converging ==
  /\ DOMAIN rows = Resources
  /\ \A d \in Deployers : cli[d] = Idle \/ Abreast(cli[d], rows)

LEMMA OrderOf ==
  ASSUME NEW tree \in AllTrees
  PROVE  /\ Len(InOrder(tree)) \in Nat \ {0} /\ DOMAIN InOrder(tree) = 1..Len(InOrder(tree))
         /\ DOMAIN tree.declares = {InOrder(tree)[j] : j \in DOMAIN InOrder(tree)}
         /\ DOMAIN tree.declares \subseteq Resources
<1> DEFINE len == 2 * Len(tree.agents)
<1>1. Len(tree.agents) \in Nat \ {0}
  BY EmptySeq, LenProperties
<1>2. len \in Nat \ {0}
  BY <1>1
<1> HIDE DEF len
<1>3. DOMAIN InOrder(tree) = 1..len
  BY DEF InOrder, len
<1>4. Len(InOrder(tree)) = len
  <2>1. InOrder(tree) \in Seq(Range(InOrder(tree)))
    <3>1. \A i \in 1..len : InOrder(tree)[i] \in Range(InOrder(tree))
      BY <1>3 DEF Range
    <3>2. InOrder(tree) = [i \in 1..len |-> InOrder(tree)[i]]
      BY <1>3 DEF InOrder, len
    <3> HIDE DEF InOrder
    <3>3. InOrder(tree) \in [1..len -> Range(InOrder(tree))]
      BY <3>1, <3>2
    <3>4. QED BY <1>2, <3>3, SeqDef
  <2>2. QED BY <1>2, <1>3, <2>1, LenProperties
<1>5. DOMAIN tree.declares = {InOrder(tree)[j] : j \in DOMAIN InOrder(tree)}
  BY DEF Range
<1>6. QED BY <1>2, <1>3, <1>4, <1>5 DEF Resources

\* Before the triggers, a deploy claims nothing of them, nor does one that failed.
LEMMA Early ==
  ASSUME NEW c, NEW rs, DOMAIN c.plan = Resources,
         c.pc \in {"find", "create", "upload", "await"}
  PROVE  Abreast(c, rs)
BY DEF Abreast

LEMMA DoneAbreast ==
  ASSUME NEW c, NEW rs, NEW code,
         code = 0 /\ ~c.dry /\ Declares(c.tree) =>
           \A r \in DOMAIN c.tree.declares \ c.raced : Keys(rs[r]) = Keys(c.tree.declares[r])
  PROVE  Abreast(Done(c, code), rs)
<1> DEFINE n == Done(c, code)
<1>1. /\ n.pc = "done" /\ n.exit = code /\ n.raced = c.raced /\ n.tree = c.tree
      /\ n.dry = c.dry /\ n.plan = NoRows
  BY DEF Done, Started
<1> HIDE DEF n
<1>2. Abreast(n, rs)
  BY <1>1 DEF Abreast, NoRows
<1>3. QED BY <1>2 DEF n

LEMMA NextAgentAbreast ==
  ASSUME NEW c, NEW rs, Invoked(c), DOMAIN c.plan = Resources
  PROVE  Abreast(NextAgent(c), rs)
<1>1. CASE c.at < Len(c.tree.agents)
  <2> DEFINE n == [c EXCEPT !.at = c.at + 1, !.pc = "find"]
  <2>1. n.pc = "find" /\ n.plan = c.plan
    BY DEF Invoked
  <2> HIDE DEF n
  <2>2. Abreast(n, rs)
    BY <2>1, Early
  <2>3. QED BY <1>1, <2>2 DEF NextAgent, n
<1>2. CASE ~(c.at < Len(c.tree.agents)) /\ c.down = {} /\ Declares(c.tree)
  <2> DEFINE n == [c EXCEPT !.pc = "list", !.at = 1]
  <2>1. n.pc = "list" /\ n.plan = c.plan /\ n.at = 1 /\ n.tree = c.tree
    BY DEF Invoked
  <2>2. c.tree \in AllTrees
    BY DEF Invoked
  <2> HIDE DEF n
  <2>3. n.at \in DOMAIN InOrder(n.tree) /\ Handled(n) = {}
    BY <2>1, <2>2, OrderOf DEF Handled
  <2>4. Abreast(n, rs)
    BY <2>1, <2>3 DEF Abreast
  <2>5. QED BY <1>2, <2>4 DEF NextAgent, AfterUploads, n
<1>3. CASE ~(c.at < Len(c.tree.agents)) /\ c.down # {}
  BY <1>3, DoneAbreast DEF NextAgent, AfterUploads
<1>4. CASE ~(c.at < Len(c.tree.agents)) /\ c.down = {} /\ ~Declares(c.tree)
  <2>1. NextAgent(c) = Done(c, 0)
    BY <1>4 DEF NextAgent, AfterUploads
  <2>2. Abreast(Done(c, 0), rs)
    BY <1>4, DoneAbreast
  <2>3. QED BY <2>1, <2>2
<1>5. QED BY <1>1, <1>2, <1>3, <1>4

\* A step of one deployer that writes no row.
LEMMA OneConverges ==
  ASSUME Converging, UNCHANGED rows, NEW d \in Deployers, NEW n,
         cli' = [cli EXCEPT ![d] = n], DOMAIN cli = Deployers, Abreast(n, rows)
  PROVE  Converging'
BY DEF Converging

LEMMA NoneConverges ==
  ASSUME Converging, UNCHANGED <<cli, rows>>
  PROVE  Converging'
BY DEF Converging

LEMMA Underway ==
  ASSUME DInv, Converging, NEW d \in Deployers, cli[d].pc # "idle"
  PROVE  /\ Invoked(cli[d]) /\ Abreast(cli[d], rows) /\ cli[d].tree \in AllTrees
         /\ DOMAIN cli[d].plan = Resources
<1>1. Invoked(cli[d]) /\ cli[d].tree \in AllTrees
  BY AtWork
<1>2. cli[d] # Idle
  BY DEF Idle
<1>3. QED BY <1>1, <1>2 DEF Converging, Abreast

LEMMA EarlyConverges ==
  ASSUME DInv, Converging, NEW d \in Deployers,
         \/ \E tree \in Trees[d] : Start(d, tree)
         \/ Find(d) \/ Create(d) \/ Upload(d) \/ Await(d) \/ GiveUp(d)
  PROVE  Converging'
<1>1. DOMAIN cli = Deployers /\ UNCHANGED rows
  BY DEF DInv, Start, Find, Create, Upload, Await, GiveUp, server
<1> DEFINE c == cli[d]
<1>2. ASSUME NEW tree, Start(d, tree) PROVE Converging'
  <2>1. Abreast(Started(tree), rows)
    BY Early DEF Started, NoRows
  <2>2. cli' = [cli EXCEPT ![d] = Started(tree)]
    BY <1>2 DEF Start
  <2> HIDE DEF c
  <2>3. QED BY <1>1, <2>1, <2>2, OneConverges
<1>3. ASSUME Find(d) \/ Create(d) \/ Upload(d) PROVE Converging'
  <2>1. Invoked(c) /\ DOMAIN c.plan = Resources
    BY <1>3, Underway DEF Find, Create, Upload, At
  <2>2. ASSUME NEW pc \in {"create", "upload"} PROVE Abreast([c EXCEPT !.pc = pc], rows)
    <3> DEFINE n == [c EXCEPT !.pc = pc]
    <3>1. n.pc = pc /\ n.plan = c.plan
      BY <2>1 DEF Invoked
    <3> HIDE DEF n
    <3>2. Abreast(n, rows)
      BY <2>1, <3>1, Early
    <3>3. QED BY <3>2 DEF n
  <2>3. ASSUME NEW id PROVE Abreast([c EXCEPT !.id = id, !.pc = "await"], rows)
    <3> DEFINE n == [c EXCEPT !.id = id, !.pc = "await"]
    <3>1. n.pc = "await" /\ n.plan = c.plan
      BY <2>1 DEF Invoked
    <3> HIDE DEF n
    <3>2. Abreast(n, rows)
      BY <2>1, <3>1, Early
    <3>3. QED BY <3>2 DEF n
  <2>4. Abreast(NextAgent(c), rows) /\ Abreast(Done(c, 1), rows)
    BY <2>1, NextAgentAbreast, DoneAbreast
  <2>5. CASE Find(d)
    <3>1. \/ cli' = [cli EXCEPT ![d] = NextAgent(c)]
          \/ \E pc \in {"create", "upload"} : cli' = [cli EXCEPT ![d] = [c EXCEPT !.pc = pc]]
      BY <2>5 DEF Find
    <3>2. QED BY <1>1, <2>2, <2>4, <3>1, OneConverges
  <2>6. CASE Create(d)
    <3>1. \/ cli' = [cli EXCEPT ![d] = Done(c, 1)]
          \/ cli' = [cli EXCEPT ![d] = [c EXCEPT !.pc = "upload"]]
      BY <2>6 DEF Create, Exit
    <3>2. QED BY <1>1, <2>2, <2>4, <3>1, OneConverges
  <2>7. CASE Upload(d)
    <3>1. cli' = [cli EXCEPT ![d] = [c EXCEPT !.id = Len(deployments) + 1, !.pc = "await"]]
      BY <2>7 DEF Upload
    <3>2. QED BY <1>1, <2>3, <3>1, OneConverges
  <2>8. QED BY <1>3, <2>5, <2>6, <2>7
<1>4. ASSUME Await(d) \/ GiveUp(d) PROVE Converging'
  <2>1. Invoked(c) /\ c.pc = "await" /\ DOMAIN c.plan = Resources
    BY <1>4, Underway DEF Await, GiveUp, At
  <2> DEFINE failed == [c EXCEPT !.down = c.down \cup {Here(d)}]
             passed == [c EXCEPT !.up = c.up \cup {<<Here(d), c.id>>}]
  <2>2. cli' = [cli EXCEPT ![d] = NextAgent(failed)] \/ cli' = [cli EXCEPT ![d] = NextAgent(passed)]
    BY <1>4 DEF Await, GiveUp
  <2>3. DInv'
    BY <1>4, AwaitKeeps
  <2>4. Abreast(NextAgent(failed), rows)
    <3>1. /\ DOMAIN failed = DOMAIN c /\ failed.plan = c.plan /\ failed.pc = "await"
          /\ failed.tree = c.tree /\ failed.at = c.at /\ failed.up = c.up /\ failed.dry = c.dry
      BY <2>1 DEF Invoked
    <3>2. Invoked(failed)
      BY <2>1, <3>1 DEF Invoked, Deployed
    <3> HIDE DEF failed
    <3>3. QED BY <2>1, <3>1, <3>2, NextAgentAbreast
  <2>5. Abreast(NextAgent(passed), rows)
    <3>1. /\ DOMAIN passed = DOMAIN c /\ passed.plan = c.plan /\ passed.pc = "await"
          /\ passed.tree = c.tree /\ passed.at = c.at /\ passed.dry = c.dry
          /\ passed.up = c.up \cup {<<Here(d), c.id>>}
      BY <2>1 DEF Invoked
    <3>2. Here(d) \in Range(c.tree.agents)
      BY <2>1 DEF Here, Invoked, Range
    <3>3. Invoked(passed)
      BY <2>1, <3>1, <3>2 DEF Invoked, Deployed
    <3> HIDE DEF passed
    <3>4. QED BY <2>1, <3>1, <3>3, NextAgentAbreast
  <2> HIDE DEF c, failed, passed
  <2>6. QED BY <1>1, <2>2, <2>4, <2>5, OneConverges
<1>5. QED BY <1>2, <1>3, <1>4

\* Every resource is listed, in any order and with anything in between, before the preview.
LEMMA ListConverges ==
  ASSUME DInv, Converging, NEW d \in Deployers, List(d)
  PROVE  Converging'
<1> DEFINE c == cli[d]
           r == This(c)
           plan == [c.plan EXCEPT ![r] = Keys(rows[r])]
           at == IF Last(c) THEN 1 ELSE c.at + 1
           pc == IF Last(c) THEN "preview" ELSE "list"
           n == [c EXCEPT !.plan = plan, !.raced = c.raced \ {r}, !.at = at, !.pc = pc]
<1>1. /\ Invoked(c) /\ c.pc = "list" /\ Abreast(c, rows) /\ c.tree \in AllTrees
      /\ DOMAIN c.plan = Resources
  BY Underway DEF List, At
<1>2. DOMAIN cli = Deployers /\ UNCHANGED rows
  BY DEF DInv, List, server
<1>3. CASE ~(Range(c.tree.agents) \subseteq Deployed(c))
  <2>1. cli' = [cli EXCEPT ![d] = Done(c, 1)] /\ Abreast(Done(c, 1), rows)
    BY <1>3, DoneAbreast DEF List, Exit
  <2>2. QED BY <1>2, <2>1, OneConverges
<1>4. CASE Range(c.tree.agents) \subseteq Deployed(c)
  <2>1. cli' = [cli EXCEPT ![d] = n]
    <3>1. c.pc = "list"
      BY <1>1
    <3>2. QED BY <1>4, <3>1 DEF List
  <2>2. /\ n.plan = plan /\ n.raced = c.raced \ {r} /\ n.at = at /\ n.pc = pc
        /\ n.tree = c.tree /\ n.dry = c.dry
    BY <1>1 DEF Invoked
  <2>3. /\ Len(InOrder(c.tree)) \in Nat \ {0} /\ DOMAIN InOrder(c.tree) = 1..Len(InOrder(c.tree))
        /\ DOMAIN c.tree.declares = {InOrder(c.tree)[j] : j \in DOMAIN InOrder(c.tree)}
        /\ DOMAIN c.tree.declares \subseteq Resources
    BY <1>1, OrderOf
  <2>4. c.at \in 1..Len(InOrder(c.tree)) /\ r = InOrder(c.tree)[c.at] /\ r \in Resources
    BY <1>1, <2>3 DEF Abreast, This
  <2>5. /\ DOMAIN plan = Resources /\ plan[r] = Keys(rows[r])
        /\ \A q \in Resources : q # r => plan[q] = c.plan[q]
    BY <1>1, <2>4
  <2>6. \A q \in (Handled(c) \cup {r}) \ n.raced : Keys(rows[q]) = plan[q]
    <3>1. Handled(c) \subseteq Resources
      BY <2>3, <2>4 DEF Handled
    <3>2. \A q \in Handled(c) \ c.raced : Keys(rows[q]) = c.plan[q]
      BY <1>1 DEF Abreast
    <3>3. QED BY <2>2, <2>5, <3>1, <3>2
  <2> HIDE DEF n, plan
  <2>7. CASE Last(c)
    <3>1. c.at = Len(InOrder(c.tree)) /\ pc = "preview"
      BY <2>7 DEF Last
    <3>2. DOMAIN c.tree.declares \subseteq Handled(c) \cup {r}
      <4>1. ASSUME NEW j \in 1..Len(InOrder(c.tree)) PROVE InOrder(c.tree)[j] \in Handled(c) \cup {r}
        <5>1. j = c.at \/ j \in 1..(c.at - 1)
          BY <2>3, <3>1
        <5>2. QED BY <2>4, <5>1 DEF Handled
      <4>2. QED BY <2>3, <4>1
    <3>3. Abreast(n, rows)
      BY <2>2, <2>5, <2>6, <3>1, <3>2 DEF Abreast
    <3>4. QED BY <1>2, <2>1, <3>3, OneConverges
  <2>8. CASE ~Last(c)
    <3>1. at = c.at + 1 /\ pc = "list" /\ c.at # Len(InOrder(c.tree))
      BY <2>8 DEF Last
    <3>2. n.at \in DOMAIN InOrder(n.tree)
      BY <2>2, <2>3, <2>4, <3>1
    <3>3. Handled(n) \subseteq Handled(c) \cup {r}
      <4>1. ASSUME NEW j \in 1..(n.at - 1) PROVE InOrder(c.tree)[j] \in Handled(c) \cup {r}
        <5>1. j = c.at \/ j \in 1..(c.at - 1)
          BY <2>2, <2>4, <3>1
        <5>2. QED BY <2>4, <5>1 DEF Handled
      <4>2. QED BY <2>2, <4>1 DEF Handled
    <3>4. Abreast(n, rows)
      BY <2>2, <2>5, <2>6, <3>1, <3>2, <3>3 DEF Abreast
    <3>5. QED BY <1>2, <2>1, <3>4, OneConverges
  <2>9. QED BY <2>7, <2>8
<1>5. QED BY <1>3, <1>4

LEMMA PreviewConverges ==
  ASSUME DInv, Converging, NEW d \in Deployers, Preview(d)
  PROVE  Converging'
<1> DEFINE c == cli[d]
           n == [c EXCEPT !.pc = "apply"]
<1>1. /\ Invoked(c) /\ c.pc = "preview" /\ Abreast(c, rows) /\ c.tree \in AllTrees
  BY Underway DEF Preview, At
<1>2. DOMAIN cli = Deployers /\ UNCHANGED rows
  BY DEF DInv, Preview, server
<1>3. CASE cli' = [cli EXCEPT ![d] = Done([c EXCEPT !.dry = TRUE], 0)]
  <2>1. [c EXCEPT !.dry = TRUE].dry
    BY <1>1 DEF Invoked
  <2>2. Abreast(Done([c EXCEPT !.dry = TRUE], 0), rows)
    BY <2>1, DoneAbreast
  <2>3. QED BY <1>2, <1>3, <2>2, OneConverges
<1>4. CASE cli' = [cli EXCEPT ![d] = n]
  <2>1. /\ n.pc = "apply" /\ n.tree = c.tree /\ n.at = c.at /\ n.plan = c.plan
        /\ n.raced = c.raced
    BY <1>1 DEF Invoked
  <2> HIDE DEF n
  <2>2. n.at \in DOMAIN InOrder(n.tree) /\ Handled(n) = {}
    BY <1>1, <2>1, OrderOf DEF Abreast, Handled
  <2>3. Abreast(n, rows)
    BY <1>1, <2>1, <2>2 DEF Abreast
  <2>4. QED BY <1>2, <1>4, <2>3, OneConverges
<1>5. QED BY <1>3, <1>4 DEF Preview

LEMMA KeysOfDesired ==
  ASSUME NEW c PROVE Keys(Desired(c)) = Keys(c.tree.declares[This(c)])
<1> DEFINE K == Keys(c.tree.declares[This(c)])
<1>1. Desired(c) = {[key |-> key, zone |-> "UTC"] : key \in K}
  BY DEF Desired
<1> HIDE DEF K
<1>2. ASSUME NEW k \in K PROVE k \in Keys(Desired(c))
  <2> DEFINE row == [key |-> k, zone |-> "UTC"]
  <2>1. row \in Desired(c) /\ row.key = k
    BY <1>1
  <2> HIDE DEF row
  <2>2. QED BY <2>1 DEF Keys
<1>3. ASSUME NEW k \in Keys(Desired(c)) PROVE k \in K
  <2>1. PICK row \in Desired(c) : k = row.key
    BY DEF Keys
  <2>2. QED BY <1>1, <2>1
<1>4. QED BY <1>2, <1>3 DEF K

\* A deploy goes on to its next resource, the one it is at having the declared keys.
LEMMA AppliedAbreast ==
  ASSUME NEW c, NEW rs, NEW ts, NEW raced, Invoked(c), Abreast(c, rs), c.pc = "apply",
         This(c) \notin raced => Keys(ts[This(c)]) = Keys(c.tree.declares[This(c)]),
         \A q \in Resources : q # This(c) => ts[q] = rs[q],
         \A q \in Resources : q # This(c) /\ q \in c.raced => q \in raced
  PROVE  Abreast([Applied(c) EXCEPT !.raced = raced], ts)
<1> DEFINE r == This(c)
<1>1. /\ c.tree \in AllTrees /\ DOMAIN c.plan = Resources /\ c.at \in DOMAIN InOrder(c.tree)
  BY DEF Invoked, Abreast
<1>2. /\ Len(InOrder(c.tree)) \in Nat \ {0} /\ DOMAIN InOrder(c.tree) = 1..Len(InOrder(c.tree))
      /\ DOMAIN c.tree.declares = {InOrder(c.tree)[j] : j \in DOMAIN InOrder(c.tree)}
      /\ DOMAIN c.tree.declares \subseteq Resources
  BY <1>1, OrderOf
<1>3. r = InOrder(c.tree)[c.at] /\ r \in Resources /\ Handled(c) \subseteq DOMAIN c.tree.declares
  BY <1>1, <1>2 DEF This, Handled
<1>4. \A q \in (Handled(c) \cup {r}) \ raced : Keys(ts[q]) = Keys(c.tree.declares[q])
  <2>1. \A q \in Handled(c) \ c.raced : Keys(rs[q]) = Keys(c.tree.declares[q])
    BY DEF Abreast
  <2>2. QED BY <1>2, <1>3, <2>1
<1>5. \A q \in DOMAIN c.tree.declares \ raced : Keys(ts[q]) \in {c.plan[q], Keys(c.tree.declares[q])}
  <2>1. \A q \in DOMAIN c.tree.declares \ c.raced :
          Keys(rs[q]) \in {c.plan[q], Keys(c.tree.declares[q])}
    BY DEF Abreast
  <2>2. QED BY <1>2, <1>3, <1>4, <2>1
<1>6. ASSUME NEW j \in 1..c.at PROVE InOrder(c.tree)[j] \in Handled(c) \cup {r}
  <2>1. j = c.at \/ j \in 1..(c.at - 1)
    BY <1>1, <1>2
  <2>2. QED BY <1>3, <2>1 DEF Handled
<1>7. CASE Last(c)
  <2> DEFINE n == [Done(c, 0) EXCEPT !.raced = raced]
  <2>1. /\ n.pc = "done" /\ n.tree = c.tree /\ n.raced = raced /\ n.plan = NoRows
    BY DEF Done, Started
  <2>2. DOMAIN c.tree.declares \subseteq Handled(c) \cup {r}
    BY <1>2, <1>6, <1>7 DEF Last
  <2> HIDE DEF n
  <2>3. Abreast(n, ts)
    BY <1>4, <2>1, <2>2 DEF Abreast, NoRows
  <2>4. QED BY <1>7, <2>3 DEF Applied, n
<1>8. CASE ~Last(c)
  <2> DEFINE n == [[c EXCEPT !.at = c.at + 1] EXCEPT !.raced = raced]
  <2>1. /\ n.pc = "apply" /\ n.tree = c.tree /\ n.raced = raced /\ n.plan = c.plan
        /\ n.at = c.at + 1
    BY DEF Invoked
  <2> HIDE DEF n
  <2>2. n.at \in DOMAIN InOrder(n.tree)
    BY <1>1, <1>2, <1>8, <2>1 DEF Last
  <2>3. Handled(n) \subseteq Handled(c) \cup {r}
    BY <1>1, <1>2, <1>6, <2>1 DEF Handled
  <2>4. Abreast(n, ts)
    BY <1>1, <1>4, <1>5, <2>1, <2>2, <2>3 DEF Abreast
  <2>5. QED BY <1>8, <2>4 DEF Applied, n
<1>9. QED BY <1>7, <1>8

\* Somebody else's write takes the resource out of what a deploy answers for.
LEMMA RacedAbreast ==
  ASSUME NEW c, NEW rs, NEW ts, NEW r, Invoked(c), Abreast(c, rs),
         \A q \in Resources : q # r => ts[q] = rs[q]
  PROVE  Abreast([c EXCEPT !.raced = c.raced \cup {r}], ts)
<1> DEFINE n == [c EXCEPT !.raced = c.raced \cup {r}]
<1>1. /\ n.pc = c.pc /\ n.tree = c.tree /\ n.at = c.at /\ n.plan = c.plan /\ n.dry = c.dry
      /\ n.exit = c.exit /\ n.raced = c.raced \cup {r}
  BY DEF Invoked
<1> HIDE DEF n
<1>2. /\ c.tree \in AllTrees /\ DOMAIN c.tree.declares \subseteq Resources
      /\ c.pc \in {"list", "apply"} => Handled(c) \subseteq Resources
  <2>1. c.tree \in AllTrees
    BY DEF Invoked
  <2>2. /\ Len(InOrder(c.tree)) \in Nat \ {0} /\ DOMAIN InOrder(c.tree) = 1..Len(InOrder(c.tree))
        /\ DOMAIN c.tree.declares = {InOrder(c.tree)[j] : j \in DOMAIN InOrder(c.tree)}
        /\ DOMAIN c.tree.declares \subseteq Resources
    BY <2>1, OrderOf
  <2>3. QED BY <2>1, <2>2 DEF Abreast, Handled
<1>3. Handled(n) = Handled(c)
  BY <1>1 DEF Handled
<1>4. Abreast(n, ts)
  BY <1>1, <1>2, <1>3 DEF Abreast
<1>5. QED BY <1>4 DEF n

LEMMA ApplyConverges ==
  ASSUME DInv, Converging, NEW d \in Deployers, Apply(d)
  PROVE  Converging'
<1> DEFINE c == cli[d]
           r == This(c)
<1>1. /\ Invoked(c) /\ c.pc = "apply" /\ Abreast(c, rows) /\ c.tree \in AllTrees
      /\ DOMAIN cli = Deployers /\ DOMAIN rows = Resources
  BY Underway DEF Apply, At, DInv, Converging
<1>2. r \in Resources /\ r \in DOMAIN c.tree.declares
  BY <1>1, OrderOf DEF Abreast, This
<1>3. CASE Unchanged(c)
  <2>1. cli' = [cli EXCEPT ![d] = Applied(c)] /\ UNCHANGED rows
    BY <1>3 DEF Apply
  <2>2. r \notin c.raced => Keys(rows[r]) = Keys(c.tree.declares[r])
    BY <1>1, <1>2, <1>3 DEF Abreast, Unchanged
  <2>3. Abreast([Applied(c) EXCEPT !.raced = c.raced], rows)
    BY <1>1, <2>2, AppliedAbreast
  <2>4. [Applied(c) EXCEPT !.raced = c.raced] = Applied(c)
    BY <1>1 DEF Applied, Done, Started, Invoked
  <2>5. QED BY <1>1, <2>1, <2>3, <2>4, OneConverges
<1>4. CASE ~Unchanged(c)
  <2> DEFINE Others(mine) == [e \in Deployers |->
               IF e = d THEN mine
               ELSE IF cli[e].pc = "idle" THEN cli[e]
               ELSE [cli[e] EXCEPT !.raced = cli[e].raced \cup {r}]]
             gone == Applied(c).raced \ {r}
  <2>1. /\ \/ cli' = Others([Applied(c) EXCEPT !.raced = gone])
           \/ cli' = Others(Done(c, 1))
        /\ rows' = [rows EXCEPT ![r] = Desired(c)]
    BY <1>4 DEF Apply, Put
  <2>2. /\ DOMAIN rows' = Resources /\ Keys(rows'[r]) = Keys(c.tree.declares[r])
        /\ \A q \in Resources : q # r => rows'[q] = rows[q]
    BY <1>1, <1>2, <2>1, KeysOfDesired
  <2>3. Applied(c).raced = c.raced
    BY <1>1 DEF Applied, Done, Started, Invoked
  <2> HIDE DEF gone
  <2>4. \A q \in Resources : q # r /\ q \in c.raced => q \in gone
    BY <2>3 DEF gone
  <2>5. Abreast([Applied(c) EXCEPT !.raced = gone], rows')
    <3>1. /\ r = This(c) /\ Invoked(c) /\ Abreast(c, rows) /\ c.pc = "apply"
      BY <1>1
    <3>2. This(c) \notin gone => Keys(rows'[This(c)]) = Keys(c.tree.declares[This(c)])
      BY <2>2
    <3>3. \A q \in Resources : q # This(c) => rows'[q] = rows[q]
      BY <2>2
    <3>4. \A q \in Resources : q # This(c) /\ q \in c.raced => q \in gone
      BY <2>4
    <3> HIDE DEF c, r
    <3>5. QED BY <3>1, <3>2, <3>3, <3>4, AppliedAbreast
  <2>6. Abreast(Done(c, 1), rows')
    BY DoneAbreast
  <2>7. PICK mine : cli' = Others(mine) /\ Abreast(mine, rows')
    <3> HIDE DEF Others
    <3>1. QED BY <2>1, <2>5, <2>6
  <2>8. ASSUME NEW e \in Deployers PROVE cli'[e] = Idle \/ Abreast(cli'[e], rows')
    <3>1. CASE e = d
      BY <2>7, <3>1
    <3>2. CASE e # d /\ cli[e].pc = "idle"
      <4>1. cli'[e] = cli[e]
        BY <2>7, <3>2
      <4>2. cli[e] = Idle
        BY <3>2 DEF DInv, Sound, Invoked
      <4>3. QED BY <4>1, <4>2
    <3>3. CASE e # d /\ cli[e].pc # "idle"
      <4>1. cli'[e] = [cli[e] EXCEPT !.raced = cli[e].raced \cup {r}]
        BY <2>7, <3>3
      <4>2. Invoked(cli[e]) /\ Abreast(cli[e], rows)
        BY <3>3, Underway
      <4> HIDE DEF c, r
      <4>3. Abreast([cli[e] EXCEPT !.raced = cli[e].raced \cup {r}], rows')
        BY <2>2, <4>2, RacedAbreast
      <4>4. QED BY <4>1, <4>3
    <3>4. QED BY <3>1, <3>2, <3>3
  <2>9. QED BY <2>2, <2>8 DEF Converging
<1>5. QED BY <1>3, <1>4

LEMMA NextConverges ==
  ASSUME DInv, Converging, [DeployNext]_vars
  PROVE  Converging'
<1>1. CASE UNCHANGED vars
  BY <1>1, NoneConverges DEF vars
<1>2. ASSUME NEW d \in Deployers, \E tree \in Trees[d] : Start(d, tree)
      PROVE  Converging'
  BY <1>2, EarlyConverges
<1>3. ASSUME NEW d \in Deployers, Goes(d) PROVE Converging'
  BY <1>3, EarlyConverges, ListConverges, PreviewConverges, ApplyConverges DEF Goes
<1>4. ASSUME NEW d \in Deployers, CallFails(d) PROVE Converging'
  <2>1. cli' = [cli EXCEPT ![d] = Done(cli[d], 1)] /\ UNCHANGED rows
    BY <1>4 DEF CallFails, Exit, server
  <2>2. Abreast(Done(cli[d], 1), rows) /\ DOMAIN cli = Deployers
    BY DoneAbreast DEF DInv
  <2>3. QED BY <2>1, <2>2, OneConverges
<1>5. ASSUME NEW w \in Workers, Checks(w) PROVE Converging'
  <2>1. UNCHANGED <<cli, rows>>
    BY <1>5 DEF Checks, PollCanary, HandleCanary, ReportCanary, WorkerDies, server
  <2>2. QED BY <2>1, NoneConverges
<1>6. CASE NobodyFree
  BY <1>6, NoneConverges DEF NobodyFree
<1>7. QED BY <1>1, <1>2, <1>3, <1>4, <1>5, <1>6 DEF DeployNext

\* After a deploy that reconciled and exits 0, every resource that nobody else wrote since it
\* was listed has exactly the declared keys: whatever earlier deploys left half done, and
\* whether the PUT was this deploy's or there was nothing to send.
THEOREM SuccessConverges == DeploySpec => []SuccessIsConverged
<1>1. DeployInit => Converging
  BY DEF DeployInit, Converging, NoRows
<1>2. DInv /\ Converging /\ [DeployNext]_vars => Converging'
  BY NextConverges
<1>3. Converging => SuccessIsConverged
  <2>1. ASSUME Converging, NEW d \in Deployers, At(d, "done") PROVE Abreast(cli[d], rows)
    BY <2>1 DEF Converging, At, Idle
  <2>2. QED BY <2>1 DEF Abreast, At, SuccessIsConverged
<1>4. QED BY <1>1, <1>2, <1>3, DInvInductive, PTL DEF DeploySpec
================================================================================
