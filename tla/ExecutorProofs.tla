---------------------------- MODULE ExecutorProofs ----------------------------
(***************************************************************************)
(* Proofs about Executor: a lease is settled by its own report, runs under  *)
(* its own secrets and context, and leaves no alarm to the next, for any     *)
(* agents, bundles, projects and secrets and any number of leases and        *)
(* faults.                                                                   *)
(***************************************************************************)
EXTENDS Executor, SequenceTheorems, TLAPS

-----------------------------------------------------------------------------
(* The invariant. *)

Kinds == {"completed", "failed", "released", "timeout", "no_registration",
          "executor_unavailable", "executor_died"}

Report == [kind : Kinds, of : Nat]

Keys == {Key(l) : l \in Lease}

Envs == [Names -> Projects \cup {"unset", "operator"}]

\* A process, its pipes and what it knows.
Child(c) ==
  /\ DOMAIN c = {"alive", "key", "env", "injected", "imported", "at", "job", "sent",
                 "context", "alarm", "result", "reports"}
  /\ c.alive \in BOOLEAN /\ c.key \in Keys /\ c.env \in Envs /\ c.injected \subseteq Names
  /\ c.imported \in {"no", "yes", "no_agent"} /\ c.at \in {"wait", "import", "body", "leave"}
  /\ c.job \in Lease \cup {NoLease} /\ c.sent \in Seq(Lease)
  /\ c.context \in Nat /\ c.alarm \in Nat
  /\ c.result \in Kinds /\ c.reports \in Seq(Report)

\* The worker has the lease that follows those it settled; the child is a process or none.
ExecutorTypeOK ==
  /\ outcome \in Seq(Report)
  /\ at \in {"poll", "spawn", "send", "read"}
  /\ at # "poll" => lease \in Lease /\ lease.id = Len(outcome) + 1
  /\ Child(child) \/ child = NoChild

NoReport(c) == c.reports = << >>
OneReport(c, id) == Len(c.reports) = 1 /\ c.reports[1].of = id

Asked(c, l) == c.at = "wait" /\ Len(c.sent) = 1 /\ c.sent[1] = l /\ NoReport(c)
Busy(c, l) == c.at # "wait" /\ c.sent = << >> /\ c.job = l /\ NoReport(c)
Answered(c, l) == c.at = "wait" /\ c.sent = << >> /\ OneReport(c, l.id)

\* Between two leases the pipes are empty; while the worker reads, the lease it reads for is
\* in the pipe, in the child's hands, answered, or lost with the child.
Pipe ==
  /\ at # "read" =>
       NoReport(child) /\ (child.alive => child.at = "wait" /\ child.sent = << >>)
  /\ at \in {"send", "read"} /\ child.alive => child.key = Key(lease)
  /\ at = "read" =>
       IF child.alive
       THEN Asked(child, lease) \/ Busy(child, lease) \/ Answered(child, lease)
       ELSE NoReport(child) \/ OneReport(child, lease.id)

\* The context and the alarm are those of the job in hand.
Scoped(c) ==
  /\ c.alarm # 0 => c.at \in {"body", "leave"} /\ c.alarm = c.job.id
  /\ c.at \in {"wait", "import"} => c.context = 0
  /\ c.at = "body" => c.context = c.job.id

\* The environment is the operator's but for the names that the last item brought.
Provided(c) ==
  /\ c.injected \cap Reserved = {}
  /\ \A n \in Names \ Ambient : c.env[n] = "operator" <=> n \in Reserved
  /\ \A n \in Names \ (Ambient \cup Reserved \cup c.injected) : c.env[n] = "unset"
  /\ c.at # "wait" =>
       c.injected = Own(c.job) /\ \A n \in Own(c.job) : c.env[n] = c.job.project

EInv ==
  /\ ExecutorTypeOK /\ ReportIsForItsItem /\ Pipe
  /\ child.alive => Scoped(child) /\ Provided(child)

USE ExecutorAssumption

-----------------------------------------------------------------------------
(* Lemmas. *)

\* A lease and its key.
LEMMA LeaseFields ==
  ASSUME NEW l \in Lease
  PROVE  /\ l.id \in 1..MaxLeases /\ l.agent \in Agents /\ l.project \in Projects
         /\ Own(l) \subseteq Names /\ Own(l) \cap Reserved = {}
         /\ l.project \notin {"unset", "operator"}
BY DEF Lease, Own, Names, Projects

\* A started child has empty pipes, no context, no alarm, and the operator's names alone.
LEMMA StartedClean ==
  ASSUME NEW l \in Lease
  PROVE  /\ Child(Spawned(l)) /\ Spawned(l).alive /\ Spawned(l).key = Key(l)
         /\ Spawned(l).at = "wait" /\ Spawned(l).sent = << >> /\ NoReport(Spawned(l))
         /\ Scoped(Spawned(l)) /\ Provided(Spawned(l))
<1>1. SpawnEnv \in Envs
  BY DEF SpawnEnv, Envs
<1>2. Key(l) \in Keys /\ "failed" \in Kinds
  BY DEF Keys, Kinds
<1>3. Child(Spawned(l))
  BY <1>1, <1>2 DEF Spawned, Child
<1>4. Scoped(Spawned(l))
  BY DEF Spawned, Scoped
<1>5. Provided(Spawned(l))
  BY DEF Spawned, Provided, SpawnEnv, Names
<1>6. QED BY <1>3, <1>4, <1>5 DEF Spawned, NoReport

\* What is taken from a sequence of one leaves none.
LEMMA OnlyOne ==
  ASSUME NEW S, NEW s \in Seq(S), Len(s) = 1
  PROVE  Head(s) = s[1] /\ s[1] \in S /\ Tail(s) = << >>
<1>1. Head(s) \in S /\ Head(s) = s[1] /\ Tail(s) \in Seq(S) /\ Len(Tail(s)) = 0
  BY EmptySeq, HeadTailProperties
<1>2. Tail(s) = << >>
  BY <1>1, EmptySeq
<1>3. QED BY <1>1, <1>2

\* A dead child reports nothing more than it has.
LEMMA DeadSilent ==
  ASSUME NEW c, Child(c)
  PROVE  Child(Dead(c)) /\ ~Dead(c).alive /\ Dead(c).reports = c.reports
BY DEF Dead, Child

\* A settled lease joins those before it, and the worker polls for the next.
LEMMA SettledOnce ==
  ASSUME ExecutorTypeOK, ReportIsForItsItem, at # "poll",
         NEW kind \in Kinds, NEW of \in {0, lease.id}, Settle(kind, of)
  PROVE  /\ outcome' \in Seq(Report) /\ ReportIsForItsItem' /\ at' = "poll"
<1>1. lease.id = Len(outcome) + 1 /\ outcome \in Seq(Report) /\ of \in Nat
  BY LeaseFields DEF ExecutorTypeOK
<1> DEFINE r == [kind |-> kind, of |-> of]
<1>2. outcome' = Append(outcome, r) /\ r \in Report
  BY <1>1 DEF Settle, Report
<1>3. /\ DOMAIN outcome' = 1..(Len(outcome) + 1) /\ outcome'[Len(outcome) + 1] = r
      /\ \A n \in DOMAIN outcome : outcome'[n] = outcome[n] /\ n \in 1..Len(outcome)
  BY <1>1, <1>2
<1>4. ASSUME NEW n \in DOMAIN outcome' PROVE outcome'[n].of \in {0, n}
  <2>1. CASE n = Len(outcome) + 1
    BY <1>1, <1>3, <2>1
  <2>2. CASE n \in DOMAIN outcome
    BY <1>3, <2>2 DEF ReportIsForItsItem
  <2>3. QED BY <1>1, <1>3, <2>1, <2>2
<1>5. QED BY <1>1, <1>2, <1>4 DEF ReportIsForItsItem, Settle

-----------------------------------------------------------------------------
(* The worker's steps. *)

LEMMA TakeKeeps ==
  ASSUME EInv, NEW agent \in Agents, NEW project \in Projects, NEW limit \in BOOLEAN,
         Take(agent, project, limit)
  PROVE  EInv'
<1>1. Len(outcome) \in Nat /\ Len(outcome) < MaxLeases
  BY DEF EInv, ExecutorTypeOK, Take
<1>2. lease' \in Lease /\ lease'.id = Len(outcome) + 1
  BY <1>1 DEF Take, Lease
<1>3. UNCHANGED <<child, outcome>> /\ at = "poll" /\ at' = "spawn"
  BY DEF Take
<1>4. QED BY <1>2, <1>3 DEF EInv, ExecutorTypeOK, ReportIsForItsItem, Pipe, Scoped, Provided

LEMMA ExecutorForKeeps ==
  ASSUME EInv, ExecutorFor
  PROVE  EInv'
<1>1. at = "spawn" /\ lease \in Lease
  BY DEF ExecutorFor, EInv, ExecutorTypeOK
<1>2. CASE /\ child' = IF Usable(lease) THEN child ELSE Spawned(lease)
           /\ at' = "send" /\ UNCHANGED <<lease, outcome>>
  <2>1. CASE Usable(lease)
    BY <1>1, <1>2, <2>1
    DEF EInv, ExecutorTypeOK, ReportIsForItsItem, Pipe, Usable
  <2>2. CASE ~Usable(lease)
    BY <1>1, <1>2, <2>2, StartedClean DEF EInv, ExecutorTypeOK, ReportIsForItsItem, Pipe
  <2>3. QED BY <2>1, <2>2
<1>3. CASE child' = NoChild /\ Settle("executor_unavailable", 0)
  <2>1. outcome' \in Seq(Report) /\ ReportIsForItsItem' /\ at' = "poll"
    BY <1>1, <1>3, SettledOnce DEF EInv, Kinds, ExecutorFor
  <2>2. QED BY <1>3, <2>1 DEF EInv, ExecutorTypeOK, Pipe, NoChild, NoReport
<1>4. QED BY <1>2, <1>3 DEF ExecutorFor

LEMMA SendKeeps ==
  ASSUME EInv, Send
  PROVE  EInv'
<1>1. at = "send" /\ lease \in Lease /\ (child.alive => Child(child))
  BY DEF Send, EInv, ExecutorTypeOK, NoChild
<1>2. CASE child.alive
  <2>1. /\ child' = [child EXCEPT !.sent = Append(@, lease)] /\ at' = "read"
        /\ UNCHANGED <<lease, outcome>> /\ Child(child)
    BY <1>1, <1>2 DEF Send
  <2>2. /\ child.sent = << >> /\ child.at = "wait" /\ NoReport(child)
        /\ child.key = Key(lease)
    BY <1>1, <1>2 DEF EInv, Pipe
  <2>3. /\ Append(child.sent, lease) \in Seq(Lease) /\ Len(Append(child.sent, lease)) = 1
        /\ Append(child.sent, lease)[1] = lease
    BY <1>1, <2>2
  <2>4. /\ Child(child') /\ child'.sent = Append(child.sent, lease)
        /\ child'.alive = child.alive /\ child'.key = child.key /\ child'.at = child.at
        /\ child'.reports = child.reports
    BY <2>1, <2>3 DEF Child
  <2>5. Asked(child', lease)
    BY <2>2, <2>3, <2>4 DEF Asked, NoReport
  <2>6. Scoped(child') /\ Provided(child')
    BY <1>2, <2>1 DEF EInv, Scoped, Provided, Child
  <2>7. QED BY <1>1, <1>2, <2>1, <2>2, <2>4, <2>5, <2>6
            DEF EInv, ExecutorTypeOK, ReportIsForItsItem, Pipe
<1>3. CASE ~child.alive
  <2>1. child' = child /\ Settle("executor_unavailable", 0)
    BY <1>1, <1>3 DEF Send
  <2>2. outcome' \in Seq(Report) /\ ReportIsForItsItem' /\ at' = "poll"
    BY <1>1, <2>1, SettledOnce DEF EInv, Kinds
  <2>3. QED BY <1>1, <1>3, <2>1, <2>2 DEF EInv, ExecutorTypeOK, Pipe
<1>4. QED BY <1>2, <1>3

LEMMA ReadReportKeeps ==
  ASSUME EInv, ReadReport
  PROVE  EInv'
<1> DEFINE r == Head(child.reports)
<1>1. /\ at = "read" /\ child.reports # << >> /\ Settle(r.kind, r.of)
      /\ child' = [child EXCEPT !.reports = Tail(@)]
  BY DEF ReadReport
<1>2. Child(child) /\ child.reports \in Seq(Report)
  BY <1>1 DEF EInv, ExecutorTypeOK, NoChild, Child
<1>3. /\ OneReport(child, lease.id)
      /\ child.alive => Answered(child, lease)
  BY <1>1, <1>2 DEF EInv, Pipe, Asked, Busy, Answered, NoReport
<1>4. r \in Report /\ r.of = lease.id /\ Tail(child.reports) = << >>
  BY <1>2, <1>3, OnlyOne DEF OneReport
<1>5. r.kind \in Kinds /\ r.of \in {0, lease.id}
  BY <1>4 DEF Report
<1>6. outcome' \in Seq(Report) /\ ReportIsForItsItem' /\ at' = "poll"
  BY <1>1, <1>5, SettledOnce DEF EInv
<1>7. /\ Child(child') /\ child'.reports = << >> /\ child'.alive = child.alive
      /\ child'.at = child.at /\ child'.sent = child.sent
  BY <1>1, <1>2, <1>4 DEF Child
<1>8. child.alive => Scoped(child') /\ Provided(child')
  BY <1>1, <1>2 DEF EInv, Scoped, Provided, Child
<1>9. QED BY <1>3, <1>6, <1>7, <1>8 DEF EInv, ExecutorTypeOK, Pipe, Answered, NoReport

LEMMA GiveUpKeeps ==
  ASSUME EInv, ReadEnd \/ Deadline
  PROVE  EInv'
<1>1. at = "read" /\ child' = NoChild
  BY DEF ReadEnd, Deadline, GivenUp
<1>2. outcome' \in Seq(Report) /\ ReportIsForItsItem' /\ at' = "poll"
  BY <1>1, SettledOnce DEF EInv, ReadEnd, Deadline, Kinds
<1>3. QED BY <1>1, <1>2 DEF EInv, ExecutorTypeOK, Pipe, NoChild, NoReport

-----------------------------------------------------------------------------
(* The child's steps. *)

\* A step of the child alone keeps the invariant if it leaves the child busy with the lease,
\* or with its answer in the pipe.
LEMMA ChildGoesOn ==
  ASSUME EInv, at = "read", child.alive, UNCHANGED <<lease, at, outcome>>,
         Child(child'), child'.alive, child'.key = child.key,
         Busy(child', lease) \/ Answered(child', lease),
         Scoped(child'), Provided(child')
  PROVE  EInv'
BY DEF EInv, ExecutorTypeOK, ReportIsForItsItem, Pipe

\* Its death keeps it as well.
LEMMA ChildDies ==
  ASSUME EInv, child.alive, UNCHANGED <<lease, at, outcome>>, child' = Dead(child)
  PROVE  EInv'
<1>1. Child(child)
  BY DEF EInv, ExecutorTypeOK, NoChild
<1>2. Child(child') /\ ~child'.alive /\ child'.reports = child.reports
  BY <1>1, DeadSilent
<1>3. NoReport(child) \/ (at = "read" /\ OneReport(child, lease.id))
  BY DEF EInv, Pipe, Asked, Busy, Answered
<1>4. QED BY <1>2, <1>3 DEF EInv, ExecutorTypeOK, ReportIsForItsItem, Pipe, NoReport, OneReport

\* What is known of a child at work.
LEMMA AtWork ==
  ASSUME EInv, child.alive, child.at # "wait"
  PROVE  /\ at = "read" /\ Child(child) /\ lease \in Lease /\ child.key = Key(lease)
         /\ Busy(child, lease) /\ Scoped(child) /\ Provided(child)
BY DEF EInv, ExecutorTypeOK, Pipe, Asked, Answered, NoChild

LEMMA ReceiveKeeps ==
  ASSUME EInv, Receive, UNCHANGED <<lease, at, outcome>>
  PROVE  EInv'
<1> DEFINE l == Head(child.sent)
           c == Installed(child, l)
<1>1. /\ child.alive /\ child.at = "wait" /\ child.sent # << >> /\ Child(child)
      /\ child' = [c EXCEPT !.at = "import", !.job = l, !.sent = Tail(child.sent)]
  BY DEF Receive, Works, EInv, ExecutorTypeOK, NoChild, Installed, Child
<1>2. at = "read" /\ Asked(child, lease)
  BY <1>1 DEF EInv, Pipe, Answered, Busy
<1>3. l = lease /\ lease \in Lease /\ Tail(child.sent) = << >>
  BY <1>1, <1>2, OnlyOne DEF Asked, Child, EInv, ExecutorTypeOK
<1>4. /\ Own(lease) \subseteq Names /\ Own(lease) \cap Reserved = {}
      /\ lease.project \in Projects /\ lease.project \notin {"unset", "operator"}
  BY <1>3, LeaseFields
<1> DEFINE env == [n \in Names |-> IF n \in Own(lease) THEN lease.project
                                  ELSE IF n \in child.injected THEN "unset" ELSE child.env[n]]
<1>5. env \in Envs
  BY <1>1, <1>4 DEF Child, Envs
<1>6. child' = [child EXCEPT !.env = env, !.injected = Own(lease), !.at = "import",
                             !.job = lease, !.sent = << >>]
  BY <1>1, <1>3 DEF Installed, Child
<1> HIDE DEF env
<1>7. /\ Child(child) /\ << >> \in Seq(Lease) /\ lease \in Lease \cup {NoLease}
       /\ Own(lease) \subseteq Names
  BY <1>1, <1>3, <1>4
<1>8. Child(child')
  BY <1>5, <1>6, <1>7 DEF Child
<1>9. /\ child'.alive /\ child'.key = child.key /\ child'.at = "import"
      /\ child'.job = lease /\ child'.sent = << >> /\ child'.reports = child.reports
  BY <1>1, <1>6 DEF Child
<1>10. /\ child'.context = child.context /\ child'.alarm = child.alarm
      /\ child'.env = env /\ child'.injected = Own(lease)
  BY <1>1, <1>6 DEF Child
<1>11. Scoped(child')
  BY <1>1, <1>9, <1>10 DEF EInv, Scoped
<1>12. Provided(child')
  BY <1>1, <1>4, <1>9, <1>10 DEF EInv, Provided, env
<1>13. Busy(child', lease)
  BY <1>2, <1>9 DEF Busy, Asked, NoReport
<1>14. QED BY <1>1, <1>2, <1>8, <1>9, <1>11, <1>12, <1>13, ChildGoesOn

\* The answer of a child that was busy with the lease, its alarm off.
LEMMA ReportKeeps ==
  ASSUME EInv, child.alive, child.at # "wait", UNCHANGED <<lease, at, outcome>>,
         NEW c, Child(c), c.alive, c.alarm = 0, c.job = child.job, c.sent = child.sent,
         c.reports = child.reports, c.key = child.key, c.env = child.env,
         c.injected = child.injected, NEW kind \in Kinds, child' = Reported(c, kind)
  PROVE  EInv'
<1>1. at = "read" /\ lease \in Lease /\ Busy(child, lease) /\ Provided(child)
  BY AtWork
<1> DEFINE r == [kind |-> kind, of |-> lease.id]
<1>2. r \in Report /\ c.job.id = lease.id
  BY <1>1, LeaseFields DEF Report, Busy
<1>3. /\ child' = [c EXCEPT !.at = "wait", !.context = 0, !.job = NoLease,
                            !.reports = Append(c.reports, r)]
      /\ c.reports = << >> /\ Append(c.reports, r) \in Seq(Report)
  BY <1>1, <1>2 DEF Reported, Child, Busy, NoReport
<1>4. Child(child')
  BY <1>3 DEF Child
<1>5. /\ child'.alive /\ child'.key = child.key /\ child'.at = "wait" /\ child'.sent = << >>
      /\ child'.reports = Append(<< >>, r)
  BY <1>1, <1>3 DEF Child, Busy
<1>6. /\ child'.context = 0 /\ child'.alarm = 0 /\ child'.env = child.env
      /\ child'.injected = child.injected
  BY <1>3 DEF Child
<1>7. Answered(child', lease)
  BY <1>2, <1>5 DEF Answered, OneReport
<1>8. Scoped(child') /\ Provided(child')
  BY <1>1, <1>5, <1>6 DEF Scoped, Provided
<1>9. QED BY <1>1, <1>4, <1>5, <1>7, <1>8, ChildGoesOn

\* The scope of the item is entered.
LEMMA EnterKeeps ==
  ASSUME EInv, child.alive, child.at = "import", UNCHANGED <<lease, at, outcome>>,
         child' = Entered(child) \/ child' = Entered([child EXCEPT !.imported = "yes"])
  PROVE  EInv'
<1>1. /\ at = "read" /\ Child(child) /\ lease \in Lease /\ Busy(child, lease)
      /\ Scoped(child) /\ Provided(child)
  BY AtWork
<1>2. lease.id \in Nat /\ child.job = lease
  BY <1>1, LeaseFields DEF Busy
<1> DEFINE alarm == IF Limited(child) /\ child.job.agent \notin Async THEN lease.id ELSE 0
           imported == IF child' = Entered(child) THEN child.imported ELSE "yes"
<1>3. child' = [child EXCEPT !.imported = imported, !.at = "body", !.context = lease.id,
                             !.alarm = alarm]
  <2>1. CASE child' = Entered(child)
    BY <1>1, <1>2, <2>1 DEF Entered, Child
  <2>2. CASE child' # Entered(child) /\ child' = Entered([child EXCEPT !.imported = "yes"])
    BY <1>1, <1>2, <2>2 DEF Entered, Child, Limited
  <2>3. QED BY <2>1, <2>2
<1>4. Child(child) /\ alarm \in {0, lease.id} /\ alarm \in Nat /\ lease.id \in Nat
      /\ imported \in {"no", "yes", "no_agent"}
  BY <1>1, <1>2 DEF Child
<1> HIDE DEF alarm, imported
<1>5. Child(child')
  BY <1>3, <1>4 DEF Child
<1>6. /\ child'.alive /\ child'.key = child.key /\ child'.at = "body"
      /\ child'.sent = child.sent /\ child'.job = lease /\ child'.reports = child.reports
  BY <1>1, <1>2, <1>3 DEF Child
<1>7. /\ child'.context = lease.id /\ child'.alarm = alarm
      /\ child'.env = child.env /\ child'.injected = child.injected
  BY <1>1, <1>2, <1>3 DEF Child
<1>8. Busy(child', lease) /\ Scoped(child') /\ Provided(child')
  BY <1>1, <1>2, <1>6, <1>7, <1>4 DEF Busy, NoReport, Scoped, Provided
<1>9. QED BY <1>1, <1>5, <1>6, <1>8, ChildGoesOn

LEMMA ImportKeeps ==
  ASSUME EInv, Import, UNCHANGED <<lease, at, outcome>>
  PROVE  EInv'
<1> DEFINE bundle == Bundle[child.job.agent]
           c == [child EXCEPT !.imported = "no_agent"]
<1>1. child.alive /\ child.at = "import"
  BY DEF Import, Works
<1>2. Child(child) /\ child.alarm = 0 /\ child.job \in Lease
  BY <1>1, AtWork DEF Scoped, Busy
<1>3. bundle \in {"ok", "raises", "exits", "no_agent"}
  BY <1>2, LeaseFields
<1>4. \/ child' = Entered(child) \/ child' = Entered([child EXCEPT !.imported = "yes"])
      \/ child' = Reported(child, "no_registration") \/ child' = Reported(child, "failed")
      \/ child' = Reported(c, "no_registration") \/ child' = Dead(child)
  BY <1>1, <1>3 DEF Import
<1>5. /\ Child(c) /\ c.alive /\ c.alarm = 0 /\ c.job = child.job /\ c.sent = child.sent
      /\ c.reports = child.reports /\ c.key = child.key /\ c.env = child.env
      /\ c.injected = child.injected
  BY <1>1, <1>2 DEF Child
<1>6. CASE child' = Entered(child) \/ child' = Entered([child EXCEPT !.imported = "yes"])
  BY <1>1, <1>6, EnterKeeps
<1>7. CASE child' = Reported(child, "no_registration") \/ child' = Reported(child, "failed")
  BY <1>1, <1>2, <1>7, ReportKeeps DEF Kinds
<1>8. CASE child' = Reported(c, "no_registration")
  BY <1>1, <1>5, <1>8, ReportKeeps DEF Kinds
<1>9. CASE child' = Dead(child)
  BY <1>1, <1>9, ChildDies
<1>10. QED BY <1>4, <1>6, <1>7, <1>8, <1>9

\* A step inside the body, or out of it, that touches no more than the alarm and the result.
LEMMA BodyKeeps ==
  ASSUME EInv, child.alive, child.at = "body", UNCHANGED <<lease, at, outcome>>,
         NEW where \in {"body", "leave"}, NEW alarm \in {0, child.alarm}, NEW kind \in Kinds,
         child' = [child EXCEPT !.at = where, !.alarm = alarm, !.result = kind]
  PROVE  EInv'
<1>1. /\ at = "read" /\ Child(child) /\ Busy(child, lease) /\ Scoped(child)
      /\ Provided(child)
  BY AtWork
<1>2. alarm \in Nat
  BY <1>1 DEF Child
<1>3. Child(child')
  BY <1>1, <1>2 DEF Child
<1>4. /\ child'.alive /\ child'.key = child.key /\ child'.at = where
      /\ child'.sent = child.sent /\ child'.job = child.job /\ child'.reports = child.reports
  BY <1>1 DEF Child
<1>5. /\ child'.context = child.context /\ child'.alarm = alarm
      /\ child'.env = child.env /\ child'.injected = child.injected
  BY <1>1 DEF Child
<1>6. Busy(child', lease) /\ Scoped(child') /\ Provided(child')
  BY <1>1, <1>4, <1>5 DEF Busy, NoReport, Scoped, Provided
<1>7. QED BY <1>1, <1>3, <1>4, <1>6, ChildGoesOn

LEMMA RunsKeeps ==
  ASSUME EInv, Runs
  PROVE  EInv'
<1>1. UNCHANGED <<lease, at, outcome>>
  BY DEF Runs
<1>2. CASE Receive
  BY <1>1, <1>2, ReceiveKeeps
<1>3. CASE Import
  BY <1>1, <1>3, ImportKeeps
<1>4. CASE BodyExits
  BY <1>1, <1>4, ChildDies DEF BodyExits, Works
<1>5. CASE Alarm
  <2>1. child.alive
    BY <1>5 DEF Alarm
  <2>2. child.alive /\ Child(child)
    BY <2>1 DEF EInv, ExecutorTypeOK, NoChild
  <2>3. CASE child.at = "body"
    <3>1. PICK swallowed \in BOOLEAN :
            child' = [child EXCEPT !.alarm = 0, !.result = "timeout",
                                   !.at = IF swallowed THEN "body" ELSE "leave"]
      BY <1>5, <2>3 DEF Alarm
    <3> DEFINE where == IF swallowed THEN "body" ELSE "leave"
    <3>2. where \in {"body", "leave"}
      OBVIOUS
    <3>3. child' = [child EXCEPT !.at = where, !.alarm = 0, !.result = "timeout"]
      BY <2>2, <3>1 DEF Child
    <3> HIDE DEF where
    <3>4. QED BY <1>1, <2>2, <2>3, <3>2, <3>3, BodyKeeps DEF Kinds
  <2>4. CASE child.at # "body"
    BY <1>1, <1>5, <2>2, <2>4, ChildDies DEF Alarm
  <2>5. QED BY <2>3, <2>4
<1>6. CASE Cancel
  <2>1. child.alive /\ child.at = "body" /\ Child(child)
    BY <1>6 DEF Cancel, Works, EInv, ExecutorTypeOK, NoChild
  <2>2. child' = [child EXCEPT !.at = "leave", !.alarm = child.alarm, !.result = "timeout"]
    BY <1>6, <2>1 DEF Cancel, Child
  <2>3. QED BY <1>1, <2>1, <2>2, BodyKeeps DEF Kinds
<1>7. CASE Leave
  <2> DEFINE c == Disarmed(child)
  <2>1. child.alive /\ child.at = "leave" /\ Child(child) /\ child' = Reported(c, child.result)
    BY <1>7 DEF Leave, Works, EInv, ExecutorTypeOK, NoChild
  <2>2. /\ Child(c) /\ c.alive /\ c.alarm = 0 /\ c.job = child.job /\ c.sent = child.sent
        /\ c.reports = child.reports /\ c.key = child.key /\ c.env = child.env
        /\ c.injected = child.injected /\ child.result \in Kinds
    BY <2>1 DEF Disarmed, Child
  <2>3. QED BY <1>1, <2>1, <2>2, ReportKeeps
<1>8. ASSUME NEW kind \in {"completed", "failed", "released"}, BodyEnds(kind) PROVE EInv'
  <2>1. child.alive /\ child.at = "body" /\ Child(child)
    BY <1>8 DEF BodyEnds, Works, EInv, ExecutorTypeOK, NoChild
  <2>2. child' = [child EXCEPT !.at = "leave", !.alarm = child.alarm, !.result = kind]
    BY <1>8, <2>1 DEF BodyEnds, Child
  <2>3. QED BY <1>1, <2>1, <2>2, BodyKeeps DEF Kinds
<1>9. QED BY <1>2, <1>3, <1>4, <1>5, <1>6, <1>7, <1>8 DEF Runs

-----------------------------------------------------------------------------
(* The theorems. *)

\* The pipes, the scope and the environment of every state.
THEOREM EInvInductive == ExecutorSpec => []EInv
<1>1. ExecutorInit => EInv
  BY DEF ExecutorInit, EInv, ExecutorTypeOK, ReportIsForItsItem, Pipe, NoChild, NoReport
<1>2. ASSUME EInv, [ExecutorNext]_vars PROVE EInv'
  <2>1. CASE UNCHANGED vars
    BY <1>2, <2>1 DEF EInv, ExecutorTypeOK, ReportIsForItsItem, Pipe, vars
  <2>2. CASE \E a \in Agents, p \in Projects, limit \in BOOLEAN : Take(a, p, limit)
    BY <1>2, <2>2, TakeKeeps
  <2>3. CASE Supervises
    BY <1>2, <2>3, ExecutorForKeeps, SendKeeps, ReadReportKeeps, GiveUpKeeps DEF Supervises
  <2>4. CASE Runs
    BY <1>2, <2>4, RunsKeeps
  <2>5. CASE Killed
    BY <1>2, <2>5, ChildDies DEF Killed
  <2>6. QED BY <1>2, <2>1, <2>2, <2>3, <2>4, <2>5 DEF ExecutorNext
<1>3. QED BY <1>1, <1>2, PTL DEF ExecutorSpec

\* Whatever late, dead or swallowed answers there are, a lease is settled by a report about
\* itself or by the worker's own finding.
THEOREM SettledByItsOwn == ExecutorSpec => []ReportIsForItsItem
<1>1. EInv => ReportIsForItsItem
  BY DEF EInv
<1>2. QED BY <1>1, EInvInductive, PTL

\* No alarm and no context outlives its item.
THEOREM NothingLeaks == ExecutorSpec => []NothingLeaksToTheNext
<1>1. EInv => NothingLeaksToTheNext
  BY DEF EInv, Scoped, NothingLeaksToTheNext
<1>2. QED BY <1>1, EInvInductive, PTL

\* Customer code runs for the lease in hand, in a process of its own key, and sees of all
\* projects' secrets exactly those of its own project.
THEOREM RunsUnderItsOwnSecrets == ExecutorSpec => []RunsUnderItsOwn
<1>1. ASSUME EInv, child.alive, child.at \in {"import", "body"}
      PROVE  /\ at = "read" /\ child.job = lease /\ child.key = Key(lease)
             /\ child.at = "body" => child.context = lease.id
             /\ \A n \in Names \ Ambient :
                  child.env[n] = IF n \in Reserved THEN "operator"
                                 ELSE IF n \in Secrets[lease.project] THEN lease.project
                                 ELSE "unset"
  <2>1. /\ at = "read" /\ child.key = Key(lease) /\ child.job = lease /\ Scoped(child)
        /\ Provided(child) /\ child.at # "wait"
    BY <1>1, AtWork DEF Busy
  <2>2. child.injected = Secrets[lease.project] \ Reserved
    BY <2>1 DEF Provided, Own
  <2>3. QED BY <1>1, <2>1, <2>2 DEF Scoped, Provided, Own
<1>2. EInv => RunsUnderItsOwn
  BY <1>1 DEF RunsUnderItsOwn
<1>3. QED BY <1>2, EInvInductive, PTL
================================================================================
