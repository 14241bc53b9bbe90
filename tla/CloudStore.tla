------------------------------ MODULE CloudStore ------------------------------
(***************************************************************************)
(* The hosted checkpoint store (durable/cloud_store.py) with the journal     *)
(* (durable/lineage_journal.py) it puts a write into when the control plane  *)
(* cannot be reached.                                                        *)
(*                                                                           *)
(* Every write of an item goes through _execute: drain the journal, send the *)
(* write with retries, journal it when they are used up.  The processes in   *)
(* one working directory share one journal file and no lock.                 *)
(*                                                                           *)
(* A write is known by its run and its place in the run: the create, the     *)
(* saves, the final status.  It carries its identity (run id, execution      *)
(* token), so the server's rows are the set of the writes that arrived.      *)
(* Each failed attempt, lost response, interrupt, crash, rollback and        *)
(* deletion is one of MaxFaults faults.                                      *)
(***************************************************************************)
EXTENDS Integers, Sequences, Functions

CONSTANTS
  Procs,        \* SDK processes that share the journal
  Runs,         \* the runs that are followed
  Elsewhere,    \* the run of every write that is not followed
  Lanes,        \* credentials: "project" (one key) or "runtime" (a token per run)
  Saves,        \* step checkpoints of a run
  MaxAttempts,  \* _MAX_ATTEMPTS (the code: 5)
  Batch,        \* _DRAIN_BATCH (the code: 100)
  MaxFaults     \* bound: how many faults happen in a behaviour

ASSUME StoreAssumption ==
  /\ Elsewhere \notin Runs
  /\ Lanes \subseteq {"project", "runtime"}
  /\ Saves \in Nat /\ MaxFaults \in Nat
  /\ MaxAttempts \in Nat \ {0} /\ Batch \in Nat \ {0}

VARIABLES
  lane,      \* which credential the processes write with
  step,      \* the next write of each run
  call,      \* what each process does inside _execute
  journal,   \* the journal file
  rows,      \* external: the writes the server has
  server,    \* external: rolled back to an old schema? which runs are deleted?
  dropped,   \* history: the entries the drain gave up
  returned,  \* history: the writes whose call returned to the customer's function
  faults     \* how many faults happened

vars == <<lane, step, call, journal, rows, server, dropped, returned, faults>>

Last == Saves + 2
Write == [run : Runs, step : 1..Last]
\* Any write of any other run: there is always one more of them.
Other == [run |-> Elsewhere, step |-> Last]
Writes == Write \cup {Other}
IsSave(w) == w.step \notin {1, Last}

Call ==
  [pc : {"idle", "drain", "rewrite", "send"},
   write : Writes,
   unread : Seq(Writes),  \* what iter_entries() has not yielded yet
   linked : BOOLEAN,      \* the file it reads is still the one at the journal's path
   keep : Seq(Writes),    \* remaining
   halt : BOOLEAN,
   drained : 0..Batch,
   tries : 0..(MaxAttempts - 1)]

Idle == [pc |-> "idle", write |-> Other, unread |-> <<>>, linked |-> FALSE, keep |-> <<>>,
         halt |-> FALSE, drained |-> 0, tries |-> 0]

Fault == faults < MaxFaults /\ faults' = faults + 1
NoFault == UNCHANGED faults
InCall(p) == call[p].pc # "idle"
At(p, pc) == call[p].pc = pc

StoreInit ==
  /\ lane \in Lanes
  /\ step = [r \in Runs |-> 1]
  /\ call = [p \in Procs |-> Idle]
  /\ journal = <<>>
  /\ rows = {}
  /\ server = [old |-> FALSE, deleted |-> {}]
  /\ dropped = {}
  /\ returned = {}
  /\ faults = 0

--------------------------------------------------------------------------------
(* A request, as the server answers it.                                       *)

\* _attach_run_token: on the runtime lane every request carries the token of the run whose
\* write is being issued, and that token authorises one run.
Authorised(p, w) == lane = "project" \/ w.run = call[p].write.run

\* external: what the server says of a write that reaches it.
Verdict(p, w) ==
  CASE w.run \in server.deleted \/ ~Authorised(p, w) -> "refused"
    [] server.old /\ IsSave(w) -> "schema"
    [] OTHER -> "ok"

Rows(p, w) == IF Verdict(p, w) = "ok" THEN rows \cup {w} ELSE rows

\* An attempt that brought no answer: the write may have landed all the same.
Unanswered(p, w) == rows' \in {rows, Rows(p, w)}

--------------------------------------------------------------------------------
(* _execute: the call, and the drain it starts with.                          *)

\* The next write of a run nobody else is writing for, or one that is not followed.
Issues(w) ==
  \/ w = Other
  \/ w \in Write /\ step[w.run] = w.step /\ \A q \in Procs : InCall(q) => call[q].write # w

\* Mutant: the drain is skipped.
MutBeginNoDrain(p, w) ==
  /\ At(p, "idle") /\ Issues(w)
  /\ call' = [call EXCEPT ![p] = [Idle EXCEPT !.pc = "send", !.write = w]]
  /\ NoFault /\ UNCHANGED <<lane, step, journal, rows, server, dropped, returned>>

Begin(p, w) ==
  /\ At(p, "idle") /\ Issues(w)
  /\ call' = [call EXCEPT ![p] =
       IF journal = <<>> THEN [Idle EXCEPT !.pc = "send", !.write = w]
       ELSE [Idle EXCEPT !.pc = "drain", !.write = w, !.unread = journal, !.linked = TRUE]]
  /\ NoFault /\ UNCHANGED <<lane, step, journal, rows, server, dropped, returned>>

\* The loop reissues its next entry, rather than moving it to `remaining`.
Reissues(p) ==
  /\ At(p, "drain") /\ ~call[p].halt /\ call[p].drained < Batch /\ call[p].unread # <<>>

Entry(p) == Head(call[p].unread)
Passed(p) == [call[p] EXCEPT !.unread = Tail(@)]
Retained(p) == [Passed(p) EXCEPT !.halt = TRUE, !.keep = Append(@, Entry(p))]

DrainAccepted(p) ==
  /\ Reissues(p) /\ Verdict(p, Entry(p)) = "ok"
  /\ rows' = Rows(p, Entry(p))
  /\ call' = [call EXCEPT ![p] = [Passed(p) EXCEPT !.drained = @ + 1]]
  /\ NoFault /\ UNCHANGED <<lane, step, journal, server, dropped, returned>>

\* Mutant: the drain goes on after a transient error.
MutDrainGoesOn(p) ==
  /\ Reissues(p)
  /\ Unanswered(p, Entry(p))
  /\ call' = [call EXCEPT ![p] = [Retained(p) EXCEPT !.halt = FALSE]]
  /\ Fault /\ UNCHANGED <<lane, step, journal, server, dropped, returned>>

DrainTransient(p) ==
  /\ Reissues(p)
  /\ Unanswered(p, Entry(p))
  /\ call' = [call EXCEPT ![p] = Retained(p)]
  /\ Fault /\ UNCHANGED <<lane, step, journal, server, dropped, returned>>

\* _is_schema_rejection: a 400 on a checkpoint is kept for a server that understands it.
DrainRejected(p) ==
  /\ Reissues(p) /\ Verdict(p, Entry(p)) = "schema"
  /\ call' = [call EXCEPT ![p] = Retained(p)]
  /\ NoFault /\ UNCHANGED <<lane, step, journal, rows, server, dropped, returned>>

DrainDropped(p) ==
  /\ Reissues(p) /\ Verdict(p, Entry(p)) = "refused"
  /\ dropped' = dropped \cup {Entry(p)}
  /\ call' = [call EXCEPT ![p] = Passed(p)]
  /\ NoFault /\ UNCHANGED <<lane, step, journal, rows, server, returned>>

\* The item's timeout (or Ctrl-C) is raised while an entry is on its way.  It is a
\* BaseException that is not transient: the entry is dropped and the loop goes on.
DrainInterrupted(p) ==
  /\ Reissues(p)
  /\ Unanswered(p, Entry(p))
  /\ dropped' = dropped \cup {Entry(p)}
  /\ call' = [call EXCEPT ![p] = Passed(p)]
  /\ Fault /\ UNCHANGED <<lane, step, journal, server, returned>>

\* Mutant: the loop breaks where it should move the rest to `remaining`.
MutDrainBreaks(p) ==
  /\ At(p, "drain") /\ ~Reissues(p)
  /\ call' = [call EXCEPT ![p].pc = "rewrite", ![p].unread = <<>>]
  /\ NoFault /\ UNCHANGED <<lane, step, journal, rows, server, dropped, returned>>

\* What is left is moved to `remaining`, up to the end of the file as it is by now.
DrainRest(p) ==
  /\ At(p, "drain") /\ ~Reissues(p)
  /\ call' = [call EXCEPT ![p].pc = "rewrite", ![p].unread = <<>>,
                          ![p].keep = @ \o call[p].unread]
  /\ NoFault /\ UNCHANGED <<lane, step, journal, rows, server, dropped, returned>>

\* rewrite(remaining): the file is replaced or removed; who still reads the old one goes on
\* reading the old one.
Rewrite(p) ==
  /\ At(p, "rewrite")
  /\ journal' = call[p].keep
  /\ call' = [q \in Procs |->
       IF q = p THEN [call[p] EXCEPT !.pc = "send", !.linked = FALSE, !.keep = <<>>,
                                     !.halt = FALSE, !.drained = 0]
       ELSE [call[q] EXCEPT !.linked = FALSE]]
  /\ NoFault /\ UNCHANGED <<lane, step, rows, server, dropped, returned>>

--------------------------------------------------------------------------------
(* _execute: the write itself.                                                *)

Mine(p) == call[p].write
Finished == Last + 1

\* The run's next write: the one after w, or, when the call raised, the final status that
\* Item.fail() writes for a failed step, or nothing.
NextStep(w) == IF w = Other THEN step ELSE [step EXCEPT ![w.run] = w.step + 1]
AfterRaise(w) ==
  IF w = Other THEN step
  ELSE [step EXCEPT ![w.run] = IF IsSave(w) THEN Last ELSE Finished]

Returns(p) ==
  /\ step' = NextStep(Mine(p))
  /\ returned' = returned \cup {Mine(p)}

Raises(p) ==
  /\ call' = [call EXCEPT ![p] = Idle]
  /\ step' = AfterRaise(Mine(p))
  /\ UNCHANGED returned

SendAccepted(p) ==
  /\ At(p, "send") /\ Verdict(p, Mine(p)) = "ok"
  /\ rows' = Rows(p, Mine(p))
  /\ call' = [call EXCEPT ![p] = Idle]
  /\ Returns(p)
  /\ NoFault /\ UNCHANGED <<lane, journal, server, dropped>>

SendRetried(p) ==
  /\ At(p, "send") /\ call[p].tries + 1 < MaxAttempts
  /\ Unanswered(p, Mine(p))
  /\ call' = [call EXCEPT ![p].tries = @ + 1]
  /\ Fault /\ UNCHANGED <<lane, step, journal, server, dropped, returned>>

\* The last attempt failed too: append() adds to the file at the journal's path, where a
\* drain that has not reached the end of that file finds it.
SendJournaled(p) ==
  /\ At(p, "send") /\ call[p].tries + 1 = MaxAttempts
  /\ Unanswered(p, Mine(p))
  /\ journal' = Append(journal, Mine(p))
  /\ call' = [q \in Procs |->
       IF q = p THEN Idle
       ELSE IF At(q, "drain") /\ call[q].linked
            THEN [call[q] EXCEPT !.unread = Append(@, Mine(p))]
            ELSE call[q]]
  /\ Returns(p)
  /\ Fault /\ UNCHANGED <<lane, server, dropped>>

\* A terminal answer, and a 400 is one here, is the caller's to handle.
SendRefused(p) ==
  /\ At(p, "send") /\ Verdict(p, Mine(p)) # "ok"
  /\ Raises(p)
  /\ NoFault /\ UNCHANGED <<lane, journal, rows, server, dropped>>

SendInterrupted(p) ==
  /\ At(p, "send")
  /\ Unanswered(p, Mine(p))
  /\ Raises(p)
  /\ Fault /\ UNCHANGED <<lane, journal, server, dropped>>

\* The process dies; the run is resumed and issues the same write again.
Crash(p) ==
  /\ InCall(p)
  /\ call' = [call EXCEPT ![p] = Idle]
  /\ Fault /\ UNCHANGED <<lane, step, journal, rows, server, dropped, returned>>

--------------------------------------------------------------------------------
(* external: the control plane is rolled back and upgraded, a run is deleted. *)

Rollback ==
  /\ ~server.old
  /\ server' = [server EXCEPT !.old = TRUE]
  /\ Fault /\ UNCHANGED <<lane, step, call, journal, rows, dropped, returned>>

Upgrade ==
  /\ server.old
  /\ server' = [server EXCEPT !.old = FALSE]
  /\ NoFault /\ UNCHANGED <<lane, step, call, journal, rows, dropped, returned>>

Delete(r) ==
  /\ r \notin server.deleted
  /\ server' = [server EXCEPT !.deleted = @ \cup {r}]
  /\ Fault /\ UNCHANGED <<lane, step, call, journal, rows, dropped, returned>>

Drains(p) ==
  \/ DrainAccepted(p) \/ DrainRejected(p) \/ DrainDropped(p) \/ DrainRest(p) \/ Rewrite(p)

Sends(p) == SendAccepted(p) \/ SendRefused(p)

StoreNext ==
  \/ \E p \in Procs :
       \/ \E w \in Writes : Begin(p, w)
       \/ Drains(p) \/ DrainTransient(p) \/ DrainInterrupted(p)
       \/ Sends(p) \/ SendRetried(p) \/ SendJournaled(p) \/ SendInterrupted(p)
       \/ Crash(p)
  \/ Rollback \/ Upgrade
  \/ \E r \in Runs : Delete(r)

StoreSpec == StoreInit /\ [][StoreNext]_vars

\* A call that was begun goes on, a rollback ends, and some item always has one more write:
\* without one nothing ever drains the journal, and the code promises no more.
FairStoreSpec ==
  /\ StoreSpec
  /\ WF_vars(Upgrade)
  /\ \A p \in Procs :
       WF_vars(Begin(p, Other)) /\ WF_vars(Drains(p)) /\ WF_vars(Sends(p))

--------------------------------------------------------------------------------
(* Properties.                                                                *)

\* The calls, the file and the server hold what the code puts in them.
StoreTypeOK ==
  /\ lane \in Lanes
  /\ step \in [Runs -> 1..Finished]
  /\ call \in [Procs -> Call]
  /\ journal \in Seq(Writes)
  /\ rows \subseteq Writes /\ dropped \subseteq Writes /\ returned \subseteq Writes
  /\ server \in [old : BOOLEAN, deleted : SUBSET Runs]
  /\ faults \in 0..MaxFaults

\* A write whose call returned is on the server or in the journal, whatever was lost,
\* retried, rolled back or cut off by a crash between a delivery and the rewrite: only the
\* drain's own branch for terminal errors gives an entry up.  It needs the journal to be one
\* process's: with two, what one appends between the other's reading and its rewrite is lost.
NothingLost == returned \subseteq rows \cup Range(journal) \cup dropped

\* The drain delivers in the order in which the writes were journaled: a run's create before
\* its steps, its steps before its status.
DrainInOrder ==
  [][\A i, j \in DOMAIN journal :
       i < j /\ journal[j] # Other /\ journal[j] \in rows' \ rows =>
         journal[i] \in rows \cup dropped]_vars

\* What is journaled reaches the server in the end, as long as its faults end, its schema
\* catches up and there is another write to piggyback on.
JournalDrains ==
  \A w \in Write : w \in Range(journal) ~> w \notin Range(journal) \/ w \in rows

================================================================================
