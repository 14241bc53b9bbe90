------------------------------ MODULE Dispatcher ------------------------------
(***************************************************************************)
(* LocalDispatcher (runtime/dispatcher.py): the in-memory queue that leases *)
(* items to workers over HTTP, records completions, parks paused items and  *)
(* re-queues the leases whose heartbeats stopped.                           *)
(*                                                                          *)
(* Every handler runs under self._lock and is one action here.  The reaper  *)
(* reads the clock BEFORE it takes the lock and then walks the leases while *)
(* holding it, so it is several actions: ReaperReadsClock, ReaperLocks,     *)
(* ReapOne (or Spare) for each lease in turn, ReaperUnlocks.                *)
(*                                                                          *)
(* Time is kept as ages, not instants: leased[l].age is how long ago the    *)
(* lease l was last heard of, and reaper.lag how long ago the reaper read   *)
(* the clock, so the age the code computes (now - last_heartbeat) is        *)
(* age - lag.                                                               *)
(*                                                                          *)
(* The dicts are functions over the lease ids they hold.  A lease id is a   *)
(* number never handed out before (uuid4).  The unit of an entry is the     *)
(* handle its enqueue returned; it is a history field, the code forgets it. *)
(***************************************************************************)
EXTENDS Integers, Sequences, FiniteSets

CONSTANTS
  Workers,      \* the worker_ids that call
  Versions,     \* the agent_version tags an item may carry
  NoVersion,    \* agent_version = None
  Categories,   \* the error_category values a completion may carry
  TTL,          \* lease_ttl_seconds, in clock ticks
  MaxUnits,     \* bound: how many items are enqueued
  MaxLeaseId,   \* bound: how many lease ids are minted
  MaxLag        \* bound: ticks between the reaper's clock read and its unlock

ASSUME TTLAssumption == TTL \in Nat
ASSUME BoundsAssumption == MaxUnits \in Nat /\ MaxLeaseId \in Nat /\ MaxLag \in Nat

VARIABLES
  pending,         \* _pending: the queue, leftmost first
  leased,          \* _leased: lease id -> record
  completed,       \* _completed: lease id -> status
  parked,          \* _parked: lease id -> record
  enqueued_total,  \* _enqueued_total
  nextId,          \* the next lease id uuid4 will produce
  nthGrant,        \* how many leases were granted: the insertion order of _leased
  reaper,          \* the reaper thread: its phase, clock reading and lease list
  submitted        \* history: unit -> the agent_version it was enqueued with

dvars == <<pending, leased, completed, parked, enqueued_total, nextId, nthGrant,
           reaper, submitted>>

LeaseId == Nat \ {0}
Tag == Versions \cup {NoVersion}
Statuses == {"completed", "failed"}
Reasons == {"paused", "credit"}
ReaperState == [at : {"waiting", "due", "timed", "scanning"}, lag : 0..MaxLag,
                todo : SUBSET LeaseId]
AgeCap == TTL + MaxLag + 1

\* A _PendingItem; seen says (for the properties) that it was leased before.
PendingItem == [id : LeaseId, unit : LeaseId, version : Tag, seen : BOOLEAN]

LeasedRecord == [unit : LeaseId, version : Tag, worker : Workers,
                 age : 0..AgeCap, nth : Nat]
CompletedRecord == [unit : LeaseId, status : Statuses, category : Categories]
ParkedRecord == [unit : LeaseId, version : Tag, reason : Reasons]

Put(f, k, v) == [x \in DOMAIN f \cup {k} |-> IF x = k THEN v ELSE f[x]]
Drop(f, k) == [x \in DOMAIN f \ {k} |-> f[x]]
Empty == [x \in {} |-> 0]

DispatcherInit ==
  /\ pending = <<>>
  /\ leased = Empty
  /\ completed = Empty
  /\ parked = Empty
  /\ enqueued_total = 0
  /\ nextId = 1
  /\ nthGrant = 0
  /\ reaper = [at |-> "waiting", lag |-> 0, todo |-> {}]
  /\ submitted = Empty

--------------------------------------------------------------------------------
(* The request handlers.  Each waits for the lock the reaper may hold.       *)

LockFree == reaper.at # "scanning"

Enqueue(v) ==
  /\ LockFree
  /\ enqueued_total < MaxUnits /\ nextId <= MaxLeaseId
  /\ pending' = Append(pending, [id |-> nextId, unit |-> nextId, version |-> v,
                                 seen |-> FALSE])
  /\ enqueued_total' = enqueued_total + 1
  /\ submitted' = Put(submitted, nextId, v)
  /\ nextId' = nextId + 1
  /\ UNCHANGED <<leased, completed, parked, nthGrant, reaper>>

TakeLease(w) ==
  /\ LockFree
  /\ pending # <<>>
  /\ LET item == Head(pending) IN
       leased' = Put(leased, item.id,
                     [unit |-> item.unit, version |-> item.version, worker |-> w,
                      age |-> 0, nth |-> nthGrant + 1])
  /\ pending' = Tail(pending)
  /\ nthGrant' = nthGrant + 1
  /\ UNCHANGED <<completed, parked, enqueued_total, nextId, reaper, submitted>>

\* _mark_complete of a lease it knows.  The caller's worker_id is not looked at.
MarkComplete(l, s, c) ==
  /\ LockFree
  /\ l \in DOMAIN leased
  /\ completed' = Put(completed, l, [unit |-> leased[l].unit, status |-> s, category |-> c])
  /\ leased' = Drop(leased, l)
  /\ UNCHANGED <<pending, parked, enqueued_total, nextId, nthGrant, reaper, submitted>>

\* Mutant: a completion of a lease that ended long ago is recorded all the same.
MutStaleCompleteRecorded(l) ==
  /\ LockFree
  /\ l \notin DOMAIN leased
  /\ \E c \in Categories :
       completed' = Put(completed, l, [unit |-> l, status |-> "completed", category |-> c])
  /\ UNCHANGED <<pending, leased, parked, enqueued_total, nextId, nthGrant, reaper, submitted>>

\* _mark_complete of a lease it does not know: the stale_complete event, no more.
StaleComplete(l) ==
  /\ LockFree
  /\ l \notin DOMAIN leased
  /\ UNCHANGED dvars

\* Mutant: the release parks the item and forgets to pop the lease.
MutReleaseKeepsLease(l, r) ==
  /\ LockFree
  /\ l \in DOMAIN leased
  /\ nextId <= MaxLeaseId
  /\ parked' = Put(parked, nextId, [unit |-> leased[l].unit,
                                    version |-> leased[l].version, reason |-> r])
  /\ nextId' = nextId + 1
  /\ UNCHANGED <<pending, leased, completed, enqueued_total, nthGrant, reaper, submitted>>

\* _release_lease of a lease it knows: parked under a fresh id.
ReleaseLease(l, r) ==
  /\ LockFree
  /\ l \in DOMAIN leased
  /\ nextId <= MaxLeaseId
  /\ parked' = Put(parked, nextId, [unit |-> leased[l].unit,
                                    version |-> leased[l].version, reason |-> r])
  /\ leased' = Drop(leased, l)
  /\ nextId' = nextId + 1
  /\ UNCHANGED <<pending, completed, enqueued_total, nthGrant, reaper, submitted>>

\* _release_lease of a lease it does not know: "duplicate" or "stale".
StaleRelease(l) ==
  /\ LockFree
  /\ l \notin DOMAIN leased
  /\ UNCHANGED dvars

HeartbeatOutcome(l, w) ==
  IF l \notin DOMAIN leased THEN "unknown"
  ELSE IF leased[l].worker # w THEN "wrong_worker" ELSE "ok"

RecordHeartbeat(l, w) ==
  /\ LockFree
  /\ leased' = IF HeartbeatOutcome(l, w) = "ok"
               THEN [leased EXCEPT ![l] = [@ EXCEPT !.age = 0]] ELSE leased
  /\ UNCHANGED <<pending, completed, parked, enqueued_total, nextId, nthGrant, reaper,
                 submitted>>

--------------------------------------------------------------------------------
(* The clock and the reaper thread.  A tick is one heartbeat_check_interval, *)
(* the time the reaper waits between two sweeps.                             *)

Tick ==
  /\ reaper.at \in {"timed", "scanning"} => reaper.lag < MaxLag
  /\ leased' = [l \in DOMAIN leased |->
                  [leased[l] EXCEPT !.age = IF @ < AgeCap THEN @ + 1 ELSE @]]
  /\ reaper' = IF reaper.at \in {"timed", "scanning"}
               THEN [reaper EXCEPT !.lag = @ + 1] ELSE [reaper EXCEPT !.at = "due"]
  /\ UNCHANGED <<pending, completed, parked, enqueued_total, nextId, nthGrant, submitted>>

\* now = time.monotonic(), outside the lock.
ReaperReadsClock ==
  /\ reaper.at = "due"
  /\ reaper' = [reaper EXCEPT !.at = "timed"]
  /\ UNCHANGED <<pending, leased, completed, parked, enqueued_total, nextId, nthGrant,
                 submitted>>

\* with self._lock: ... list(self._leased.keys())
ReaperLocks ==
  /\ reaper.at = "timed"
  /\ nextId + Cardinality(DOMAIN leased) <= MaxLeaseId + 1
  /\ reaper' = [reaper EXCEPT !.at = "scanning", !.todo = DOMAIN leased]
  /\ UNCHANGED <<pending, leased, completed, parked, enqueued_total, nextId, nthGrant,
                 submitted>>

\* The loop visits the leases in the order they were granted.
Visits(l) ==
  /\ reaper.at = "scanning"
  /\ l \in reaper.todo
  /\ \A m \in reaper.todo : leased[l].nth <= leased[m].nth

\* Mutant: the age boundary is off by one.
MutExpiredAtTTL(l) == leased[l].age - reaper.lag >= TTL

Expired(l) == leased[l].age - reaper.lag > TTL

\* Mutant: the requeued item keeps the id of the lease that expired.
MutRequeuedSameId(l) == [id |-> l, unit |-> leased[l].unit, version |-> NoVersion,
                         seen |-> TRUE]

\* The _PendingItem the reaper builds: a fresh id, and no agent_version.
Requeued(l) == [id |-> nextId, unit |-> leased[l].unit, version |-> NoVersion,
                seen |-> TRUE]

ReapOne(l) ==
  /\ Visits(l)
  /\ Expired(l)
  /\ pending' = <<Requeued(l)>> \o pending
  /\ leased' = Drop(leased, l)
  /\ nextId' = nextId + 1
  /\ reaper' = [reaper EXCEPT !.todo = @ \ {l}]
  /\ UNCHANGED <<completed, parked, enqueued_total, nthGrant, submitted>>

Spare(l) ==
  /\ Visits(l)
  /\ ~Expired(l)
  /\ reaper' = [reaper EXCEPT !.todo = @ \ {l}]
  /\ UNCHANGED <<pending, leased, completed, parked, enqueued_total, nextId, nthGrant,
                 submitted>>

ReaperUnlocks ==
  /\ reaper.at = "scanning"
  /\ reaper.todo = {}
  /\ reaper' = [at |-> "waiting", lag |-> 0, todo |-> {}]
  /\ UNCHANGED <<pending, leased, completed, parked, enqueued_total, nextId, nthGrant,
                 submitted>>

ReaperStep ==
  \/ ReaperReadsClock
  \/ ReaperLocks
  \/ \E l \in reaper.todo : ReapOne(l) \/ Spare(l)
  \/ ReaperUnlocks

--------------------------------------------------------------------------------
(* The dispatcher on its own: any caller may name any lease id ever minted.  *)

Minted == 1..(nextId - 1)

Request ==
  \/ \E v \in Tag : Enqueue(v)
  \/ \E w \in Workers : TakeLease(w)
  \/ \E l \in Minted :
       \/ \E s \in Statuses, c \in Categories : MarkComplete(l, s, c)
       \/ StaleComplete(l)
       \/ \E r \in Reasons : ReleaseLease(l, r)
       \/ StaleRelease(l)
       \/ \E w \in Workers : RecordHeartbeat(l, w)

DispatcherNext == Request \/ Tick \/ ReaperStep

DispatcherSpec == DispatcherInit /\ [][DispatcherNext]_dvars

\* Mutant: the test does not count the completions.
MutDrainedIgnoresCount ==
  /\ pending = <<>>
  /\ DOMAIN leased = {}

\* wait_until_drained's test, and stats().
Drained ==
  /\ pending = <<>>
  /\ DOMAIN leased = {}
  /\ Cardinality(DOMAIN completed) >= enqueued_total

--------------------------------------------------------------------------------
(* Properties.                                                               *)

PendingIds == {pending[i].id : i \in DOMAIN pending}
UnitsOf(f) == {f[l].unit : l \in DOMAIN f}

\* The state is made of queue items and of dicts of records, as in the code.
TypeOK ==
  /\ pending \in Seq(PendingItem)
  /\ DOMAIN leased \subseteq LeaseId /\ \A l \in DOMAIN leased : leased[l] \in LeasedRecord
  /\ DOMAIN completed \subseteq LeaseId
  /\ \A l \in DOMAIN completed : completed[l] \in CompletedRecord
  /\ DOMAIN parked \subseteq LeaseId /\ \A l \in DOMAIN parked : parked[l] \in ParkedRecord
  /\ DOMAIN submitted \subseteq LeaseId /\ \A u \in DOMAIN submitted : submitted[u] \in Tag
  /\ enqueued_total \in Nat /\ nextId \in LeaseId /\ nthGrant \in Nat
  /\ reaper \in ReaperState

OncePerUnit(f) == \A k, l \in DOMAIN f : f[k].unit = f[l].unit => k = l

\* No two entries, of the same table or of two, are about the same unit: an item is
\* never both queued and leased, leased twice, or completed twice.
OnePlace ==
  /\ OncePerUnit(pending) /\ OncePerUnit(leased)
  /\ OncePerUnit(completed) /\ OncePerUnit(parked)
  /\ UnitsOf(pending) \cap UnitsOf(leased) = {}
  /\ UnitsOf(pending) \cap UnitsOf(completed) = {}
  /\ UnitsOf(pending) \cap UnitsOf(parked) = {}
  /\ UnitsOf(leased) \cap UnitsOf(completed) = {}
  /\ UnitsOf(leased) \cap UnitsOf(parked) = {}
  /\ UnitsOf(completed) \cap UnitsOf(parked) = {}

\* No enqueued item is ever dropped: it is queued, leased, completed or parked.
NothingLost ==
  DOMAIN submitted = UnitsOf(pending) \cup UnitsOf(leased) \cup UnitsOf(completed)
                       \cup UnitsOf(parked)

\* When wait_until_drained's test succeeds every enqueued item has a completion; in
\* particular none is parked, although the test never looks at _parked.
DrainedMeansDone == Drained => UnitsOf(completed) = DOMAIN submitted

\* The items the reaper put back are ahead of every item never leased yet.
RedeliveriesFirst ==
  \A i, j \in DOMAIN pending : i < j /\ pending[j].seen => pending[i].seen

\* A lease id that is neither queued nor leased any more.
Retired(l) == l < nextId /\ l \notin PendingIds /\ l \notin DOMAIN leased

LeavesRetired ==
  \A l \in Minted : /\ Retired(l) => Retired(l)'
                    /\ l \in DOMAIN leased => l \in DOMAIN leased' \/ Retired(l)'

\* Once a lease ends, by completion, release or expiry, its id is never leased again: a
\* late call under it from a zombie worker finds nothing.
RetiredForGood == [][LeavesRetired]_dvars

SparesHeard ==
  \A l \in DOMAIN leased : leased[l].unit \in UnitsOf(pending') => leased[l].age > TTL

\* The reaper takes a lease only when its worker has been silent for more than the TTL,
\* although its clock reading may be old by the time it holds the lock.
ReapedOnlySilent == [][SparesHeard]_dvars

\* The abstract queue, and where a unit is in it.
PhaseOf(u) ==
  CASE u \in UnitsOf(pending) -> "queued"
    [] u \in UnitsOf(leased) -> "held"
    [] u \in UnitsOf(completed) -> "done"
    [] u \in UnitsOf(parked) -> "parked"
    [] OTHER -> "absent"

Queue == INSTANCE WorkQueue WITH Unit <- 1..MaxLeaseId,
                                 phase <- [u \in 1..MaxLeaseId |-> PhaseOf(u)]

\* The dispatcher implements the work queue: nothing a step does to a unit is other than
\* submit, grant, give back, finish or park, and done and parked are final.
ImplementsQueue == Queue!Spec

================================================================================
