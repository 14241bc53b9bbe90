--------------------------- MODULE WorkerPoolProofs ---------------------------
(***************************************************************************)
(* Theorems about Dispatcher and WorkerPool, for every number of workers,   *)
(* items, lease ids, faults and attempts, every TTL and every configuration *)
(* of the workers.                                                          *)
(*                                                                          *)
(* First the dispatcher under any callers.  OnePlace is not inductive by    *)
(* itself: that completing, parking and leasing never overwrite an entry    *)
(* rests on the ids.  IInv adds that every id and unit in use was minted,   *)
(* that the live ids and the completed ids are disjoint, and that the       *)
(* reaper's list holds current leases only.                                 *)
(*                                                                          *)
(* Then the pool, whose every step is a step of the dispatcher on its own,  *)
(* or none: so all that was shown of any callers holds of these.  Then      *)
(* lease ids: those a worker process knows were granted to it and to nobody *)
(* else, and a "gone" line names one that has ended.  Last, what becomes of *)
(* a lease in a hand while the beats get through (Fed), and when nothing is *)
(* lost at all (Calm): no item is run twice, and the run's row and the      *)
(* dispatcher's record tell the same.                                       *)
(***************************************************************************)
EXTENDS WorkerPool, FiniteSetTheorems, TLAPS

--------------------------------------------------------------------------------
(* The dispatcher.                                                           *)

Ids ==
  /\ \A i, j \in DOMAIN pending : pending[i].id = pending[j].id => i = j
  /\ \A i \in DOMAIN pending : pending[i].id < nextId /\ pending[i].unit < nextId
  /\ \A l \in DOMAIN leased : l < nextId /\ leased[l].unit < nextId
  /\ \A l \in DOMAIN completed : l < nextId /\ completed[l].unit < nextId
  /\ \A l \in DOMAIN parked : l < nextId /\ parked[l].unit < nextId
  /\ PendingIds \cap DOMAIN leased = {}
  /\ PendingIds \cap DOMAIN completed = {}
  /\ DOMAIN leased \cap DOMAIN completed = {}
  /\ reaper.todo \subseteq DOMAIN leased
  /\ reaper.at # "scanning" => reaper.todo = {}

IInv == TypeOK /\ Ids /\ OnePlace /\ NothingLost

--------------------------------------------------------------------------------
(* Tables and queues as functions.                                           *)

LEMMA PutUnits ==
  ASSUME NEW f, NEW k, k \notin DOMAIN f, NEW v, OncePerUnit(f), v.unit \notin UnitsOf(f)
  PROVE  /\ DOMAIN Put(f, k, v) = DOMAIN f \cup {k}
         /\ \A x \in DOMAIN f : Put(f, k, v)[x] = f[x]
         /\ Put(f, k, v)[k] = v
         /\ UnitsOf(Put(f, k, v)) = UnitsOf(f) \cup {v.unit}
         /\ OncePerUnit(Put(f, k, v))
<1>1. /\ DOMAIN Put(f, k, v) = DOMAIN f \cup {k}
      /\ \A x \in DOMAIN f : Put(f, k, v)[x] = f[x]
      /\ Put(f, k, v)[k] = v
  BY DEF Put
<1>2. UnitsOf(Put(f, k, v)) = UnitsOf(f) \cup {v.unit}
  BY <1>1 DEF UnitsOf
<1>3. \A x \in DOMAIN f : f[x].unit # v.unit
  BY DEF UnitsOf
<1>4. OncePerUnit(Put(f, k, v))
  BY <1>1, <1>3 DEF OncePerUnit
<1>5. QED BY <1>1, <1>2, <1>4

LEMMA PutAdds ==
  ASSUME NEW f, NEW k, k \notin DOMAIN f, NEW v, v.unit \notin UnitsOf(f)
  PROVE  UnitsOf(Put(f, k, v)) = UnitsOf(f) \cup {v.unit}
<1>1. /\ DOMAIN Put(f, k, v) = DOMAIN f \cup {k}
      /\ \A x \in DOMAIN f : Put(f, k, v)[x] = f[x]
      /\ Put(f, k, v)[k] = v
  BY DEF Put
<1>2. QED BY <1>1 DEF UnitsOf

LEMMA DropUnits ==
  ASSUME NEW f, NEW k \in DOMAIN f, OncePerUnit(f)
  PROVE  /\ DOMAIN Drop(f, k) = DOMAIN f \ {k}
         /\ \A x \in DOMAIN f \ {k} : Drop(f, k)[x] = f[x]
         /\ UnitsOf(Drop(f, k)) = UnitsOf(f) \ {f[k].unit}
         /\ OncePerUnit(Drop(f, k))
<1>1. /\ DOMAIN Drop(f, k) = DOMAIN f \ {k}
      /\ \A x \in DOMAIN f \ {k} : Drop(f, k)[x] = f[x]
  BY DEF Drop
<1>2. UnitsOf(Drop(f, k)) = UnitsOf(f) \ {f[k].unit}
  BY <1>1 DEF UnitsOf, OncePerUnit
<1>3. OncePerUnit(Drop(f, k))
  BY <1>1 DEF OncePerUnit
<1>4. QED BY <1>1, <1>2, <1>3

LEMMA AppendUnits ==
  ASSUME NEW S, NEW s \in Seq(S), NEW v \in S, OncePerUnit(s), v.unit \notin UnitsOf(s)
  PROVE  /\ UnitsOf(Append(s, v)) = UnitsOf(s) \cup {v.unit}
         /\ OncePerUnit(Append(s, v))
<1>1. /\ DOMAIN Append(s, v) = DOMAIN s \cup {Len(s) + 1}
      /\ \A i \in DOMAIN s : Append(s, v)[i] = s[i]
      /\ Append(s, v)[Len(s) + 1] = v
  OBVIOUS
<1>2. UnitsOf(Append(s, v)) = UnitsOf(s) \cup {v.unit}
  BY <1>1 DEF UnitsOf
<1>3. \A i \in DOMAIN s : s[i].unit # v.unit
  BY DEF UnitsOf
<1>4. OncePerUnit(Append(s, v))
  BY <1>1, <1>3 DEF OncePerUnit
<1>5. QED BY <1>2, <1>4

LEMMA TailUnits ==
  ASSUME NEW S, NEW s \in Seq(S), s # <<>>, OncePerUnit(s)
  PROVE  /\ UnitsOf(Tail(s)) = UnitsOf(s) \ {Head(s).unit}
         /\ Head(s).unit \in UnitsOf(s)
         /\ OncePerUnit(Tail(s))
<1>1. /\ DOMAIN s = 1..Len(s) /\ Len(s) \in Nat \ {0}
      /\ DOMAIN Tail(s) = 1..(Len(s) - 1)
      /\ \A i \in DOMAIN Tail(s) : Tail(s)[i] = s[i + 1] /\ i + 1 \in DOMAIN s
      /\ Head(s) = s[1] /\ 1 \in DOMAIN s
  OBVIOUS
<1>2. \A u \in UnitsOf(Tail(s)) : u \in UnitsOf(s) \ {Head(s).unit}
  BY <1>1 DEF UnitsOf, OncePerUnit
<1>3. ASSUME NEW i \in DOMAIN s, s[i].unit # Head(s).unit
      PROVE  s[i].unit \in UnitsOf(Tail(s))
  <2>1. i # 1 /\ i - 1 \in DOMAIN Tail(s) /\ Tail(s)[i - 1] = s[i]
    BY <1>1, <1>3
  <2>2. QED BY <2>1 DEF UnitsOf
<1>4. OncePerUnit(Tail(s))
  <2>1. ASSUME NEW i \in DOMAIN Tail(s), NEW j \in DOMAIN Tail(s),
               Tail(s)[i].unit = Tail(s)[j].unit
        PROVE  i = j
    <3>1. i + 1 = j + 1
      BY <1>1, <2>1 DEF OncePerUnit
    <3>2. QED BY <3>1, <1>1
  <2>2. QED BY <2>1 DEF OncePerUnit
<1>5. \A u \in UnitsOf(s) \ {Head(s).unit} : u \in UnitsOf(Tail(s))
  BY <1>3 DEF UnitsOf
<1>6. Head(s).unit \in UnitsOf(s)
  BY <1>1 DEF UnitsOf
<1>7. UnitsOf(Tail(s)) = UnitsOf(s) \ {Head(s).unit}
  BY <1>2, <1>5
<1>8. QED BY <1>4, <1>6, <1>7

LEMMA ConsUnits ==
  ASSUME NEW S, NEW s \in Seq(S), NEW v \in S, OncePerUnit(s), v.unit \notin UnitsOf(s)
  PROVE  /\ UnitsOf(<<v>> \o s) = UnitsOf(s) \cup {v.unit}
         /\ OncePerUnit(<<v>> \o s)
<1> DEFINE t == <<v>> \o s
<1>1. /\ DOMAIN s = 1..Len(s) /\ Len(s) \in Nat
      /\ DOMAIN t = 1..(Len(s) + 1)
      /\ t[1] = v
      /\ \A i \in DOMAIN t : i # 1 => t[i] = s[i - 1] /\ i - 1 \in DOMAIN s
  OBVIOUS
<1>2. \A i \in DOMAIN s : t[i + 1] = s[i] /\ i + 1 \in DOMAIN t
  BY <1>1
<1> HIDE DEF t
<1>3. UnitsOf(t) = UnitsOf(s) \cup {v.unit}
  <2>1. ASSUME NEW i \in DOMAIN t PROVE t[i].unit \in UnitsOf(s) \cup {v.unit}
    BY <1>1 DEF UnitsOf
  <2>2. ASSUME NEW i \in DOMAIN s PROVE s[i].unit \in UnitsOf(t)
    BY <1>2 DEF UnitsOf
  <2>3. v.unit \in UnitsOf(t)
    BY <1>1 DEF UnitsOf
  <2>4. QED BY <2>1, <2>2, <2>3 DEF UnitsOf
<1>4. \A i \in DOMAIN s : s[i].unit # v.unit
  BY DEF UnitsOf
<1>5. OncePerUnit(t)
  <2>1. ASSUME NEW i \in DOMAIN t, NEW j \in DOMAIN t, t[i].unit = t[j].unit
        PROVE  i = j
    <3>1. CASE i = 1 \/ j = 1
      BY <3>1, <2>1, <1>1, <1>4
    <3>2. CASE i # 1 /\ j # 1
      <4>1. i - 1 = j - 1
        BY <3>2, <2>1, <1>1 DEF OncePerUnit
      <4>2. QED BY <4>1, <1>1
    <3>3. QED BY <3>1, <3>2
  <2>2. QED BY <2>1 DEF OncePerUnit
<1>6. QED BY <1>3, <1>5 DEF t

--------------------------------------------------------------------------------
(* The inductive invariant.                                                  *)

LEMMA InitIInv == DispatcherInit => IInv
<1> SUFFICES ASSUME DispatcherInit PROVE IInv
  OBVIOUS
<1> USE DEF DispatcherInit, Empty
<1>1. TypeOK
  BY BoundsAssumption DEF ReaperState, TypeOK, LeaseId
<1>2. Ids
  BY DEF Ids, PendingIds
<1>3. UnitsOf(pending) = {} /\ UnitsOf(leased) = {} /\ UnitsOf(completed) = {}
      /\ UnitsOf(parked) = {}
  BY DEF UnitsOf
<1>4. OnePlace /\ NothingLost
  BY <1>3 DEF OnePlace, OncePerUnit, NothingLost
<1>5. QED BY <1>1, <1>2, <1>4 DEF IInv

LEMMA ItemsTyped ==
  ASSUME NEW s \in Seq(PendingItem), NEW i \in DOMAIN s
  PROVE  /\ s[i] \in PendingItem
         /\ s[i].id \in LeaseId /\ s[i].unit \in LeaseId
         /\ s[i].id \in Nat /\ s[i].unit \in Nat
<1>1. s[i] \in PendingItem
  OBVIOUS
<1>2. QED BY <1>1 DEF PendingItem, LeaseId

\* Enqueue: the new handle is fresh, so it is a unit nothing is about yet.
LEMMA EnqueueStep == ASSUME IInv, NEW v \in Tag, Enqueue(v) PROVE IInv'
<1> DEFINE item == [id |-> nextId, unit |-> nextId, version |-> v, seen |-> FALSE]
<1> USE DEF IInv
<1>1. item \in PendingItem /\ pending \in Seq(PendingItem) /\ nextId \in Nat
  BY DEF TypeOK, PendingItem, LeaseId
<1>2. nextId \notin UnitsOf(pending) \cup UnitsOf(leased) \cup UnitsOf(completed)
                     \cup UnitsOf(parked)
  BY <1>1 DEF Ids, UnitsOf
<1>3. UnitsOf(pending') = UnitsOf(pending) \cup {nextId} /\ OncePerUnit(pending')
  <2>1. item.unit = nextId /\ pending' = Append(pending, item)
    BY DEF Enqueue
  <2>2. OncePerUnit(pending)
    BY DEF OnePlace
  <2>3. QED
    BY <1>1, <1>2, <2>1, <2>2, AppendUnits
<1>4. TypeOK'
  <2>1. pending' \in Seq(PendingItem)
    BY <1>1 DEF Enqueue
  <2>2. DOMAIN submitted' \subseteq LeaseId /\ \A u \in DOMAIN submitted' : submitted'[u] \in Tag
    BY DEF Enqueue, TypeOK, Put
  <2>3. QED BY <2>1, <2>2 DEF Enqueue, TypeOK, LeaseId
<1>5. Ids'
  <2>1. /\ DOMAIN pending' = DOMAIN pending \cup {Len(pending) + 1}
        /\ \A i \in DOMAIN pending : pending'[i] = pending[i]
        /\ pending'[Len(pending) + 1] = item
    BY <1>1 DEF Enqueue
  <2>2. PendingIds' = PendingIds \cup {nextId}
    BY <2>1 DEF PendingIds
  <2>3. \A i, j \in DOMAIN pending' : pending'[i].id = pending'[j].id => i = j
    BY <2>1, <1>1 DEF Ids
  <2>4. \A i \in DOMAIN pending' : pending'[i].id < nextId' /\ pending'[i].unit < nextId'
    <3>1. \A i \in DOMAIN pending : pending[i].id \in Nat /\ pending[i].unit \in Nat
      BY <1>1, ItemsTyped DEF TypeOK
    <3>2. nextId' = nextId + 1 /\ item.id = nextId /\ item.unit = nextId
      BY DEF Enqueue
    <3>3. QED BY <2>1, <1>1, <3>1, <3>2 DEF Ids
  <2>5. QED BY <2>2, <2>3, <2>4, <1>1 DEF Ids, Enqueue, TypeOK, LeaseId, LeasedRecord,
                                     CompletedRecord, ParkedRecord
<1>6. OnePlace'
  BY <1>2, <1>3 DEF OnePlace, Enqueue
<1>7. NothingLost'
  BY <1>3 DEF NothingLost, Enqueue, Put
<1>8. QED BY <1>4, <1>5, <1>6, <1>7

\* TakeLease: the head of the queue moves to the leases under its own id.
LEMMA TakeLeaseStep == ASSUME IInv, NEW w \in Workers, TakeLease(w) PROVE IInv'
<1> DEFINE item == Head(pending)
           rec == [unit |-> item.unit, version |-> item.version, worker |-> w,
                   age |-> 0, nth |-> nthGrant + 1]
<1> USE DEF IInv
<1>1. /\ pending \in Seq(PendingItem) /\ pending # <<>>
      /\ pending' = Tail(pending) /\ leased' = Put(leased, item.id, rec)
      /\ DOMAIN pending = 1..Len(pending) /\ 1 \in DOMAIN pending /\ item = pending[1]
      /\ nextId \in Nat
  BY DEF TakeLease, TypeOK, LeaseId
<1>2. item \in PendingItem /\ item.id \in LeaseId /\ item.unit \in LeaseId
      /\ item.version \in Tag /\ item.id \in Nat /\ item.unit \in Nat
  BY <1>1, ItemsTyped DEF PendingItem
<1>3. item.id \in PendingIds /\ item.id \notin DOMAIN leased /\ item.id \notin DOMAIN completed
  BY <1>1 DEF Ids, PendingIds
<1>4. /\ UnitsOf(pending') = UnitsOf(pending) \ {item.unit}
      /\ item.unit \in UnitsOf(pending) /\ OncePerUnit(pending')
  BY <1>1, TailUnits DEF OnePlace
<1>5. /\ DOMAIN leased' = DOMAIN leased \cup {item.id}
      /\ \A x \in DOMAIN leased : leased'[x] = leased[x]
      /\ leased'[item.id] = rec
      /\ UnitsOf(leased') = UnitsOf(leased) \cup {item.unit} /\ OncePerUnit(leased')
  <2>1. OncePerUnit(leased) /\ rec.unit \notin UnitsOf(leased) /\ rec.unit = item.unit
    BY <1>4 DEF OnePlace
  <2>2. /\ DOMAIN Put(leased, item.id, rec) = DOMAIN leased \cup {item.id}
        /\ \A x \in DOMAIN leased : Put(leased, item.id, rec)[x] = leased[x]
        /\ Put(leased, item.id, rec)[item.id] = rec
        /\ UnitsOf(Put(leased, item.id, rec)) = UnitsOf(leased) \cup {rec.unit}
        /\ OncePerUnit(Put(leased, item.id, rec))
    <3> HIDE DEF rec, item
    <3>1. QED BY <2>1, <1>3, PutUnits, Zenon
  <2>3. QED BY <2>1, <2>2, <1>1
<1>6. TypeOK'
  <2>1. rec \in LeasedRecord
    BY <1>2, TTLAssumption, BoundsAssumption DEF LeasedRecord, AgeCap, TypeOK
  <2>2. pending' \in Seq(PendingItem)
    BY <1>1
  <2>3. DOMAIN leased' \subseteq LeaseId /\ \A l \in DOMAIN leased' : leased'[l] \in LeasedRecord
    BY <1>2, <1>5, <2>1 DEF TypeOK
  <2>4. QED BY <2>2, <2>3 DEF TakeLease, TypeOK
<1>7. Ids'
  <2>1. /\ DOMAIN pending' = 1..(Len(pending) - 1) /\ Len(pending) \in Nat
        /\ \A i \in DOMAIN pending' : pending'[i] = pending[i + 1] /\ i + 1 \in DOMAIN pending
    BY <1>1
  <2>2. PendingIds' = PendingIds \ {item.id}
    <3>1. \A i \in DOMAIN pending' : pending'[i].id \in PendingIds \ {item.id}
      BY <2>1, <1>1 DEF Ids, PendingIds
    <3>2. ASSUME NEW i \in DOMAIN pending, pending[i].id # item.id
          PROVE  pending[i].id \in PendingIds'
      <4>1. i # 1 /\ i - 1 \in DOMAIN pending' /\ pending'[i - 1] = pending[i]
        BY <3>2, <2>1, <1>1
      <4>2. QED BY <4>1 DEF PendingIds
    <3>3. QED BY <3>1, <3>2 DEF PendingIds
  <2>3. ASSUME NEW i \in DOMAIN pending', NEW j \in DOMAIN pending',
               pending'[i].id = pending'[j].id
        PROVE  i = j
    <3>1. i + 1 = j + 1
      BY <2>1, <2>3 DEF Ids
    <3>2. QED BY <3>1, <2>1
  <2>4. \A i \in DOMAIN pending' : pending'[i].id < nextId /\ pending'[i].unit < nextId
    BY <2>1 DEF Ids
  <2>5. \A l \in DOMAIN leased' : l < nextId /\ leased'[l].unit < nextId
    BY <1>1, <1>5 DEF Ids
  <2>6. UNCHANGED <<nextId, completed, parked, reaper>>
    BY DEF TakeLease
  <2>7. PendingIds' \cap DOMAIN leased' = {} /\ PendingIds' \cap DOMAIN completed = {}
        /\ DOMAIN leased' \cap DOMAIN completed = {} /\ reaper.todo \subseteq DOMAIN leased'
    BY <2>2, <1>3, <1>5 DEF Ids
  <2>8. QED BY <2>3, <2>4, <2>5, <2>6, <2>7 DEF Ids
<1>8. OnePlace' /\ NothingLost'
  <2>1. UNCHANGED <<completed, parked, submitted>>
    BY DEF TakeLease
  <2>2. QED BY <1>4, <1>5, <2>1 DEF OnePlace, NothingLost
<1>9. QED BY <1>6, <1>7, <1>8

\* What the three ways to end a lease do to the leases.
LEMMA LeaseEnds ==
  ASSUME IInv, NEW l \in DOMAIN leased, leased' = Drop(leased, l)
  PROVE  /\ DOMAIN leased' = DOMAIN leased \ {l}
         /\ \A x \in DOMAIN leased' : leased'[x] = leased[x]
         /\ UnitsOf(leased') = UnitsOf(leased) \ {leased[l].unit}
         /\ leased[l].unit \in UnitsOf(leased)
         /\ OncePerUnit(leased')
         /\ l \in LeaseId /\ leased[l] \in LeasedRecord
         /\ leased[l].unit \in LeaseId /\ leased[l].version \in Tag
         /\ leased[l].unit < nextId /\ l < nextId
<1>1. OncePerUnit(leased)
  BY DEF IInv, OnePlace
<1>2. leased[l] \in LeasedRecord /\ l \in LeaseId
  BY DEF IInv, TypeOK
<1>3. leased[l].unit \in UnitsOf(leased)
  BY DEF UnitsOf
<1>4. /\ DOMAIN Drop(leased, l) = DOMAIN leased \ {l}
      /\ \A x \in DOMAIN leased \ {l} : Drop(leased, l)[x] = leased[x]
      /\ UnitsOf(Drop(leased, l)) = UnitsOf(leased) \ {leased[l].unit}
      /\ OncePerUnit(Drop(leased, l))
  BY <1>1, DropUnits, Zenon
<1>5. leased[l].unit < nextId /\ l < nextId
  BY DEF IInv, Ids
<1>6. leased[l].unit \in LeaseId /\ leased[l].version \in Tag
  BY <1>2 DEF LeasedRecord
<1>7. QED BY <1>2, <1>3, <1>4, <1>5, <1>6

\* MarkComplete: the lease moves to the completions under the same id.
LEMMA MarkCompleteStep ==
  ASSUME IInv, NEW l, NEW s \in Statuses, NEW c \in Categories, MarkComplete(l, s, c)
  PROVE  IInv'
<1> DEFINE rec == [unit |-> leased[l].unit, status |-> s, category |-> c]
<1>0. /\ DOMAIN leased' = DOMAIN leased \ {l}
      /\ \A x \in DOMAIN leased' : leased'[x] = leased[x]
      /\ UnitsOf(leased') = UnitsOf(leased) \ {leased[l].unit}
      /\ leased[l].unit \in UnitsOf(leased)
      /\ OncePerUnit(leased')
      /\ l \in LeaseId /\ leased[l] \in LeasedRecord
      /\ leased[l].unit \in LeaseId /\ leased[l].version \in Tag
      /\ leased[l].unit < nextId /\ l < nextId
  <2>1. l \in DOMAIN leased /\ leased' = Drop(leased, l)
    BY DEF MarkComplete
  <2>2. QED BY <2>1, LeaseEnds, Zenon
<1> USE DEF IInv
<1>1. /\ l \in DOMAIN leased /\ leased' = Drop(leased, l) /\ completed' = Put(completed, l, rec)
      /\ UNCHANGED <<pending, parked, enqueued_total, nextId, nthGrant, reaper, submitted>>
      /\ reaper.at # "scanning"
  BY DEF MarkComplete, LockFree
<1>2. /\ DOMAIN completed' = DOMAIN completed \cup {l}
      /\ \A x \in DOMAIN completed : completed'[x] = completed[x]
      /\ completed'[l] = rec
      /\ UnitsOf(completed') = UnitsOf(completed) \cup {leased[l].unit}
      /\ OncePerUnit(completed')
  <2>1. l \notin DOMAIN completed /\ OncePerUnit(completed)
        /\ rec.unit \notin UnitsOf(completed) /\ rec.unit = leased[l].unit
    BY <1>1, <1>0 DEF Ids, OnePlace
  <2>2. /\ DOMAIN Put(completed, l, rec) = DOMAIN completed \cup {l}
        /\ \A x \in DOMAIN completed : Put(completed, l, rec)[x] = completed[x]
        /\ Put(completed, l, rec)[l] = rec
        /\ UnitsOf(Put(completed, l, rec)) = UnitsOf(completed) \cup {rec.unit}
        /\ OncePerUnit(Put(completed, l, rec))
    <3> HIDE DEF rec
    <3>1. QED BY <2>1, PutUnits, Zenon
  <2>3. QED BY <2>1, <2>2, <1>1
<1>3. TypeOK'
  <2>1. rec \in CompletedRecord
    BY <1>1, <1>0 DEF CompletedRecord
  <2>2. DOMAIN leased' \subseteq LeaseId /\ \A x \in DOMAIN leased' : leased'[x] \in LeasedRecord
    BY <1>1, <1>0 DEF TypeOK
  <2>3. DOMAIN completed' \subseteq LeaseId
        /\ \A x \in DOMAIN completed' : completed'[x] \in CompletedRecord
    BY <1>1, <1>2, <2>1, <1>0 DEF TypeOK
  <2>4. QED BY <1>1, <2>2, <2>3 DEF TypeOK
<1>4. Ids'
  <2>1. PendingIds' = PendingIds
    BY <1>1 DEF PendingIds
  <2>2. QED BY <1>1, <1>2, <2>1, <1>0 DEF Ids
<1>5. OnePlace' /\ NothingLost'
  BY <1>1, <1>2, <1>0 DEF OnePlace, NothingLost
<1>6. QED BY <1>3, <1>4, <1>5

\* ReleaseLease: the lease moves to the parked items under a fresh id.
LEMMA ReleaseLeaseStep ==
  ASSUME IInv, NEW l, NEW r \in Reasons, ReleaseLease(l, r) PROVE IInv'
<1> DEFINE rec == [unit |-> leased[l].unit, version |-> leased[l].version, reason |-> r]
<1>0. /\ DOMAIN leased' = DOMAIN leased \ {l}
      /\ \A x \in DOMAIN leased' : leased'[x] = leased[x]
      /\ UnitsOf(leased') = UnitsOf(leased) \ {leased[l].unit}
      /\ leased[l].unit \in UnitsOf(leased)
      /\ OncePerUnit(leased')
      /\ l \in LeaseId /\ leased[l] \in LeasedRecord
      /\ leased[l].unit \in LeaseId /\ leased[l].version \in Tag
      /\ leased[l].unit < nextId /\ l < nextId
  <2>1. l \in DOMAIN leased /\ leased' = Drop(leased, l)
    BY DEF ReleaseLease
  <2>2. QED BY <2>1, LeaseEnds, Zenon
<1> USE DEF IInv
<1>1. /\ l \in DOMAIN leased /\ leased' = Drop(leased, l) /\ parked' = Put(parked, nextId, rec)
      /\ nextId' = nextId + 1 /\ nextId \in Nat /\ nextId \in LeaseId
      /\ UNCHANGED <<pending, completed, enqueued_total, nthGrant, reaper, submitted>>
      /\ reaper.at # "scanning"
  BY DEF ReleaseLease, LockFree, TypeOK, LeaseId
<1>2. /\ DOMAIN parked' = DOMAIN parked \cup {nextId}
      /\ \A x \in DOMAIN parked : parked'[x] = parked[x]
      /\ parked'[nextId] = rec
      /\ UnitsOf(parked') = UnitsOf(parked) \cup {leased[l].unit}
      /\ OncePerUnit(parked')
  <2>1. nextId \notin DOMAIN parked /\ OncePerUnit(parked)
        /\ rec.unit \notin UnitsOf(parked) /\ rec.unit = leased[l].unit
    BY <1>1, <1>0 DEF Ids, OnePlace
  <2>2. /\ DOMAIN Put(parked, nextId, rec) = DOMAIN parked \cup {nextId}
        /\ \A x \in DOMAIN parked : Put(parked, nextId, rec)[x] = parked[x]
        /\ Put(parked, nextId, rec)[nextId] = rec
        /\ UnitsOf(Put(parked, nextId, rec)) = UnitsOf(parked) \cup {rec.unit}
        /\ OncePerUnit(Put(parked, nextId, rec))
    <3> HIDE DEF rec
    <3>1. QED BY <2>1, PutUnits, Zenon
  <2>3. QED BY <2>1, <2>2, <1>1
<1>3. TypeOK'
  <2>1. rec \in ParkedRecord
    BY <1>1, <1>0 DEF ParkedRecord
  <2>2. DOMAIN leased' \subseteq LeaseId /\ \A x \in DOMAIN leased' : leased'[x] \in LeasedRecord
    BY <1>1, <1>0 DEF TypeOK
  <2>3. DOMAIN parked' \subseteq LeaseId
        /\ \A x \in DOMAIN parked' : parked'[x] \in ParkedRecord
    BY <1>1, <1>2, <2>1 DEF TypeOK
  <2>4. QED BY <1>1, <2>2, <2>3 DEF TypeOK, LeaseId
<1>4. Ids'
  <2>1. PendingIds' = PendingIds
    BY <1>1 DEF PendingIds
  <2>2. \A i \in DOMAIN pending : pending[i].id \in Nat /\ pending[i].unit \in Nat
    BY ItemsTyped DEF TypeOK
  <2>3. \A x \in DOMAIN leased : x \in Nat /\ leased[x].unit \in Nat
    BY DEF TypeOK, LeasedRecord, LeaseId
  <2>4. \A x \in DOMAIN completed : x \in Nat /\ completed[x].unit \in Nat
    BY DEF TypeOK, CompletedRecord, LeaseId
  <2>5. \A x \in DOMAIN parked : x \in Nat /\ parked[x].unit \in Nat
    BY DEF TypeOK, ParkedRecord, LeaseId
  <2>6. \A x \in DOMAIN parked' : x < nextId' /\ parked'[x].unit < nextId'
    BY <1>1, <1>2, <2>3, <2>5, <1>0 DEF Ids
  <2>7. \A x \in DOMAIN leased' : x < nextId' /\ leased'[x].unit < nextId'
    BY <1>1, <2>3, <1>0 DEF Ids
  <2>8. \A x \in DOMAIN completed' : x < nextId' /\ completed'[x].unit < nextId'
    BY <1>1, <2>4 DEF Ids
  <2>9. \A i \in DOMAIN pending' : pending'[i].id < nextId' /\ pending'[i].unit < nextId'
    BY <1>1, <2>2 DEF Ids
  <2>10. QED BY <1>1, <2>1, <2>6, <2>7, <2>8, <2>9, <1>0 DEF Ids
<1>5. OnePlace' /\ NothingLost'
  BY <1>1, <1>2, <1>0 DEF OnePlace, NothingLost
<1>6. QED BY <1>3, <1>4, <1>5

\* A step that only changes the ages and workers' silence keeps the invariant.
LEMMA SameLeases ==
  ASSUME IInv, DOMAIN leased' = DOMAIN leased,
         \A l \in DOMAIN leased : leased'[l] \in LeasedRecord /\ leased'[l].unit = leased[l].unit,
         UNCHANGED <<pending, completed, parked, enqueued_total, nextId, nthGrant, submitted>>,
         reaper' \in ReaperState,
         reaper'.todo \subseteq DOMAIN leased,
         reaper'.at # "scanning" => reaper'.todo = {}
  PROVE  IInv'
<1> USE DEF IInv
<1>1. TypeOK'
  BY DEF TypeOK
<1>2. Ids'
  <2>1. PendingIds' = PendingIds
    BY DEF PendingIds
  <2>2. QED BY <2>1 DEF Ids
<1>3. UnitsOf(leased') = UnitsOf(leased)
  BY DEF UnitsOf
<1>4. OncePerUnit(leased')
  BY DEF OnePlace, OncePerUnit
<1>5. OnePlace' /\ NothingLost'
  BY <1>3, <1>4 DEF OnePlace, NothingLost
<1>6. QED BY <1>1, <1>2, <1>5

LEMMA LeasesTyped ==
  ASSUME IInv
  PROVE  /\ \A l \in DOMAIN leased : leased[l] \in LeasedRecord
         /\ reaper \in ReaperState
         /\ reaper.todo \subseteq DOMAIN leased
         /\ reaper.at # "scanning" => reaper.todo = {}
         /\ DOMAIN leased \subseteq LeaseId
BY DEF IInv, TypeOK, Ids

LEMMA RecordHeartbeatStep ==
  ASSUME IInv, NEW l, NEW w, RecordHeartbeat(l, w) PROVE IInv'
<1>1. CASE HeartbeatOutcome(l, w) # "ok"
  <2>1. leased' = leased /\ reaper' = reaper
        /\ UNCHANGED <<pending, completed, parked, enqueued_total, nextId, nthGrant, submitted>>
    BY <1>1 DEF RecordHeartbeat
  <2>2. QED BY <2>1, LeasesTyped, SameLeases
<1>2. CASE HeartbeatOutcome(l, w) = "ok"
  <2>1. l \in DOMAIN leased
    BY <1>2 DEF HeartbeatOutcome
  <2>2. /\ leased' = [leased EXCEPT ![l] = [leased[l] EXCEPT !.age = 0]]
        /\ reaper' = reaper
        /\ UNCHANGED <<pending, completed, parked, enqueued_total, nextId, nthGrant, submitted>>
    BY <1>2 DEF RecordHeartbeat
  <2>3. [leased[l] EXCEPT !.age = 0] \in LeasedRecord
        /\ [leased[l] EXCEPT !.age = 0].unit = leased[l].unit
    BY <2>1, LeasesTyped, TTLAssumption, BoundsAssumption DEF LeasedRecord, AgeCap
  <2>4. DOMAIN leased' = DOMAIN leased
        /\ \A k \in DOMAIN leased : leased'[k] \in LeasedRecord /\ leased'[k].unit = leased[k].unit
    BY <2>1, <2>2, <2>3, LeasesTyped
  <2>5. QED BY <2>2, <2>4, LeasesTyped, SameLeases
<1>3. QED BY <1>1, <1>2

LEMMA TickStep == ASSUME IInv, Tick PROVE IInv'
<1>1. /\ DOMAIN leased' = DOMAIN leased
      /\ \A l \in DOMAIN leased :
           leased'[l] = [leased[l] EXCEPT !.age = IF @ < AgeCap THEN @ + 1 ELSE @]
      /\ UNCHANGED <<pending, completed, parked, enqueued_total, nextId, nthGrant, submitted>>
  BY DEF Tick
<1>2. \A l \in DOMAIN leased : leased'[l] \in LeasedRecord /\ leased'[l].unit = leased[l].unit
  BY <1>1, LeasesTyped, TTLAssumption, BoundsAssumption DEF LeasedRecord, AgeCap
<1>3. reaper' \in ReaperState
      /\ reaper'.todo = reaper.todo /\ (reaper'.at # "scanning" => reaper.at # "scanning")
  BY LeasesTyped, BoundsAssumption DEF ReaperState, Tick
<1>4. QED BY <1>1, <1>2, <1>3, LeasesTyped, SameLeases

\* ReapOne: the lease goes back to the front of the queue under a fresh id.
LEMMA ReapOneStep ==
  ASSUME IInv, NEW l \in reaper.todo, ReapOne(l) PROVE IInv'
<1> DEFINE item == Requeued(l)
<1>0. /\ DOMAIN leased' = DOMAIN leased \ {l}
      /\ \A x \in DOMAIN leased' : leased'[x] = leased[x]
      /\ UnitsOf(leased') = UnitsOf(leased) \ {leased[l].unit}
      /\ leased[l].unit \in UnitsOf(leased)
      /\ OncePerUnit(leased')
      /\ l \in LeaseId /\ leased[l] \in LeasedRecord
      /\ leased[l].unit \in LeaseId /\ leased[l].version \in Tag
      /\ leased[l].unit < nextId /\ l < nextId
  <2>1. l \in DOMAIN leased /\ leased' = Drop(leased, l)
    BY LeasesTyped DEF ReapOne
  <2>2. QED BY <2>1, LeaseEnds, Zenon
<1> USE DEF IInv
<1>1. /\ pending \in Seq(PendingItem) /\ pending' = <<item>> \o pending
      /\ nextId' = nextId + 1 /\ nextId \in Nat /\ nextId \in LeaseId
      /\ reaper' = [reaper EXCEPT !.todo = @ \ {l}]
      /\ UNCHANGED <<completed, parked, enqueued_total, nthGrant, submitted>>
  BY DEF ReapOne, TypeOK, LeaseId
<1>2. /\ item \in PendingItem /\ item.id = nextId /\ item.unit = leased[l].unit
  BY <1>0, <1>1 DEF Requeued, PendingItem, Tag
<1> HIDE DEF item
<1>3. UnitsOf(pending') = UnitsOf(pending) \cup {leased[l].unit} /\ OncePerUnit(pending')
  <2>1. OncePerUnit(pending) /\ item.unit \notin UnitsOf(pending)
    BY <1>0, <1>2 DEF OnePlace
  <2>2. UnitsOf(<<item>> \o pending) = UnitsOf(pending) \cup {item.unit}
        /\ OncePerUnit(<<item>> \o pending)
    BY <2>1, <1>1, <1>2, ConsUnits
  <2>3. QED BY <2>2, <1>1, <1>2
<1>4. TypeOK'
  <2>1. pending' \in Seq(PendingItem)
    BY <1>1, <1>2
  <2>2. DOMAIN leased' \subseteq LeaseId /\ \A x \in DOMAIN leased' : leased'[x] \in LeasedRecord
    BY <1>0 DEF TypeOK
  <2>3. reaper' \in ReaperState
    BY <1>1 DEF ReaperState, TypeOK
  <2>4. QED BY <1>1, <2>1, <2>2, <2>3 DEF TypeOK, LeaseId
<1>5. Ids'
  <2>1. /\ DOMAIN pending' = 1..(Len(pending) + 1) /\ Len(pending) \in Nat
        /\ DOMAIN pending = 1..Len(pending)
        /\ pending'[1] = item
        /\ \A i \in DOMAIN pending' : i # 1 => pending'[i] = pending[i - 1] /\ i - 1 \in DOMAIN pending
    BY <1>1, <1>2
  <2>2. \A i \in DOMAIN pending : pending[i].id \in Nat /\ pending[i].unit \in Nat
    BY ItemsTyped DEF TypeOK
  <2>3. \A i \in DOMAIN pending' : pending'[i].id \in PendingIds \cup {nextId}
    BY <2>1, <1>2 DEF PendingIds
  <2>4. ASSUME NEW i \in DOMAIN pending', NEW j \in DOMAIN pending',
               pending'[i].id = pending'[j].id
        PROVE  i = j
    <3>1. \A k \in DOMAIN pending : pending[k].id # nextId
      BY <2>2, <1>1 DEF Ids
    <3>2. CASE i = 1 \/ j = 1
      BY <3>1, <3>2, <2>4, <2>1, <1>2
    <3>3. CASE i # 1 /\ j # 1
      <4>1. i - 1 = j - 1
        BY <3>3, <2>1, <2>4 DEF Ids
      <4>2. QED BY <4>1, <2>1
    <3>4. QED BY <3>2, <3>3
  <2>5. \A i \in DOMAIN pending' : pending'[i].id < nextId' /\ pending'[i].unit < nextId'
    <3>1. leased[l].unit \in Nat
      BY <1>0 DEF LeaseId
    <3>2. QED BY <2>1, <2>2, <1>0, <1>1, <1>2, <3>1 DEF Ids
  <2>6. \A x \in DOMAIN leased : x \in Nat /\ leased[x].unit \in Nat
    BY DEF TypeOK, LeasedRecord, LeaseId
  <2>7. \A x \in DOMAIN completed : x \in Nat /\ completed[x].unit \in Nat
    BY DEF TypeOK, CompletedRecord, LeaseId
  <2>8. \A x \in DOMAIN parked : x \in Nat /\ parked[x].unit \in Nat
    BY DEF TypeOK, ParkedRecord, LeaseId
  <2>9. \A x \in DOMAIN leased' : x < nextId' /\ leased'[x].unit < nextId'
    BY <1>0, <1>1, <2>6 DEF Ids
  <2>10. \A x \in DOMAIN completed' : x < nextId' /\ completed'[x].unit < nextId'
    BY <1>1, <2>7 DEF Ids
  <2>11. \A x \in DOMAIN parked' : x < nextId' /\ parked'[x].unit < nextId'
    BY <1>1, <2>8 DEF Ids
  <2>12. nextId \notin DOMAIN leased /\ nextId \notin DOMAIN completed
    BY <2>6, <2>7, <1>1 DEF Ids
  <2>13. PendingIds' \subseteq PendingIds \cup {nextId}
    BY <2>3 DEF PendingIds
  <2>14. /\ PendingIds' \cap DOMAIN leased' = {} /\ PendingIds' \cap DOMAIN completed' = {}
         /\ DOMAIN leased' \cap DOMAIN completed' = {}
    BY <2>12, <2>13, <1>0, <1>1 DEF Ids
  <2>15. reaper'.todo \subseteq DOMAIN leased' /\ (reaper'.at # "scanning" => reaper'.todo = {})
    <3>1. reaper'.todo = reaper.todo \ {l} /\ reaper'.at = reaper.at
      BY <1>1 DEF TypeOK
    <3>2. QED BY <3>1, <1>0 DEF Ids
  <2>16. QED BY <2>4, <2>5, <2>9, <2>10, <2>11, <2>14, <2>15 DEF Ids
<1>6. OnePlace' /\ NothingLost'
  BY <1>0, <1>1, <1>3 DEF OnePlace, NothingLost
<1>7. QED BY <1>4, <1>5, <1>6

LEMMA ReaperStepInv == ASSUME IInv, ReaperStep PROVE IInv'
<1>1. CASE ReaperReadsClock
  <2>1. reaper' \in ReaperState
        /\ reaper'.todo = {} /\ leased' = leased
        /\ UNCHANGED <<pending, completed, parked, enqueued_total, nextId, nthGrant, submitted>>
    BY <1>1, LeasesTyped DEF ReaperState, ReaperReadsClock
  <2>2. QED BY <2>1, LeasesTyped, SameLeases
<1>2. CASE ReaperLocks
  <2>1. reaper' \in ReaperState
        /\ reaper'.todo = DOMAIN leased /\ reaper'.at = "scanning" /\ leased' = leased
        /\ UNCHANGED <<pending, completed, parked, enqueued_total, nextId, nthGrant, submitted>>
    BY <1>2, LeasesTyped DEF ReaperState, ReaperLocks
  <2>2. QED BY <2>1, LeasesTyped, SameLeases
<1>3. ASSUME NEW l \in reaper.todo, ReapOne(l) PROVE IInv'
  BY <1>3, ReapOneStep
<1>4. ASSUME NEW l \in reaper.todo, Spare(l) PROVE IInv'
  <2>1. reaper' \in ReaperState
        /\ reaper'.todo \subseteq DOMAIN leased /\ reaper'.at = "scanning" /\ leased' = leased
        /\ UNCHANGED <<pending, completed, parked, enqueued_total, nextId, nthGrant, submitted>>
    BY <1>4, LeasesTyped DEF ReaperState, Spare, Visits
  <2>2. QED BY <2>1, LeasesTyped, SameLeases
<1>5. CASE ReaperUnlocks
  <2>1. reaper' \in ReaperState
        /\ reaper'.todo = {} /\ leased' = leased
        /\ UNCHANGED <<pending, completed, parked, enqueued_total, nextId, nthGrant, submitted>>
    BY <1>5, BoundsAssumption DEF ReaperState, ReaperUnlocks
  <2>2. QED BY <2>1, LeasesTyped, SameLeases
<1>6. QED BY <1>1, <1>2, <1>3, <1>4, <1>5 DEF ReaperStep

LEMMA NextIInv == ASSUME IInv, [DispatcherNext]_dvars PROVE IInv'
<1>1. ASSUME NEW v \in Tag, Enqueue(v) PROVE IInv'
  BY <1>1, EnqueueStep
<1>2. ASSUME NEW w \in Workers, TakeLease(w) PROVE IInv'
  BY <1>2, TakeLeaseStep
<1>3. ASSUME NEW l \in Minted, NEW s \in Statuses, NEW c \in Categories, MarkComplete(l, s, c)
      PROVE  IInv'
  BY <1>3, MarkCompleteStep
<1>4. ASSUME NEW l \in Minted, NEW r \in Reasons, ReleaseLease(l, r) PROVE IInv'
  BY <1>4, ReleaseLeaseStep
<1>5. ASSUME NEW l \in Minted, NEW w \in Workers, RecordHeartbeat(l, w) PROVE IInv'
  BY <1>5, RecordHeartbeatStep
<1>6. CASE Tick
  BY <1>6, TickStep
<1>7. CASE ReaperStep
  BY <1>7, ReaperStepInv
<1>8. ASSUME UNCHANGED dvars PROVE IInv'
  <2>1. leased' = leased /\ reaper' = reaper
        /\ UNCHANGED <<pending, completed, parked, enqueued_total, nextId, nthGrant, submitted>>
    BY <1>8 DEF dvars
  <2>2. QED BY <2>1, LeasesTyped, SameLeases
<1>9. QED
  BY <1>1, <1>2, <1>3, <1>4, <1>5, <1>6, <1>7, <1>8
     DEF DispatcherNext, Request, StaleComplete, StaleRelease

\* Whatever the handlers and the reaper do to the tables, ids and units stay apart.
THEOREM Invariance == DispatcherSpec => []IInv
<1>1. DispatcherInit => IInv
  BY InitIInv
<1>2. IInv /\ [DispatcherNext]_dvars => IInv'
  BY NextIInv
<1>3. QED BY <1>1, <1>2, PTL DEF DispatcherSpec

\* The dispatcher's tables hold what the code puts in them, whatever callers send.
THEOREM TypeCorrect == DispatcherSpec => []TypeOK
<1>1. IInv => TypeOK
  BY DEF IInv
<1>2. QED BY <1>1, Invariance, PTL

\* An item is never in two places, leased to two workers, or completed twice.
THEOREM AlwaysOnePlace == DispatcherSpec => []OnePlace
<1>1. IInv => OnePlace
  BY DEF IInv
<1>2. QED BY <1>1, Invariance, PTL

\* No enqueued item disappears, whatever leases expire, complete or are released.
THEOREM AlwaysNothingLost == DispatcherSpec => []NothingLost
<1>1. IInv => NothingLost
  BY DEF IInv
<1>2. QED BY <1>1, Invariance, PTL

--------------------------------------------------------------------------------
(* The life of a lease id.                                                   *)

\* Ids are queued only when fresh, leased only from the queue, and keep their worker.
IdsMoveOn ==
  /\ nextId' \in Nat /\ nextId <= nextId'
  /\ PendingIds' \subseteq PendingIds \cup {nextId}
  /\ DOMAIN leased' \subseteq DOMAIN leased \cup PendingIds
  /\ \A l \in DOMAIN leased \cap DOMAIN leased' :
       leased'[l].worker = leased[l].worker /\ leased'[l].unit = leased[l].unit

LEMMA SamePendingIds == ASSUME pending' = pending PROVE PendingIds' = PendingIds
BY DEF PendingIds

LEMMA StepMovesIds == ASSUME IInv, [DispatcherNext]_dvars PROVE IdsMoveOn
<1>1. TypeOK /\ nextId \in Nat /\ pending \in Seq(PendingItem)
  BY DEF IInv, TypeOK, LeaseId
<1>2. ASSUME NEW v \in Tag, Enqueue(v) PROVE IdsMoveOn
  <2> DEFINE x == [id |-> nextId, unit |-> nextId, version |-> v, seen |-> FALSE]
  <2>1. pending' = Append(pending, x) /\ leased' = leased /\ nextId' = nextId + 1
    BY <1>2 DEF Enqueue
  <2>2. \A i \in DOMAIN pending' :
           (i \in DOMAIN pending /\ pending'[i] = pending[i]) \/ pending'[i] = x
    BY <2>1, <1>1
  <2>3. PendingIds' \subseteq PendingIds \cup {nextId}
    BY <2>2 DEF PendingIds
  <2>4. QED BY <2>1, <2>3, <1>1 DEF IdsMoveOn
<1>3. ASSUME NEW w \in Workers, TakeLease(w) PROVE IdsMoveOn
  <2>1. /\ pending # <<>> /\ pending' = Tail(pending) /\ nextId' = nextId
        /\ leased' = Put(leased, Head(pending).id,
                         [unit |-> Head(pending).unit, version |-> Head(pending).version,
                          worker |-> w, age |-> 0, nth |-> nthGrant + 1])
    BY <1>3 DEF TakeLease
  <2>2. /\ 1 \in DOMAIN pending /\ Head(pending) = pending[1]
        /\ \A i \in DOMAIN pending' : i + 1 \in DOMAIN pending /\ pending'[i] = pending[i + 1]
    BY <2>1, <1>1
  <2>3. PendingIds' \subseteq PendingIds
    BY <2>2 DEF PendingIds
  <2>4. Head(pending).id \in PendingIds /\ Head(pending).id \notin DOMAIN leased
    BY <2>2 DEF PendingIds, IInv, Ids
  <2>5. /\ DOMAIN leased' = DOMAIN leased \cup {Head(pending).id}
        /\ \A l \in DOMAIN leased : leased'[l] = leased[l]
    BY <2>1, <2>4 DEF Put
  <2>6. QED BY <2>1, <2>3, <2>4, <2>5, <1>1 DEF IdsMoveOn
<1>4. ASSUME NEW l, leased' = Drop(leased, l), pending' = pending,
             nextId' \in {nextId, nextId + 1}
      PROVE  IdsMoveOn
  BY <1>4, <1>1, SamePendingIds DEF IdsMoveOn, Drop
<1>5. ASSUME NEW l, NEW s, NEW c, MarkComplete(l, s, c) PROVE IdsMoveOn
  BY <1>5, <1>4 DEF MarkComplete
<1>6. ASSUME NEW l, NEW r, ReleaseLease(l, r) PROVE IdsMoveOn
  BY <1>6, <1>4 DEF ReleaseLease
<1>7. ASSUME pending' = pending, nextId' = nextId, DOMAIN leased' = DOMAIN leased,
             \A l \in DOMAIN leased : leased'[l].worker = leased[l].worker
                                       /\ leased'[l].unit = leased[l].unit
      PROVE  IdsMoveOn
  BY <1>7, <1>1, SamePendingIds DEF IdsMoveOn
<1>8. ASSUME NEW l, NEW w, RecordHeartbeat(l, w) PROVE IdsMoveOn
  <2>1. \A m \in DOMAIN leased : leased[m] \in LeasedRecord
    BY <1>1 DEF TypeOK
  <2>2. QED BY <1>8, <1>7, <2>1 DEF RecordHeartbeat, HeartbeatOutcome, LeasedRecord
<1>9. CASE Tick
  <2>1. \A m \in DOMAIN leased : leased[m] \in LeasedRecord
    BY <1>1 DEF TypeOK
  <2>2. QED BY <1>9, <1>7, <2>1 DEF Tick, LeasedRecord
<1>10. ASSUME NEW l \in reaper.todo, ReapOne(l) PROVE IdsMoveOn
  <2>1. /\ pending' = <<Requeued(l)>> \o pending /\ nextId' = nextId + 1
        /\ leased' = Drop(leased, l)
    BY <1>10 DEF ReapOne
  <2>2. \A i \in DOMAIN pending' :
           pending'[i] = Requeued(l) \/ (i - 1 \in DOMAIN pending /\ pending'[i] = pending[i - 1])
    BY <2>1, <1>1
  <2>3. Requeued(l).id = nextId
    BY DEF Requeued
  <2>4. PendingIds' \subseteq PendingIds \cup {nextId}
    BY <2>2, <2>3 DEF PendingIds
  <2>5. QED BY <2>1, <2>4, <1>1 DEF IdsMoveOn, Drop
<1>11. CASE ReaperStep
  BY <1>11, <1>10, <1>7 DEF ReaperStep, ReaperReadsClock, ReaperLocks, Spare, ReaperUnlocks
<1>12. CASE UNCHANGED dvars
  BY <1>12, <1>7 DEF dvars
<1>13. QED
  BY <1>2, <1>3, <1>5, <1>6, <1>8, <1>9, <1>11, <1>12
     DEF DispatcherNext, Request, StaleComplete, StaleRelease

\* A lease id that ended is never queued or leased again: a zombie's call finds nothing.
THEOREM AlwaysRetiredForGood == DispatcherSpec => RetiredForGood
<1>1. ASSUME IInv, [DispatcherNext]_dvars, NEW l \in Minted
      PROVE  /\ Retired(l) => Retired(l)'
             /\ l \in DOMAIN leased => l \in DOMAIN leased' \/ Retired(l)'
  <2>1. IdsMoveOn
    BY <1>1, StepMovesIds
  <2>2. l \in Nat /\ l < nextId /\ nextId \in Nat
    BY <1>1 DEF Minted, IInv, TypeOK, LeaseId
  <2>3. l # nextId /\ l < nextId'
    BY <2>1, <2>2 DEF IdsMoveOn
  <2>4. PendingIds \cap DOMAIN leased = {}
    BY <1>1 DEF IInv, Ids
  <2>5. QED BY <2>1, <2>2, <2>3, <2>4 DEF IdsMoveOn, Retired
<1>2. IInv /\ [DispatcherNext]_dvars => LeavesRetired
  BY <1>1 DEF LeavesRetired
<1>3. QED BY <1>2, Invariance, PTL DEF DispatcherSpec, RetiredForGood

--------------------------------------------------------------------------------
(* What the reaper takes, and where it puts it.                              *)

LEMMA ReaperSpares ==
  ASSUME IInv, NEW l \in reaper.todo, ReapOne(l) PROVE SparesHeard
<1>1. /\ reaper \in ReaperState /\ l \in DOMAIN leased /\ leased[l] \in LeasedRecord
      /\ pending \in Seq(PendingItem)
  BY DEF IInv, TypeOK, Ids
<1>2. reaper.lag \in Nat /\ leased[l].age \in Int /\ leased[l].age > TTL
  <2>1. reaper.lag \in Nat /\ leased[l].age \in Int
    BY <1>1, BoundsAssumption, TTLAssumption DEF ReaperState, LeasedRecord, AgeCap
  <2>2. leased[l].age - reaper.lag > TTL
    BY DEF ReapOne, Expired
  <2>3. QED BY <2>1, <2>2, TTLAssumption
<1>3. \A i \in DOMAIN pending' :
         pending'[i] = Requeued(l) \/ (i - 1 \in DOMAIN pending /\ pending'[i] = pending[i - 1])
  BY <1>1 DEF ReapOne
<1>4. UnitsOf(pending') \subseteq UnitsOf(pending) \cup {leased[l].unit}
  BY <1>3 DEF UnitsOf, Requeued
<1>5. ASSUME NEW m \in DOMAIN leased, leased[m].unit \in UnitsOf(pending')
      PROVE  leased[m].age > TTL
  <2>1. leased[m].unit \notin UnitsOf(pending)
    BY DEF IInv, OnePlace, UnitsOf
  <2>2. m = l
    BY <1>1, <1>4, <1>5, <2>1 DEF IInv, OnePlace, OncePerUnit
  <2>3. QED BY <2>2, <1>2
<1>6. QED BY <1>5 DEF SparesHeard

LEMMA StepSpares == ASSUME IInv, [DispatcherNext]_dvars PROVE SparesHeard
<1>1. /\ pending \in Seq(PendingItem)
      /\ \A l \in DOMAIN leased : leased[l].unit \notin UnitsOf(pending)
      /\ \A l \in DOMAIN leased : leased[l].unit < nextId
      /\ \A l \in DOMAIN leased : leased[l].unit \in Nat
      /\ nextId \in Nat
  <2>1. /\ pending \in Seq(PendingItem) /\ nextId \in Nat
        /\ \A l \in DOMAIN leased : leased[l] \in LeasedRecord
    BY DEF IInv, TypeOK, LeaseId
  <2>2. \A l \in DOMAIN leased : leased[l].unit \in Nat
    BY <2>1 DEF LeasedRecord, LeaseId
  <2>3. \A l \in DOMAIN leased : leased[l].unit \notin UnitsOf(pending)
    BY DEF IInv, OnePlace, UnitsOf
  <2>4. \A l \in DOMAIN leased : leased[l].unit < nextId
    BY DEF IInv, Ids
  <2>5. QED BY <2>1, <2>2, <2>3, <2>4
<1>2. ASSUME UnitsOf(pending') \subseteq UnitsOf(pending) PROVE SparesHeard
  BY <1>1, <1>2 DEF SparesHeard
<1>3. ASSUME pending' = pending PROVE SparesHeard
  <2>1. UnitsOf(pending') = UnitsOf(pending)
    BY <1>3 DEF UnitsOf
  <2>2. QED BY <2>1, <1>2
<1>4. ASSUME NEW v \in Tag, Enqueue(v) PROVE SparesHeard
  <2> DEFINE x == [id |-> nextId, unit |-> nextId, version |-> v, seen |-> FALSE]
  <2>1. \A i \in DOMAIN pending' :
           (i \in DOMAIN pending /\ pending'[i] = pending[i]) \/ pending'[i] = x
    BY <1>1, <1>4 DEF Enqueue
  <2>2. UnitsOf(pending') \subseteq UnitsOf(pending) \cup {nextId}
    BY <2>1 DEF UnitsOf
  <2>3. QED BY <2>2, <1>1 DEF SparesHeard
<1>5. ASSUME NEW w \in Workers, TakeLease(w) PROVE SparesHeard
  <2>1. \A i \in DOMAIN pending' : i + 1 \in DOMAIN pending /\ pending'[i] = pending[i + 1]
    BY <1>1, <1>5 DEF TakeLease
  <2>2. QED BY <2>1, <1>2 DEF UnitsOf
<1>6. CASE ReaperStep
  BY <1>6, <1>3, ReaperSpares DEF ReaperStep, ReaperReadsClock, ReaperLocks, Spare, ReaperUnlocks
<1>7. QED
  BY <1>3, <1>4, <1>5, <1>6
     DEF DispatcherNext, Request, MarkComplete, StaleComplete, ReleaseLease, StaleRelease,
         RecordHeartbeat, Tick, dvars

\* However old the reaper's clock reading is when it gets the lock, it takes no lease that was
\* heard of within the TTL.
THEOREM AlwaysReapedOnlySilent == DispatcherSpec => ReapedOnlySilent
<1>1. IInv /\ [DispatcherNext]_dvars => SparesHeard
  BY StepSpares
<1>2. QED BY <1>1, Invariance, PTL DEF DispatcherSpec, ReapedOnlySilent

LEMMA StepKeepsOrder ==
  ASSUME TypeOK, RedeliveriesFirst, [DispatcherNext]_dvars PROVE RedeliveriesFirst'
<1>1. pending \in Seq(PendingItem)
  BY DEF TypeOK
<1>2. ASSUME pending' = pending PROVE RedeliveriesFirst'
  BY <1>2 DEF RedeliveriesFirst
<1>3. ASSUME NEW v \in Tag, Enqueue(v) PROVE RedeliveriesFirst'
  <2>1. \A i \in DOMAIN pending' :
           \/ i \in DOMAIN pending /\ pending'[i] = pending[i]
           \/ i = Len(pending) + 1 /\ ~pending'[i].seen
    BY <1>1, <1>3 DEF Enqueue
  <2>2. DOMAIN pending = 1..Len(pending) /\ Len(pending) \in Nat
    BY <1>1
  <2>3. ASSUME NEW i \in DOMAIN pending', NEW j \in DOMAIN pending', i < j, pending'[j].seen
        PROVE  pending'[i].seen
    BY <2>1, <2>2, <2>3 DEF RedeliveriesFirst
  <2>4. QED BY <2>3 DEF RedeliveriesFirst
<1>4. ASSUME NEW w \in Workers, TakeLease(w) PROVE RedeliveriesFirst'
  <2>1. \A i \in DOMAIN pending' :
           i \in Nat /\ i + 1 \in DOMAIN pending /\ pending'[i] = pending[i + 1]
    BY <1>1, <1>4 DEF TakeLease
  <2>2. ASSUME NEW i \in DOMAIN pending', NEW j \in DOMAIN pending', i < j, pending'[j].seen
        PROVE  pending'[i].seen
    <3>1. i + 1 < j + 1
      BY <2>1, <2>2
    <3>2. QED BY <3>1, <2>1, <2>2 DEF RedeliveriesFirst
  <2>3. QED BY <2>2 DEF RedeliveriesFirst
<1>5. ASSUME NEW l, ReapOne(l) PROVE RedeliveriesFirst'
  <2>1. \A i \in DOMAIN pending' :
           /\ i \in Nat \ {0}
           /\ i = 1 => pending'[i].seen
           /\ i # 1 => i - 1 \in DOMAIN pending /\ pending'[i] = pending[i - 1]
    BY <1>1, <1>5 DEF ReapOne, Requeued
  <2>2. ASSUME NEW i \in DOMAIN pending', NEW j \in DOMAIN pending', i < j, pending'[j].seen
        PROVE  pending'[i].seen
    <3>1. CASE i = 1
      BY <3>1, <2>1
    <3>2. CASE i # 1
      <4>1. j # 1 /\ i - 1 < j - 1
        BY <2>1, <2>2, <3>2
      <4>2. QED BY <4>1, <3>2, <2>1, <2>2 DEF RedeliveriesFirst
    <3>3. QED BY <3>1, <3>2
  <2>3. QED BY <2>2 DEF RedeliveriesFirst
<1>6. QED
  BY <1>2, <1>3, <1>4, <1>5
     DEF DispatcherNext, Request, MarkComplete, StaleComplete, ReleaseLease, StaleRelease,
         RecordHeartbeat, Tick, dvars, ReaperStep, ReaperReadsClock, ReaperLocks, Spare,
         ReaperUnlocks

\* An item that was given back stays ahead of every item that was never leased.
THEOREM AlwaysRedeliveriesFirst == DispatcherSpec => []RedeliveriesFirst
<1>1. DispatcherInit => RedeliveriesFirst
  BY DEF DispatcherInit, RedeliveriesFirst
<1>2. TypeOK /\ RedeliveriesFirst /\ [DispatcherNext]_dvars => RedeliveriesFirst'
  BY StepKeepsOrder
<1>3. QED BY <1>1, <1>2, TypeCorrect, PTL DEF DispatcherSpec

--------------------------------------------------------------------------------
(* wait_until_drained compares two counts: enqueued_total is the number of   *)
(* units, and units and completions correspond one to one.                   *)

Counted == IsFiniteSet(DOMAIN submitted) /\ Cardinality(DOMAIN submitted) = enqueued_total

LEMMA StepCounts == ASSUME IInv, Counted, [DispatcherNext]_dvars PROVE Counted'
<1>1. ASSUME submitted' = submitted, enqueued_total' = enqueued_total PROVE Counted'
  BY <1>1 DEF Counted
<1>2. ASSUME NEW v \in Tag, Enqueue(v) PROVE Counted'
  <2>1. DOMAIN submitted' = DOMAIN submitted \cup {nextId} /\ enqueued_total' = enqueued_total + 1
    BY <1>2 DEF Enqueue, Put
  <2>2. nextId \in Nat
    BY DEF IInv, TypeOK, LeaseId
  <2>3. \A u \in DOMAIN submitted : u < nextId
    BY DEF IInv, NothingLost, Ids, UnitsOf
  <2>4. nextId \notin DOMAIN submitted
    BY <2>2, <2>3
  <2>5. /\ IsFiniteSet(DOMAIN submitted \cup {nextId})
        /\ Cardinality(DOMAIN submitted \cup {nextId}) = Cardinality(DOMAIN submitted) + 1
    BY <2>4, FS_AddElement DEF Counted
  <2>6. QED BY <2>1, <2>5 DEF Counted
<1>3. QED
  BY <1>1, <1>2
     DEF DispatcherNext, Request, TakeLease, MarkComplete, StaleComplete, ReleaseLease,
         StaleRelease, RecordHeartbeat, Tick, dvars, ReaperStep, ReaperReadsClock, ReaperLocks,
         ReapOne, Spare, ReaperUnlocks

LEMMA CountsAgree == ASSUME IInv, Counted PROVE DrainedMeansDone
<1> DEFINE f == [l \in DOMAIN completed |-> completed[l].unit]
<1>1. f \in Injection(DOMAIN completed, DOMAIN submitted)
  <2>1. \A l \in DOMAIN completed : f[l] \in DOMAIN submitted
    BY DEF IInv, NothingLost, UnitsOf
  <2>2. \A k, l \in DOMAIN completed : f[k] = f[l] => k = l
    BY DEF IInv, OnePlace, OncePerUnit
  <2>3. QED BY <2>1, <2>2 DEF Injection, IsInjective
<1>2. /\ IsFiniteSet(DOMAIN completed)
      /\ Cardinality(DOMAIN completed) <= Cardinality(DOMAIN submitted)
      /\ Cardinality(DOMAIN completed) = Cardinality(DOMAIN submitted) =>
           f \in Surjection(DOMAIN completed, DOMAIN submitted)
  BY <1>1, FS_Injection DEF Counted
<1>3. ASSUME Drained PROVE UnitsOf(completed) = DOMAIN submitted
  <2>1. Cardinality(DOMAIN completed) \in Nat /\ Cardinality(DOMAIN submitted) \in Nat
    BY <1>2, FS_CardinalityType DEF Counted
  <2>2. Cardinality(DOMAIN completed) = Cardinality(DOMAIN submitted)
    BY <1>2, <1>3, <2>1 DEF Counted, Drained
  <2>3. \A u \in DOMAIN submitted : \E l \in DOMAIN completed : f[l] = u
    BY <1>2, <2>2 DEF Surjection
  <2>4. QED BY <2>3 DEF UnitsOf, IInv, NothingLost
<1>4. QED BY <1>3 DEF DrainedMeansDone

\* When the counting test succeeds every enqueued item has a completion of its own: none is
\* parked, in flight or counted twice.
THEOREM AlwaysDrainedMeansDone == DispatcherSpec => []DrainedMeansDone
<1>1. DispatcherInit => Counted
  BY FS_EmptySet DEF DispatcherInit, Counted, Empty
<1>2. IInv /\ Counted /\ [DispatcherNext]_dvars => Counted'
  BY StepCounts
<1>3. IInv /\ Counted => DrainedMeansDone
  BY CountsAgree
<1>4. QED BY <1>1, <1>2, <1>3, Invariance, PTL DEF DispatcherSpec

--------------------------------------------------------------------------------
(* The dispatcher implements WorkQueue.  Every step leaves the four sets of  *)
(* units alone, or moves one unit from one to another.                       *)

Handles == \A u \in DOMAIN submitted : u \in 1..MaxLeaseId

LEMMA StepHandles == ASSUME IInv, Handles, [DispatcherNext]_dvars PROVE Handles'
<1>1. ASSUME submitted' = submitted PROVE Handles'
  BY <1>1 DEF Handles
<1>2. ASSUME NEW v \in Tag, Enqueue(v) PROVE Handles'
  <2>1. nextId \in 1..MaxLeaseId
    BY <1>2, BoundsAssumption DEF Enqueue, IInv, TypeOK, LeaseId
  <2>2. DOMAIN submitted' = DOMAIN submitted \cup {nextId}
    BY <1>2 DEF Enqueue, Put
  <2>3. QED BY <2>1, <2>2 DEF Handles
<1>3. QED
  BY <1>1, <1>2
     DEF DispatcherNext, Request, TakeLease, MarkComplete, StaleComplete, ReleaseLease,
         StaleRelease, RecordHeartbeat, Tick, dvars, ReaperStep, ReaperReadsClock, ReaperLocks,
         ReapOne, Spare, ReaperUnlocks

Queued == UnitsOf(pending)
Held == UnitsOf(leased)
Done == UnitsOf(completed)
Parked == UnitsOf(parked)

\* Which unit a step moves, from which set to which.
Moves(u) ==
  \/ /\ u \notin Queued \cup Held \cup Done \cup Parked
     /\ Queued' = Queued \cup {u} /\ Held' = Held /\ Done' = Done /\ Parked' = Parked
  \/ /\ u \in Queued
     /\ Queued' = Queued \ {u} /\ Held' = Held \cup {u} /\ Done' = Done /\ Parked' = Parked
  \/ /\ u \in Held
     /\ Held' = Held \ {u} /\ Queued' = Queued \cup {u} /\ Done' = Done /\ Parked' = Parked
  \/ /\ u \in Held
     /\ Held' = Held \ {u} /\ Done' = Done \cup {u} /\ Queued' = Queued /\ Parked' = Parked
  \/ /\ u \in Held
     /\ Held' = Held \ {u} /\ Parked' = Parked \cup {u} /\ Queued' = Queued /\ Done' = Done

LEMMA StepMoves ==
  ASSUME IInv, Handles, [DispatcherNext]_dvars
  PROVE  UNCHANGED <<Queued, Held, Done, Parked>> \/ \E u \in 1..MaxLeaseId : Moves(u)
<1> DEFINE Goal == UNCHANGED <<Queued, Held, Done, Parked>> \/ \E u \in 1..MaxLeaseId : Moves(u)
<1> SUFFICES Goal OBVIOUS
<1>1. /\ pending \in Seq(PendingItem) /\ nextId \in Nat /\ nextId # 0
      /\ OncePerUnit(pending) /\ OncePerUnit(leased)
      /\ Queued \cap Held = {} /\ nextId \notin Queued \cup Held \cup Done \cup Parked
      /\ \A u \in Queued \cup Held : u \in 1..MaxLeaseId
  <2>1. pending \in Seq(PendingItem) /\ nextId \in Nat /\ nextId # 0
    BY DEF IInv, TypeOK, LeaseId
  <2>2. OncePerUnit(pending) /\ OncePerUnit(leased) /\ Queued \cap Held = {}
    BY DEF IInv, OnePlace, Queued, Held
  <2>3. \A u \in Queued \cup Held \cup Done \cup Parked : u < nextId
    BY DEF IInv, Ids, Queued, Held, Done, Parked, UnitsOf
  <2>4. \A u \in Queued \cup Held : u \in 1..MaxLeaseId
    BY DEF Handles, IInv, NothingLost, Queued, Held
  <2>5. QED BY <2>1, <2>2, <2>3, <2>4
<1>2. ASSUME NEW v \in Tag, Enqueue(v) PROVE Goal
  <2> DEFINE item == [id |-> nextId, unit |-> nextId, version |-> v, seen |-> FALSE]
  <2>1. /\ pending' = Append(pending, item) /\ item \in PendingItem /\ item.unit = nextId
        /\ nextId \in 1..MaxLeaseId
        /\ UNCHANGED <<leased, completed, parked>>
    BY <1>1, <1>2, BoundsAssumption DEF Enqueue, PendingItem, LeaseId
  <2> HIDE DEF item
  <2>2. UnitsOf(Append(pending, item)) = UnitsOf(pending) \cup {item.unit}
    BY <1>1, <2>1, AppendUnits DEF Queued
  <2>3. Moves(nextId)
    BY <1>1, <2>1, <2>2 DEF Moves, Queued, Held, Done, Parked, UnitsOf
  <2>4. QED BY <2>1, <2>3
<1>3. ASSUME NEW w \in Workers, TakeLease(w) PROVE Goal
  <2> DEFINE item == Head(pending)
             rec == [unit |-> item.unit, version |-> item.version, worker |-> w,
                     age |-> 0, nth |-> nthGrant + 1]
  <2>1. /\ pending # <<>> /\ pending' = Tail(pending) /\ leased' = Put(leased, item.id, rec)
        /\ rec.unit = item.unit /\ UNCHANGED <<completed, parked>>
    BY <1>3 DEF TakeLease
  <2>2. UnitsOf(Tail(pending)) = UnitsOf(pending) \ {item.unit} /\ item.unit \in Queued
    BY <1>1, <2>1, TailUnits DEF Queued
  <2>3. item.id \notin DOMAIN leased /\ item.unit \notin Held
    <3>1. 1 \in DOMAIN pending /\ item = pending[1]
      BY <1>1, <2>1
    <3>2. item.id \in PendingIds
      BY <3>1 DEF PendingIds
    <3>3. QED BY <3>2, <2>2, <1>1 DEF IInv, Ids
  <2> HIDE DEF item, rec
  <2>4. rec.unit \notin UnitsOf(leased)
    BY <2>1, <2>3 DEF Held
  <2>5. UnitsOf(Put(leased, item.id, rec)) = UnitsOf(leased) \cup {rec.unit}
    BY <2>3, <2>4, PutAdds, Zenon
  <2>6. /\ Held' = Held \cup {item.unit} /\ Queued' = Queued \ {item.unit}
        /\ Done' = Done /\ Parked' = Parked
    BY <2>1, <2>2, <2>5 DEF Queued, Held, Done, Parked
  <2>7. Moves(item.unit)
    BY <2>2, <2>6 DEF Moves
  <2>8. QED BY <1>1, <2>2, <2>7
<1>4. ASSUME NEW l \in DOMAIN leased, leased' = Drop(leased, l)
      PROVE  leased[l].unit \in Held /\ Held' = Held \ {leased[l].unit}
             /\ leased[l].unit \in 1..MaxLeaseId
  <2>1. UnitsOf(Drop(leased, l)) = UnitsOf(leased) \ {leased[l].unit}
    BY <1>1, DropUnits, Zenon
  <2>2. leased[l].unit \in Held
    BY DEF Held, UnitsOf
  <2>3. QED BY <1>1, <1>4, <2>1, <2>2 DEF Held, UnitsOf
<1>5. ASSUME NEW l, NEW s, NEW c, MarkComplete(l, s, c) PROVE Goal
  <2> DEFINE rec == [unit |-> leased[l].unit, status |-> s, category |-> c]
  <2>1. /\ l \in DOMAIN leased /\ leased' = Drop(leased, l) /\ completed' = Put(completed, l, rec)
        /\ rec.unit = leased[l].unit /\ UNCHANGED <<pending, parked>>
    BY <1>5 DEF MarkComplete
  <2>2. l \notin DOMAIN completed /\ rec.unit \notin UnitsOf(completed) /\ OncePerUnit(completed)
    <3>1. l \notin DOMAIN completed
      BY <2>1 DEF IInv, Ids
    <3>2. OncePerUnit(completed) /\ UnitsOf(leased) \cap UnitsOf(completed) = {}
      BY DEF IInv, OnePlace
    <3>3. rec.unit \in UnitsOf(leased)
      BY <2>1 DEF UnitsOf
    <3>4. QED BY <3>1, <3>2, <3>3
  <2> HIDE DEF rec
  <2>3. UnitsOf(Put(completed, l, rec)) = UnitsOf(completed) \cup {rec.unit}
    BY <2>2, PutAdds, Zenon
  <2>4. /\ leased[l].unit \in Held /\ Held' = Held \ {leased[l].unit}
        /\ leased[l].unit \in 1..MaxLeaseId
    BY <1>4, <2>1
  <2>5. Done' = Done \cup {leased[l].unit} /\ Queued' = Queued /\ Parked' = Parked
    BY <2>1, <2>3 DEF Queued, Done, Parked
  <2>6. Moves(leased[l].unit)
    BY <2>4, <2>5 DEF Moves
  <2>7. QED BY <2>4, <2>6
<1>6. ASSUME NEW l, NEW r, ReleaseLease(l, r) PROVE Goal
  <2> DEFINE rec == [unit |-> leased[l].unit, version |-> leased[l].version, reason |-> r]
  <2>1. /\ l \in DOMAIN leased /\ leased' = Drop(leased, l) /\ parked' = Put(parked, nextId, rec)
        /\ rec.unit = leased[l].unit /\ UNCHANGED <<pending, completed>>
    BY <1>6 DEF ReleaseLease
  <2>2. nextId \notin DOMAIN parked /\ rec.unit \notin UnitsOf(parked) /\ OncePerUnit(parked)
    <3>1. nextId \notin DOMAIN parked
      <4>1. nextId \in Int
        BY DEF IInv, TypeOK, LeaseId
      <4>2. QED BY <4>1 DEF IInv, Ids
    <3>2. OncePerUnit(parked) /\ UnitsOf(leased) \cap UnitsOf(parked) = {}
      BY DEF IInv, OnePlace
    <3>3. rec.unit \in UnitsOf(leased)
      BY <2>1 DEF UnitsOf
    <3>4. QED BY <3>1, <3>2, <3>3
  <2> HIDE DEF rec
  <2>3. UnitsOf(Put(parked, nextId, rec)) = UnitsOf(parked) \cup {rec.unit}
    BY <2>2, PutAdds, Zenon
  <2>4. /\ leased[l].unit \in Held /\ Held' = Held \ {leased[l].unit}
        /\ leased[l].unit \in 1..MaxLeaseId
    BY <1>4, <2>1
  <2>5. Parked' = Parked \cup {leased[l].unit} /\ Queued' = Queued /\ Done' = Done
    BY <2>1, <2>3 DEF Queued, Done, Parked
  <2>6. Moves(leased[l].unit)
    BY <2>4, <2>5 DEF Moves
  <2>7. QED BY <2>4, <2>6
<1>7. ASSUME NEW l \in reaper.todo, ReapOne(l) PROVE Goal
  <2> DEFINE item == Requeued(l)
  <2>1. /\ l \in DOMAIN leased /\ leased' = Drop(leased, l) /\ pending' = <<item>> \o pending
        /\ item.unit = leased[l].unit /\ UNCHANGED <<completed, parked>>
    BY <1>7, LeasesTyped DEF ReapOne, Requeued
  <2>2. item \in PendingItem
    <3>1. leased[l] \in LeasedRecord /\ nextId \in LeaseId
      BY <2>1 DEF IInv, TypeOK
    <3>2. QED BY <3>1 DEF Requeued, PendingItem, LeasedRecord, Tag
  <2>3. item.unit \notin UnitsOf(pending)
    BY <1>1, <1>4, <2>1 DEF Queued, Held
  <2> HIDE DEF item
  <2>4. UnitsOf(<<item>> \o pending) = UnitsOf(pending) \cup {item.unit}
    BY <1>1, <2>2, <2>3, ConsUnits
  <2>5. /\ leased[l].unit \in Held /\ Held' = Held \ {leased[l].unit}
        /\ leased[l].unit \in 1..MaxLeaseId
    BY <1>4, <2>1
  <2>6. Queued' = Queued \cup {leased[l].unit} /\ Done' = Done /\ Parked' = Parked
    BY <2>1, <2>4 DEF Queued, Done, Parked
  <2>7. Moves(leased[l].unit)
    BY <2>5, <2>6 DEF Moves
  <2>8. QED BY <2>5, <2>7
<1>8. ASSUME UNCHANGED <<pending, completed, parked>>, DOMAIN leased' = DOMAIN leased,
             \A l \in DOMAIN leased : leased'[l].unit = leased[l].unit
      PROVE  Goal
  BY <1>8 DEF Queued, Held, Done, Parked, UnitsOf
<1>9. ASSUME NEW l, NEW w, RecordHeartbeat(l, w) PROVE Goal
  BY <1>8, <1>9, LeasesTyped DEF RecordHeartbeat, HeartbeatOutcome, LeasedRecord
<1>10. CASE Tick
  BY <1>8, <1>10, LeasesTyped DEF Tick, LeasedRecord
<1>11. CASE ReaperStep
  BY <1>7, <1>8, <1>11 DEF ReaperStep, ReaperReadsClock, ReaperLocks, Spare, ReaperUnlocks
<1>12. CASE UNCHANGED dvars
  BY <1>8, <1>12 DEF dvars
<1>13. QED
  BY <1>2, <1>3, <1>5, <1>6, <1>9, <1>10, <1>11, <1>12
     DEF DispatcherNext, Request, StaleComplete, StaleRelease

LEMMA QueueStep ==
  ASSUME OnePlace, OnePlace', UNCHANGED <<Queued, Held, Done, Parked>> \/ \E u \in 1..MaxLeaseId : Moves(u)
  PROVE  [Queue!Next]_([u \in 1..MaxLeaseId |-> PhaseOf(u)])
<1> DEFINE ph == [u \in 1..MaxLeaseId |-> PhaseOf(u)]
<1>1. ASSUME UNCHANGED <<Queued, Held, Done, Parked>> PROVE ph' = ph
  BY <1>1 DEF PhaseOf, Queued, Held, Done, Parked
<1>2. ASSUME NEW u \in 1..MaxLeaseId, Moves(u)
      PROVE  \/ ph[u] = "absent" /\ ph' = [ph EXCEPT ![u] = "queued"]
             \/ ph[u] = "queued" /\ ph' = [ph EXCEPT ![u] = "held"]
             \/ ph[u] = "held" /\ ph' = [ph EXCEPT ![u] = "queued"]
             \/ ph[u] = "held" /\ ph' = [ph EXCEPT ![u] = "done"]
             \/ ph[u] = "held" /\ ph' = [ph EXCEPT ![u] = "parked"]
  <2>1. \A x \in 1..MaxLeaseId : x # u => PhaseOf(x)' = PhaseOf(x)
    BY <1>2 DEF Moves, PhaseOf, Queued, Held, Done, Parked
  <2>2. /\ Queued \cap Held = {} /\ Queued \cap Done = {} /\ Queued \cap Parked = {} /\ Held \cap Done = {} /\ Held \cap Parked = {}
        /\ (Queued \cap Held)' = {} /\ (Queued \cap Done)' = {} /\ (Queued \cap Parked)' = {} /\ (Held \cap Done)' = {}
        /\ (Held \cap Parked)' = {} /\ Done \cap Parked = {} /\ (Done \cap Parked)' = {}
    BY DEF OnePlace, Queued, Held, Done, Parked
  <2>3. \/ PhaseOf(u) = "absent" /\ PhaseOf(u)' = "queued"
        \/ PhaseOf(u) = "queued" /\ PhaseOf(u)' = "held"
        \/ PhaseOf(u) = "held" /\ PhaseOf(u)' = "queued"
        \/ PhaseOf(u) = "held" /\ PhaseOf(u)' = "done"
        \/ PhaseOf(u) = "held" /\ PhaseOf(u)' = "parked"
    BY <1>2, <2>2 DEF Moves, PhaseOf, Queued, Held, Done, Parked
  <2>4. QED BY <2>1, <2>3
<1>3. QED
  BY <1>1, <1>2
     DEF Queue!Next, Queue!Submit, Queue!Grant, Queue!GiveBack, Queue!Finish, Queue!Park,
         Queue!Move

\* The dispatcher is a work queue: a unit is submitted once, granted and given back any number
\* of times, and what is finished or parked stays so.
THEOREM Implements == DispatcherSpec => ImplementsQueue
<1>1. DispatcherInit => Handles /\ Queue!Init
  BY DEF DispatcherInit, Handles, Queue!Init, PhaseOf, UnitsOf, Empty
<1>2. IInv /\ Handles /\ [DispatcherNext]_dvars => Handles'
  BY StepHandles
<1>3. IInv /\ IInv' /\ Handles /\ [DispatcherNext]_dvars
        => [Queue!Next]_([u \in 1..MaxLeaseId |-> PhaseOf(u)])
  BY StepMoves, QueueStep DEF IInv
<1>4. QED
  BY <1>1, <1>2, <1>3, Invariance, PTL DEF DispatcherSpec, ImplementsQueue, Queue!Spec

--------------------------------------------------------------------------------
(* The worker pool.                                                          *)

WorkersOK == wk \in [Workers -> Worker]

\* The lease ids a process holds anywhere: its handler, its heartbeat child, the pipe.
Known(w) == {wk[w].lease.id, wk[w].tracked, wk[w].hb, wk[w].post} \cup wk[w].gone

Granted(w, l) ==
  /\ l \in Nat /\ l < nextId /\ l \notin PendingIds
  /\ l \in DOMAIN leased => leased[l].worker = w

TracksOwn(w) ==
  wk[w].lease.id # 0 /\ wk[w].pc # "leased" =>
    wk[w].tracked = wk[w].lease.id \/ Retired(wk[w].lease.id)

HandOK(w) ==
  /\ \A l \in Known(w) : l = 0 \/ Granted(w, l)
  /\ wk[w].lease.id \in DOMAIN leased => leased[wk[w].lease.id].unit = wk[w].lease.unit
  /\ \A l \in wk[w].gone : Retired(l)
  /\ TracksOwn(w)

HandInv == \A w \in Workers : HandOK(w)

PInv == IInv /\ WorkersOK /\ HandInv

--------------------------------------------------------------------------------
(* Every step of the pool is a step of the dispatcher.                       *)

LEMMA Delivery ==
  ASSUME PInv, NEW w \in Workers, Delivered(w) PROVE [DispatcherNext]_dvars
<1>1. wk[w].plan \in Plan /\ \A l \in DOMAIN leased : l \in Minted
  BY DEF PInv, WorkersOK, Worker, IInv, Ids, TypeOK, Minted, LeaseId
<1>2. /\ wk[w].plan.status \in Statuses /\ wk[w].plan.category \in Categories
      /\ wk[w].plan.reason \in Reasons
  BY <1>1 DEF Plan
<1> DEFINE l == wk[w].lease.id
<1>3. ASSUME MarkComplete(l, wk[w].plan.status, wk[w].plan.category)
      PROVE  [DispatcherNext]_dvars
  BY <1>1, <1>2, <1>3 DEF MarkComplete, DispatcherNext, Request
<1>4. ASSUME ReleaseLease(l, wk[w].plan.reason) PROVE [DispatcherNext]_dvars
  BY <1>1, <1>2, <1>4 DEF ReleaseLease, DispatcherNext, Request
<1>5. QED BY <1>3, <1>4 DEF Delivered, StaleComplete, StaleRelease

LEMMA Heartbeat ==
  ASSUME IInv, NEW w \in Workers, NEW l, RecordHeartbeat(l, w) PROVE [DispatcherNext]_dvars
<1>1. CASE l \in DOMAIN leased
  <2>1. l \in Minted
    BY <1>1 DEF IInv, Ids, TypeOK, Minted, LeaseId
  <2>2. QED BY <2>1 DEF DispatcherNext, Request
<1>2. CASE l \notin DOMAIN leased
  BY <1>2 DEF RecordHeartbeat, HeartbeatOutcome, dvars
<1>3. QED BY <1>1, <1>2

LEMMA WorkerStepIsRequest ==
  ASSUME PInv, NEW w \in Workers, WorkerStep(w) PROVE [DispatcherNext]_dvars
<1>1. CASE Poll(w) \/ PollResponseLost(w)
  BY <1>1 DEF Poll, PollResponseLost, DispatcherNext, Request
<1>2. CASE Report(w) \/ ReportAckLost(w)
  BY <1>2, Delivery DEF Report, ReportAckLost
<1>3. CASE BeatLands(w)
  BY <1>3, Heartbeat DEF BeatLands, PInv
<1>4. CASE UNCHANGED dvars
  BY <1>4
<1>5. QED
  BY <1>1, <1>2, <1>3, <1>4
     DEF WorkerStep, LeaveLoop, Start, Load, VersionNotFound, RecyclePending, BundleUnreachable,
         BrokenBundle, NoRegistration, Execute, Hang, ExecutorUnavailable, Planned,
         ReportUndelivered, ReleaseUnsupported, Mark, BeatSends, BeatLost, ReadGone, Sigterm,
         Watchdog, Crash, Restart

LEMMA PoolStepIsDispatchers ==
  ASSUME PInv, [PoolNext]_vars PROVE [DispatcherNext]_dvars
<1>1. ASSUME NEW v \in Tag, Submit(v) PROVE [DispatcherNext]_dvars
  BY <1>1 DEF Submit, DispatcherNext, Request
<1>2. CASE ClockTick \/ Reaper
  BY <1>2 DEF ClockTick, Reaper, DispatcherNext
<1>3. CASE UNCHANGED vars
  BY <1>3 DEF vars
<1>4. CASE \E u \in orphans : OrphanEnds(u)
  BY <1>4 DEF OrphanEnds
<1>5. QED BY <1>1, <1>2, <1>3, <1>4, WorkerStepIsRequest DEF PoolNext

--------------------------------------------------------------------------------
(* The processes keep their shape.                                           *)

LEMMA PlansTyped ==
  /\ Nothing \in Plan
  /\ \A plan \in Outcomes : plan \in Plan
  /\ \A c \in {"none", "agent", "bundle", "paused", "version_not_found", "recycle_pending",
               "executor_unavailable", "no_agent_module"}, m \in {"none", "failed"} :
       Fails(c, m) \in Plan
BY PoolAssumption DEF Plan, Nothing, Outcomes, Completes, Fails, Releases, Statuses, Reasons

LEMMA FreshTyped ==
  /\ \A m \in Modes : Fresh(m) \in Worker
  /\ \A w \in Workers : WorkersOK => Gone(w) \in Worker
BY PlansTyped DEF Fresh, Gone, Worker, Lease, WorkersOK

LEMMA WorkersTyped ==
  ASSUME IInv, WorkersOK, NEW w \in Workers, WorkerStep(w) PROVE WorkersOK'
<1> USE DEF WorkersOK
<1>1. wk[w] \in Worker
  OBVIOUS
<1>2. ASSUME NEW r \in Worker, wk' = [wk EXCEPT ![w] = r] PROVE WorkersOK'
  BY <1>2
<1>3. CASE Poll(w)
  <2>1. Head(pending) \in PendingItem
    BY <1>3 DEF Poll, TakeLease, IInv, TypeOK
  <2>2. [id |-> Head(pending).id, unit |-> Head(pending).unit,
         version |-> Head(pending).version] \in Lease
    BY <2>1 DEF PendingItem, Lease
  <2>3. QED BY <1>1, <1>3, <2>2 DEF Poll, Worker
<1>4. CASE LeaveLoop(w) \/ Watchdog(w) \/ Crash(w) \/ Restart(w)
  <2>1. wk[w].mode \in Modes
    BY <1>1 DEF Worker
  <2>2. QED BY <1>4, <2>1, FreshTyped DEF LeaveLoop, Watchdog, Crash, Restart
<1>5. CASE Start(w)
  <2>1. wk[w].lease.id \in Nat
    BY <1>1 DEF Worker, Lease, LeaseId, NoLease
  <2>2. [wk[w] EXCEPT !.pc = "load", !.tracked = wk[w].lease.id, !.hb = wk[w].lease.id] \in Worker
    BY <1>1, <2>1 DEF Worker
  <2>3. wk' = [wk EXCEPT ![w] = [wk[w] EXCEPT !.pc = "load", !.tracked = wk[w].lease.id,
                                              !.hb = wk[w].lease.id]]
    BY <1>5 DEF Start
  <2>4. QED BY <1>2, <2>2, <2>3
<1>6. ASSUME NEW plan \in Plan, Planned(w, plan) PROVE WorkersOK'
  BY <1>1, <1>6 DEF Planned, Worker
<1>7. CASE Load(w)
  <2>1. wk[w].lease.version \in Versions \/ ~Fetches(w)
    BY <1>1 DEF Fetches, Worker, Lease, NoLease, Tag
  <2>2. QED BY <1>1, <1>7, <2>1 DEF Load, Worker
<1>8. CASE RecyclePending(w) \/ BundleUnreachable(w) \/ Hang(w)
  BY <1>1, <1>8, PlansTyped DEF RecyclePending, BundleUnreachable, Hang, Worker
<1>9. CASE VersionNotFound(w) \/ BrokenBundle(w) \/ NoRegistration(w) \/ Execute(w)
           \/ ReleaseUnsupported(w)
  BY <1>6, <1>9, PlansTyped
     DEF VersionNotFound, BrokenBundle, NoRegistration, Execute, ReleaseUnsupported
<1>10. CASE ExecutorUnavailable(w)
  BY <1>1, <1>6, <1>10, PlansTyped DEF ExecutorUnavailable, Worker
<1>11. CASE Report(w)
  BY <1>1, <1>11 DEF Report, Worker
<1>12. CASE ReportAckLost(w) \/ ReportUndelivered(w)
  BY <1>1, <1>12 DEF ReportAckLost, ReportUndelivered, Retried, Worker
<1>13. CASE Mark(w)
  <2> DEFINE n == IF MaxItems = 0 THEN 0 ELSE wk[w].items + 1
             on == wk[w].running /\ (MaxItems > 0 => wk[w].items + 1 < MaxItems)
  <2>1. n \in Nat /\ on \in BOOLEAN
    BY <1>1 DEF Worker
  <2>2. NoLease \in Lease /\ Nothing \in Plan
    BY PlansTyped DEF Lease
  <2>3. Cleaned(w) = [wk[w] EXCEPT !.pc = "poll", !.lease = NoLease, !.tracked = 0, !.hb = 0,
                                   !.plan = Nothing, !.items = n, !.running = on]
    BY <1>1 DEF Cleaned, Worker
  <2> HIDE DEF n, on
  <2>4. Cleaned(w) \in Worker
    <3>1. [wk[w] EXCEPT !.pc = "poll", !.tracked = 0, !.hb = 0, !.items = n, !.running = on]
            \in Worker
      BY <1>1, <2>1 DEF Worker
    <3>2. \A r \in Worker : [r EXCEPT !.lease = NoLease, !.plan = Nothing] \in Worker
      BY <2>2 DEF Worker
    <3>3. Cleaned(w) = [[wk[w] EXCEPT !.pc = "poll", !.tracked = 0, !.hb = 0, !.items = n,
                                      !.running = on]
                          EXCEPT !.lease = NoLease, !.plan = Nothing]
      BY <1>1, <2>3 DEF Worker
    <3>4. QED BY <3>1, <3>2, <3>3
  <2>5. QED BY <1>2, <1>13, <2>4 DEF Mark
<1>14. CASE BeatSends(w) \/ BeatLost(w) \/ Sigterm(w)
  <2>1. /\ [wk[w] EXCEPT !.post = wk[w].hb] \in Worker
        /\ [wk[w] EXCEPT !.post = 0] \in Worker
        /\ [wk[w] EXCEPT !.draining = TRUE, !.running = FALSE] \in Worker
    BY <1>1 DEF Worker
  <2>2. \/ wk' = [wk EXCEPT ![w] = [wk[w] EXCEPT !.post = wk[w].hb]]
        \/ wk' = [wk EXCEPT ![w] = [wk[w] EXCEPT !.post = 0]]
        \/ wk' = [wk EXCEPT ![w] = [wk[w] EXCEPT !.draining = TRUE, !.running = FALSE]]
    BY <1>14 DEF BeatSends, BeatLost, Sigterm
  <2>3. QED BY <1>2, <2>1, <2>2
<1>15. CASE BeatLands(w)
  <2>1. \A t \in Nat, g \in SUBSET Nat :
          [wk[w] EXCEPT !.post = 0, !.told = t, !.gone = g] \in Worker
    BY <1>1 DEF Worker
  <2>2. /\ wk[w].post \in Nat /\ wk[w].told \in Nat /\ wk[w].gone \in SUBSET Nat
        /\ wk[w].gone \cup {wk[w].post} \in SUBSET Nat
    BY <1>1 DEF Worker
  <2>3. \E t \in Nat, g \in SUBSET Nat :
          wk' = [wk EXCEPT ![w] = [wk[w] EXCEPT !.post = 0, !.told = t, !.gone = g]]
    BY <1>15, <2>2 DEF BeatLands
  <2>4. QED BY <1>2, <2>1, <2>3
<1>16. CASE ReadGone(w)
  <2>1. PICK l \in wk[w].gone :
          wk' = [wk EXCEPT ![w] = [wk[w] EXCEPT !.gone = wk[w].gone \ {l},
                                   !.tracked = IF wk[w].tracked = l THEN 0 ELSE wk[w].tracked]]
    BY <1>16 DEF ReadGone
  <2>2. [wk[w] EXCEPT !.gone = wk[w].gone \ {l},
                      !.tracked = IF wk[w].tracked = l THEN 0 ELSE wk[w].tracked] \in Worker
    <3>1. \A g \in SUBSET Nat, t \in Nat : [wk[w] EXCEPT !.gone = g, !.tracked = t] \in Worker
      BY <1>1 DEF Worker
    <3>2. wk[w].gone \ {l} \in SUBSET Nat /\ wk[w].tracked \in Nat
      BY <1>1 DEF Worker
    <3>3. QED BY <3>1, <3>2
  <2>3. QED BY <1>2, <2>1, <2>2
<1>17. CASE PollResponseLost(w)
  BY <1>17 DEF PollResponseLost
<1>18. QED
  BY <1>3, <1>4, <1>5, <1>7, <1>8, <1>9, <1>10, <1>11, <1>12, <1>13, <1>14, <1>15, <1>16, <1>17
     DEF WorkerStep

--------------------------------------------------------------------------------
(* The ids a process holds stay its own.                                     *)

LEMMA IdsKeep ==
  ASSUME IInv, IdsMoveOn, NEW w, NEW l
  PROVE  /\ Granted(w, l) => Granted(w, l)'
         /\ l \in Nat /\ Retired(l) => Retired(l)'
<1>1. nextId \in Nat
  BY DEF IInv, TypeOK, LeaseId
<1>2. ASSUME l \in Nat, l < nextId, l \notin PendingIds
      PROVE  /\ l < nextId' /\ l \notin PendingIds'
             /\ l \in DOMAIN leased' => l \in DOMAIN leased
  BY <1>1, <1>2 DEF IdsMoveOn
<1>3. ASSUME Granted(w, l) PROVE Granted(w, l)'
  <2>1. l \in Nat /\ l < nextId /\ l \notin PendingIds
    BY <1>3 DEF Granted
  <2>2. l \in DOMAIN leased' => leased'[l].worker = w
    BY <1>2, <1>3, <2>1 DEF Granted, IdsMoveOn
  <2>3. QED BY <1>2, <2>1, <2>2 DEF Granted
<1>4. ASSUME l \in Nat, Retired(l) PROVE Retired(l)'
  BY <1>2, <1>4 DEF Retired
<1>5. QED BY <1>3, <1>4

\* A step of the process that learns no id, and loses track of its lease only when that ended.
LEMMA HandKeeps ==
  ASSUME IInv, IInv', IdsMoveOn, WorkersOK, NEW w \in Workers, HandOK(w),
         wk'[w].lease \in {wk[w].lease, NoLease}, Known(w)' \subseteq Known(w) \cup {0},
         \A l \in wk'[w].gone : l \in wk[w].gone \/ Retired(l)', TracksOwn(w)'
  PROVE  HandOK(w)'
<1>1. \A l \in Known(w)' : l = 0 \/ Granted(w, l)'
  BY IdsKeep DEF HandOK
<1>2. \A l \in wk'[w].gone : Retired(l)'
  <2>1. wk[w].gone \subseteq Nat
    BY DEF WorkersOK, Worker
  <2>2. QED BY <2>1, IdsKeep DEF HandOK
<1>3. wk'[w].lease.id \in DOMAIN leased' => leased'[wk'[w].lease.id].unit = wk'[w].lease.unit
  <2> SUFFICES ASSUME wk'[w].lease.id \in DOMAIN leased'
               PROVE  leased'[wk'[w].lease.id].unit = wk'[w].lease.unit
    OBVIOUS
  <2> DEFINE l == wk[w].lease.id
  <2>1. 0 \notin DOMAIN leased'
    BY DEF IInv, TypeOK, LeaseId
  <2>2. wk'[w].lease = wk[w].lease /\ l # 0
    BY <2>1 DEF NoLease
  <2>3. Granted(w, l)
    BY <2>2 DEF HandOK, Known
  <2>4. l \in DOMAIN leased
    BY <2>2, <2>3 DEF Granted, IdsMoveOn
  <2>5. QED BY <2>2, <2>4 DEF HandOK, IdsMoveOn
<1>4. QED BY <1>1, <1>2, <1>3 DEF HandOK

LEMMA TracksKeep ==
  ASSUME IInv, IdsMoveOn, WorkersOK, NEW w \in Workers, TracksOwn(w),
         wk'[w].lease = wk[w].lease, wk'[w].tracked = wk[w].tracked,
         wk[w].pc = "leased" => wk'[w].pc = "leased"
  PROVE  TracksOwn(w)'
<1>1. wk[w].lease.id \in Nat
  BY DEF WorkersOK, Worker, Lease, LeaseId, NoLease
<1>2. Retired(wk[w].lease.id) => Retired(wk[w].lease.id)'
  BY <1>1, IdsKeep
<1>3. QED BY <1>2 DEF TracksOwn, Retired, PendingIds

\* A process none of whose fields changes.
LEMMA OthersKeep ==
  ASSUME IInv, IInv', IdsMoveOn, WorkersOK, NEW w \in Workers, HandOK(w), wk'[w] = wk[w]
  PROVE  HandOK(w)'
<1>1. TracksOwn(w)'
  BY TracksKeep DEF HandOK
<1>2. Known(w)' = Known(w)
  BY DEF Known
<1>3. QED BY <1>1, <1>2, HandKeeps

\* The dispatcher grants an id that was queued, so nobody held it.
LEMMA PollKeeps ==
  ASSUME PInv, IInv', IdsMoveOn, NEW w \in Workers, Poll(w) PROVE HandOK(w)'
<1> DEFINE item == Head(pending)
<1>1. /\ pending \in Seq(PendingItem) /\ pending # <<>> /\ pending' = Tail(pending)
      /\ nextId' = nextId
      /\ leased' = Put(leased, item.id, [unit |-> item.unit, version |-> item.version,
                                         worker |-> w, age |-> 0, nth |-> nthGrant + 1])
  BY DEF PInv, IInv, TypeOK, Poll, TakeLease
<1>2. /\ 1 \in DOMAIN pending /\ item = pending[1] /\ item \in PendingItem
      /\ \A i \in DOMAIN pending' : i + 1 \in DOMAIN pending /\ pending'[i] = pending[i + 1]
                                   /\ i + 1 # 1
  BY <1>1
<1>id. PICK id : id = item.id
  OBVIOUS
<1>3. id \in PendingIds /\ id \notin PendingIds' /\ id \in Nat /\ id < nextId
  BY <1>2, <1>id DEF PInv, IInv, Ids, PendingIds, PendingItem, LeaseId
<1>4. Granted(w, id)'
  BY <1>1, <1>3, <1>id DEF Granted, Put
<1>5. wk' = [wk EXCEPT ![w].pc = "leased",
                       ![w].lease = [id |-> item.id, unit |-> item.unit,
                                     version |-> item.version]]
  BY DEF Poll
<1>6. /\ wk'[w].pc = "leased" /\ wk'[w].tracked = wk[w].tracked /\ wk'[w].hb = wk[w].hb
      /\ wk'[w].post = wk[w].post /\ wk'[w].gone = wk[w].gone
      /\ wk'[w].lease.id = id /\ wk'[w].lease.unit = item.unit
  BY <1>5, <1>id DEF PInv, WorkersOK, Worker
<1>7. HandOK(w)
  BY DEF PInv, HandInv
<1>8. \A l \in Known(w)' : l = 0 \/ Granted(w, l)'
  BY <1>4, <1>6, <1>7, IdsKeep DEF Known, HandOK, PInv
<1>9. leased'[id].unit = item.unit
  BY <1>1, <1>id DEF Put
<1>10. \A l \in wk'[w].gone : Retired(l)'
  <2>1. wk[w].gone \subseteq Nat
    BY DEF PInv, WorkersOK, Worker
  <2>2. QED BY <1>6, <1>7, <2>1, IdsKeep DEF HandOK, PInv
<1>11. QED BY <1>6, <1>8, <1>9, <1>10 DEF HandOK, TracksOwn

\* The processes that stop, start again or clean up hold no lease any more.
LEMMA LettingGoKeeps ==
  ASSUME PInv, IInv', IdsMoveOn, NEW w \in Workers, NEW r \in Worker,
         wk' = [wk EXCEPT ![w] = r], r.lease = NoLease, r.tracked = 0, r.hb = 0,
         r.post \in {0, wk[w].post}, r.gone \subseteq wk[w].gone
  PROVE  HandOK(w)'
<1>1. wk'[w] = r
  BY DEF PInv, WorkersOK
<1>2. Known(w)' \subseteq Known(w) \cup {0} /\ TracksOwn(w)'
  BY <1>1 DEF Known, TracksOwn, NoLease
<1>3. QED BY <1>1, <1>2, HandKeeps DEF PInv, HandInv

\* The steps of the handler between the lease and the report, and those beside it.
LEMMA HandlingKeeps ==
  ASSUME PInv, IInv', IdsMoveOn, NEW w \in Workers, wk[w].pc # "leased",
         wk'[w].lease = wk[w].lease, wk'[w].tracked = wk[w].tracked, wk'[w].hb = wk[w].hb,
         wk'[w].post \in {0, wk[w].hb, wk[w].post}, wk'[w].gone = wk[w].gone
  PROVE  HandOK(w)'
<1>1. HandOK(w) /\ WorkersOK /\ IInv
  BY DEF PInv, HandInv
<1>2. TracksOwn(w)'
  BY <1>1, TracksKeep DEF HandOK
<1>3. Known(w)' \subseteq Known(w) \cup {0}
  BY DEF Known
<1>4. QED BY <1>1, <1>2, <1>3, HandKeeps

LEMMA SignalsKeep ==
  ASSUME PInv, IInv', IdsMoveOn, NEW w \in Workers,
         BeatSends(w) \/ BeatLost(w) \/ Sigterm(w)
  PROVE  HandOK(w)'
<1>1. HandOK(w) /\ WorkersOK /\ IInv /\ wk[w] \in Worker
  BY DEF PInv, HandInv, WorkersOK
<1>2. /\ wk'[w].lease = wk[w].lease /\ wk'[w].tracked = wk[w].tracked /\ wk'[w].pc = wk[w].pc
      /\ wk'[w].hb = wk[w].hb /\ wk'[w].post \in {0, wk[w].hb, wk[w].post}
      /\ wk'[w].gone = wk[w].gone
  BY <1>1 DEF WorkersOK, Worker, BeatSends, BeatLost, Sigterm
<1>3. TracksOwn(w)'
  BY <1>1, <1>2, TracksKeep DEF HandOK
<1>4. Known(w)' \subseteq Known(w) \cup {0}
  BY <1>2 DEF Known
<1>5. QED BY <1>1, <1>2, <1>3, <1>4, HandKeeps

LEMMA StartKeeps ==
  ASSUME PInv, IInv', IdsMoveOn, NEW w \in Workers, Start(w) PROVE HandOK(w)'
<1>1. HandOK(w) /\ WorkersOK /\ IInv /\ wk[w] \in Worker
  BY DEF PInv, HandInv, WorkersOK
<1>2. /\ wk'[w].lease = wk[w].lease /\ wk'[w].tracked = wk[w].lease.id
      /\ wk'[w].hb = wk[w].lease.id /\ wk'[w].post = wk[w].post /\ wk'[w].gone = wk[w].gone
  BY <1>1 DEF WorkersOK, Worker, Start
<1>3. Known(w)' \subseteq Known(w) /\ TracksOwn(w)'
  BY <1>2 DEF Known, TracksOwn
<1>4. QED BY <1>1, <1>2, <1>3, HandKeeps

\* The child is told "unknown" or "wrong_worker" only of a lease that has ended.
LEMMA BeatLandsKeeps ==
  ASSUME PInv, IInv', IdsMoveOn, NEW w \in Workers, BeatLands(w) PROVE HandOK(w)'
<1>1. HandOK(w) /\ WorkersOK /\ IInv /\ wk[w] \in Worker
  BY DEF PInv, HandInv, WorkersOK
<1> PICK l : l = wk[w].post
  OBVIOUS
<1>2. Granted(w, l)
  BY <1>1 DEF BeatLands, HandOK, Known
<1>3. HeartbeatOutcome(l, w) # "ok" => Retired(l)'
  <2>1. HeartbeatOutcome(l, w) # "ok" => Retired(l)
    BY <1>2 DEF HeartbeatOutcome, Granted, Retired
  <2>2. QED BY <1>1, <1>2, <2>1, IdsKeep DEF Granted
<1>4. /\ wk'[w].lease = wk[w].lease /\ wk'[w].tracked = wk[w].tracked /\ wk'[w].pc = wk[w].pc
      /\ wk'[w].hb = wk[w].hb /\ wk'[w].post = 0
      /\ \/ wk'[w].gone = wk[w].gone
         \/ HeartbeatOutcome(l, w) # "ok" /\ wk'[w].gone = wk[w].gone \cup {l}
  BY <1>1 DEF WorkersOK, Worker, BeatLands
<1>5. TracksOwn(w)'
  BY <1>1, <1>4, TracksKeep DEF HandOK
<1>6. Known(w)' \subseteq Known(w) \cup {0}
  BY <1>4 DEF Known
<1>7. QED BY <1>1, <1>3, <1>4, <1>5, <1>6, HandKeeps

\* A "gone" line clears the tracking only of the lease it names, which has ended.
LEMMA ReadGoneKeeps ==
  ASSUME PInv, IInv', IdsMoveOn, NEW w \in Workers, ReadGone(w) PROVE HandOK(w)'
<1>1. HandOK(w) /\ WorkersOK /\ IInv /\ wk[w] \in Worker
  BY DEF PInv, HandInv, WorkersOK
<1>2. PICK l \in wk[w].gone :
        wk' = [wk EXCEPT ![w].gone = wk[w].gone \ {l},
                         ![w].tracked = IF wk[w].tracked = l THEN 0 ELSE wk[w].tracked]
  BY DEF ReadGone
<1>3. /\ wk'[w].lease = wk[w].lease /\ wk'[w].pc = wk[w].pc /\ wk'[w].hb = wk[w].hb
      /\ wk'[w].post = wk[w].post /\ wk'[w].gone = wk[w].gone \ {l}
      /\ wk'[w].tracked = IF wk[w].tracked = l THEN 0 ELSE wk[w].tracked
  BY <1>1, <1>2 DEF WorkersOK, Worker
<1>4. Retired(l) /\ l \in Nat
  BY <1>1, <1>2 DEF HandOK, Worker
<1>5. TracksOwn(w)'
  <2>1. CASE wk[w].tracked # l
    BY <1>1, <1>3, <2>1, TracksKeep DEF HandOK
  <2>2. CASE wk[w].tracked = l
    <3> PICK m : m = wk[w].lease.id
      OBVIOUS
    <3>1. m \in Nat
      BY <1>1 DEF Worker, Lease, LeaseId, NoLease
    <3>2. m # 0 /\ wk[w].pc # "leased" => Retired(m)
      BY <1>1, <1>4, <2>2 DEF HandOK, TracksOwn
    <3>3. m # 0 /\ wk[w].pc # "leased" => Retired(m)'
      BY <1>1, <3>1, <3>2, IdsKeep
    <3>4. QED BY <1>3, <3>3 DEF TracksOwn, Retired, PendingIds
  <2>3. QED BY <2>1, <2>2
<1>6. Known(w)' \subseteq Known(w) \cup {0}
  BY <1>3 DEF Known
<1>7. QED BY <1>1, <1>3, <1>5, <1>6, HandKeeps

LEMMA WorkerStepKeeps ==
  ASSUME PInv, IInv', IdsMoveOn, NEW w \in Workers, WorkerStep(w) PROVE HandOK(w)'
<1>1. WorkersOK /\ wk[w] \in Worker /\ HandOK(w) /\ IInv
  BY DEF PInv, WorkersOK, HandInv
<1>2. CASE LeaveLoop(w) \/ Watchdog(w) \/ Crash(w)
  <2>1. Gone(w) \in Worker /\ wk' = [wk EXCEPT ![w] = Gone(w)]
    BY <1>1, <1>2, FreshTyped DEF LeaveLoop, Watchdog, Crash
  <2>2. QED BY <2>1, LettingGoKeeps DEF Gone, Fresh
<1>3. CASE Restart(w)
  <2>1. wk[w].mode \in Modes
    BY <1>1 DEF Worker
  <2>2. QED BY <1>3, <2>1, FreshTyped, LettingGoKeeps DEF Restart, Fresh
<1>4. CASE Mark(w)
  <2>1. wk' = [wk EXCEPT ![w] = Cleaned(w)] /\ WorkersOK'
    BY <1>1, <1>4, WorkersTyped DEF Mark, WorkerStep
  <2>2. Cleaned(w) \in Worker
    BY <1>1, <2>1 DEF WorkersOK
  <2>3. /\ Cleaned(w).lease = NoLease /\ Cleaned(w).tracked = 0 /\ Cleaned(w).hb = 0
        /\ Cleaned(w).post = wk[w].post /\ Cleaned(w).gone = wk[w].gone
    BY <1>1 DEF Cleaned, Worker
  <2>4. QED BY <2>1, <2>2, <2>3, LettingGoKeeps
<1>5. ASSUME NEW r, wk[w].pc # "leased", wk' = [wk EXCEPT ![w] = r],
             r.lease = wk[w].lease, r.tracked = wk[w].tracked, r.hb = wk[w].hb,
             r.post = wk[w].post, r.gone = wk[w].gone
      PROVE  HandOK(w)'
  BY <1>1, <1>5, HandlingKeeps DEF WorkersOK
<1>6. ASSUME NEW plan, Planned(w, plan), wk[w].pc # "leased" PROVE HandOK(w)'
  <2> DEFINE r == [wk[w] EXCEPT !.pc = "report", !.plan = plan, !.tries = 0]
  <2>1. /\ wk' = [wk EXCEPT ![w] = r]
        /\ r.lease = wk[w].lease /\ r.tracked = wk[w].tracked /\ r.hb = wk[w].hb
        /\ r.post = wk[w].post /\ r.gone = wk[w].gone
    BY <1>1, <1>6 DEF Planned, Worker
  <2>2. QED BY <1>5, <1>6, <2>1
<1>7. CASE VersionNotFound(w) \/ BrokenBundle(w) \/ NoRegistration(w) \/ Execute(w)
           \/ ReleaseUnsupported(w)
  BY <1>6, <1>7
     DEF VersionNotFound, BrokenBundle, NoRegistration, Execute, ReleaseUnsupported, At
<1>8. CASE Load(w) \/ RecyclePending(w) \/ BundleUnreachable(w) \/ Hang(w)
           \/ Report(w) \/ ReportAckLost(w) \/ ReportUndelivered(w)
  <2>1. /\ wk[w].pc # "leased" /\ wk'[w].lease = wk[w].lease /\ wk'[w].tracked = wk[w].tracked
        /\ wk'[w].hb = wk[w].hb /\ wk'[w].post = wk[w].post /\ wk'[w].gone = wk[w].gone
    BY <1>1, <1>8
       DEF Load, RecyclePending, BundleUnreachable, Hang, Report, ReportAckLost,
           ReportUndelivered, Retried, At, WorkersOK, Worker
  <2>2. QED BY <2>1, HandlingKeeps
<1>9. CASE ExecutorUnavailable(w)
  <2>1. CASE wk[w].mode = "refuse"
    BY <1>6, <1>9, <2>1 DEF ExecutorUnavailable, At
  <2>2. CASE wk[w].mode # "refuse"
    <3>1. /\ wk[w].pc # "leased" /\ wk'[w].lease = wk[w].lease
          /\ wk'[w].tracked = wk[w].tracked /\ wk'[w].hb = wk[w].hb
          /\ wk'[w].post = wk[w].post /\ wk'[w].gone = wk[w].gone
      BY <1>1, <1>9, <2>2 DEF ExecutorUnavailable, At, WorkersOK, Worker
    <3>2. QED BY <3>1, HandlingKeeps
  <2>3. QED BY <2>1, <2>2
<1>10. CASE PollResponseLost(w)
  BY <1>1, <1>10, OthersKeep DEF PollResponseLost
<1>11. QED
  BY <1>2, <1>3, <1>4, <1>7, <1>8, <1>9, <1>10, PollKeeps, StartKeeps, SignalsKeep,
     BeatLandsKeeps, ReadGoneKeeps
     DEF WorkerStep

\* The step of one process leaves the others as they are.
LEMMA WorkerStepIsLocal ==
  ASSUME WorkersOK, NEW w \in Workers, WorkerStep(w), NEW v \in Workers, v # w
  PROVE  wk'[v] = wk[v]
<1>1. ASSUME NEW r, wk' = [wk EXCEPT ![w] = r] PROVE wk'[v] = wk[v]
  BY <1>1 DEF WorkersOK
<1>2. ASSUME NEW plan, Planned(w, plan) PROVE wk'[v] = wk[v]
  BY <1>2 DEF Planned, WorkersOK
<1>3. CASE Poll(w) \/ PollResponseLost(w) \/ LeaveLoop(w) \/ Start(w) \/ Load(w)
           \/ RecyclePending(w) \/ BundleUnreachable(w) \/ Hang(w)
  BY <1>3 DEF Poll, PollResponseLost, LeaveLoop, Start, Load, RecyclePending,
              BundleUnreachable, Hang, WorkersOK
<1>4. CASE VersionNotFound(w) \/ BrokenBundle(w) \/ NoRegistration(w) \/ Execute(w)
           \/ ReleaseUnsupported(w)
  BY <1>2, <1>4 DEF VersionNotFound, BrokenBundle, NoRegistration, Execute, ReleaseUnsupported
<1>5. CASE ExecutorUnavailable(w)
  BY <1>2, <1>5 DEF ExecutorUnavailable, WorkersOK
<1>6. CASE Report(w) \/ ReportAckLost(w) \/ ReportUndelivered(w) \/ Mark(w)
  BY <1>6 DEF Report, ReportAckLost, ReportUndelivered, Retried, Mark, WorkersOK
<1>7. CASE BeatSends(w) \/ BeatLands(w) \/ BeatLost(w) \/ ReadGone(w) \/ Sigterm(w)
           \/ Watchdog(w) \/ Crash(w) \/ Restart(w)
  BY <1>7 DEF BeatSends, BeatLands, BeatLost, ReadGone, Sigterm, Watchdog, Crash, Restart,
              WorkersOK
<1>8. QED BY <1>3, <1>4, <1>5, <1>6, <1>7 DEF WorkerStep

LEMMA InitPInv == PoolInit => PInv
<1> SUFFICES ASSUME PoolInit PROVE PInv
  OBVIOUS
<1>1. IInv
  BY InitIInv DEF PoolInit
<1>2. WorkersOK
  BY FreshTyped DEF PoolInit, WorkersOK
<1>3. HandInv
  <2> SUFFICES ASSUME NEW w \in Workers PROVE HandOK(w)
    BY DEF HandInv
  <2>1. PICK m \in Modes : wk[w] = Fresh(m)
    BY DEF PoolInit
  <2>2. Known(w) = {0} /\ TracksOwn(w) /\ wk[w].gone = {} /\ wk[w].lease.id = 0
    BY <2>1 DEF Known, TracksOwn, Fresh, NoLease
  <2>3. 0 \notin DOMAIN leased
    BY <1>1 DEF IInv, TypeOK, LeaseId
  <2>4. QED BY <2>2, <2>3 DEF HandOK
<1>4. QED BY <1>1, <1>2, <1>3 DEF PInv

LEMMA NextPInv == ASSUME PInv, [PoolNext]_vars PROVE PInv'
<1>1. [DispatcherNext]_dvars /\ IInv /\ WorkersOK
  BY PoolStepIsDispatchers DEF PInv
<1>2. IInv' /\ IdsMoveOn
  BY <1>1, NextIInv, StepMovesIds
<1>3. ASSUME wk' = wk PROVE WorkersOK' /\ HandInv'
  BY <1>1, <1>2, <1>3, OthersKeep DEF PInv, HandInv, WorkersOK
<1>4. ASSUME NEW w \in Workers, WorkerStep(w) PROVE WorkersOK' /\ HandInv'
  <2>1. WorkersOK'
    BY <1>1, <1>4, WorkersTyped
  <2>2. ASSUME NEW v \in Workers PROVE HandOK(v)'
    BY <1>1, <1>2, <1>4, WorkerStepKeeps, WorkerStepIsLocal, OthersKeep DEF PInv, HandInv
  <2>3. QED BY <2>1, <2>2 DEF HandInv
<1>5. QED
  BY <1>2, <1>3, <1>4 DEF PInv, PoolNext, Submit, OrphanEnds, ClockTick, Reaper, vars, pvars

--------------------------------------------------------------------------------
(* The theorems.                                                             *)

\* In every state of the pool the dispatcher's invariant holds, and every id that a process or
\* a message has is an id the dispatcher has granted.
THEOREM PoolInvariance == PoolSpec => []PInv
<1>1. PoolInit => PInv
  BY InitPInv
<1>2. PInv /\ [PoolNext]_vars => PInv'
  BY NextPInv
<1>3. QED BY <1>1, <1>2, PTL DEF PoolSpec

LEMMA RowsKeep ==
  ASSUME PInv, PoolTypeOK, [PoolNext]_vars
  PROVE  /\ DOMAIN runRow' = DOMAIN submitted'
         /\ \A u \in DOMAIN runRow' : runRow'[u] \in Statuses \cup {"queued", "running"}
         /\ faults' \in 0..MaxFaults /\ starved' \in BOOLEAN
         /\ orphans' \subseteq Nat
<1> USE DEF PoolTypeOK
<1> DEFINE Same == /\ starved' = starved
                   /\ faults' = faults \/ (faults < MaxFaults /\ faults' = faults + 1)
<1>a. ASSUME NEW w \in Workers, WorkerStep(w) PROVE Same
  <2>1. CASE Poll(w) \/ PollResponseLost(w) \/ LeaveLoop(w) \/ Start(w) \/ Load(w)
    BY <2>1 DEF Poll, PollResponseLost, LeaveLoop, Start, Load, NoFault, Fault
  <2>2. CASE VersionNotFound(w) \/ RecyclePending(w) \/ BundleUnreachable(w) \/ BrokenBundle(w)
    BY <2>2 DEF VersionNotFound, RecyclePending, BundleUnreachable, BrokenBundle, Planned,
                NoFault, Fault
  <2>3. CASE NoRegistration(w) \/ Execute(w) \/ Hang(w) \/ ExecutorUnavailable(w)
    BY <2>3 DEF NoRegistration, Execute, Hang, ExecutorUnavailable, Planned, NoFault, Fault
  <2>4. CASE Report(w) \/ ReportAckLost(w) \/ ReportUndelivered(w) \/ ReleaseUnsupported(w)
    BY <2>4 DEF Report, ReportAckLost, ReportUndelivered, ReleaseUnsupported, Planned,
                NoFault, Fault
  <2>5. CASE Mark(w) \/ BeatSends(w) \/ BeatLands(w) \/ BeatLost(w) \/ ReadGone(w)
    BY <2>5 DEF Mark, BeatSends, BeatLands, BeatLost, ReadGone, NoFault, Fault
  <2>6. CASE Sigterm(w) \/ Watchdog(w) \/ Crash(w) \/ Restart(w)
    BY <2>6 DEF Sigterm, Watchdog, Crash, Restart, NoFault, Fault
  <2>7. QED BY <1>a, <2>1, <2>2, <2>3, <2>4, <2>5, <2>6 DEF WorkerStep
<1>b. ASSUME ClockTick PROVE faults' \in 0..MaxFaults /\ starved' \in BOOLEAN
  <2>1. \/ faults' = faults /\ starved' = starved
        \/ faults < MaxFaults /\ faults' = faults + 1 /\ starved' = TRUE
    BY <1>b DEF ClockTick, NoFault, Fault
  <2>2. faults \in 0..MaxFaults /\ starved \in BOOLEAN /\ MaxFaults \in Nat
    BY PoolAssumption
  <2>3. faults' \in 0..MaxFaults
    BY <2>1, <2>2
  <2>4. starved' \in BOOLEAN
    BY <2>1, <2>2, Zenon
  <2>5. QED BY <2>3, <2>4
<1>1. faults' \in 0..MaxFaults /\ starved' \in BOOLEAN
  <2> HIDE DEF Same
  <2>1. Same \/ ClockTick
    BY <1>a DEF PoolNext, Submit, OrphanEnds, NoFault, Reaper, vars, pvars, Same
  <2>2. QED BY <1>b, <2>1, PoolAssumption DEF Same
<1> DEFINE Rows == /\ DOMAIN runRow' = DOMAIN submitted'
                   /\ \A u \in DOMAIN runRow' :
                        runRow'[u] \in Statuses \cup {"queued", "running"}
<1>3. ASSUME UNCHANGED <<runRow, submitted>> PROVE Rows
  BY <1>3
<1>4. ASSUME NEW v \in Tag, Submit(v) PROVE Rows
  BY <1>4 DEF Submit, Enqueue, Put
<1>5. ASSUME NEW w \in Workers, Start(w) PROVE Rows
  BY <1>5 DEF Start, dvars
<1>6. ASSUME NEW w \in Workers, Mark(w) PROVE Rows
  <2>1. wk[w].plan.mark \in Statuses \cup {"none"}
    BY DEF Worker, Plan
  <2>2. QED BY <1>6, <2>1 DEF Mark, Marked, dvars
<1>7. ASSUME ClockTick \/ Reaper PROVE Rows
  BY <1>3, <1>7
     DEF ClockTick, Tick, Reaper, pvars, ReaperStep, ReaperReadsClock, ReaperLocks, ReapOne,
         Spare, ReaperUnlocks
<1>8. ASSUME NEW w \in Workers, WorkerStep(w), ~Start(w), ~Mark(w) PROVE Rows
  <2>1. UNCHANGED runRow
    BY <1>8
       DEF WorkerStep, Poll, PollResponseLost, LeaveLoop, Load, VersionNotFound, Planned,
           RecyclePending, BundleUnreachable, BrokenBundle, NoRegistration, Execute, Hang,
           ExecutorUnavailable, Report, ReportAckLost, ReportUndelivered, ReleaseUnsupported,
           BeatSends, BeatLands, BeatLost, ReadGone, Sigterm, Watchdog, Crash, Restart
  <2>2. UNCHANGED submitted
    BY <1>8
       DEF WorkerStep, Poll, PollResponseLost, LeaveLoop, Load, VersionNotFound, Planned,
           RecyclePending, BundleUnreachable, BrokenBundle, NoRegistration, Execute, Hang,
           ExecutorUnavailable, Report, ReportAckLost, ReportUndelivered, ReleaseUnsupported,
           BeatSends, BeatLands, BeatLost, ReadGone, Sigterm, Watchdog, Crash, Restart,
           TakeLease, Delivered, MarkComplete, StaleComplete, ReleaseLease, StaleRelease,
           RecordHeartbeat, dvars
  <2>3. QED BY <1>3, <2>1, <2>2
<1>9. Rows
  BY <1>3, <1>4, <1>5, <1>6, <1>7, <1>8 DEF PoolNext, OrphanEnds, vars, pvars, dvars
<1>10. orphans' \subseteq Nat
  <2>1. ASSUME NEW w \in Workers, Watchdog(w) \/ Crash(w) PROVE orphans' \subseteq Nat
    <3>1. InHand(w) \in Nat
      BY DEF InHand, Worker, Lease, LeaseId, NoLease
    <3>2. QED BY <2>1, <3>1 DEF Watchdog, Crash, Orphaned, Survivors
  <2>2. ASSUME NEW w \in Workers, WorkerStep(w), ~Watchdog(w), ~Crash(w) PROVE UNCHANGED orphans
    BY <2>2
       DEF WorkerStep, Poll, PollResponseLost, LeaveLoop, Start, Load, VersionNotFound, Planned,
           RecyclePending, BundleUnreachable, BrokenBundle, NoRegistration, Execute, Hang,
           ExecutorUnavailable, Report, ReportAckLost, ReportUndelivered, ReleaseUnsupported,
           Mark, BeatSends, BeatLands, BeatLost, ReadGone, Sigterm, Restart
  <2>3. ASSUME NEW u \in orphans, OrphanEnds(u) PROVE orphans' \subseteq Nat
    BY <2>3 DEF OrphanEnds
  <2>4. CASE UNCHANGED orphans
    BY <2>4
  <2>5. QED
    BY <2>1, <2>2, <2>3, <2>4 DEF PoolNext, Submit, ClockTick, Reaper, vars, pvars
<1>11. QED BY <1>1, <1>9, <1>10

\* The processes, the run rows and the dispatcher's tables keep the shape the code gives them.
THEOREM PoolTypeCorrect == PoolSpec => []PoolTypeOK
<1>1. PoolInit => PoolTypeOK
  <2> SUFFICES ASSUME PoolInit PROVE PoolTypeOK
    OBVIOUS
  <2>1. TypeOK /\ WorkersOK
    BY InitPInv DEF PInv, IInv
  <2>2. DOMAIN runRow = DOMAIN submitted /\ DOMAIN runRow = {}
    BY DEF PoolInit, DispatcherInit, Empty
  <2>3. faults = 0 /\ starved = FALSE /\ 0 \in 0..MaxFaults /\ orphans = {}
    BY PoolAssumption DEF PoolInit
  <2>4. QED BY <2>1, <2>2, <2>3 DEF PoolTypeOK, WorkersOK
<1>2. PInv /\ PInv' /\ PoolTypeOK /\ [PoolNext]_vars => PoolTypeOK'
  <2> SUFFICES ASSUME PInv, PInv', PoolTypeOK, [PoolNext]_vars PROVE PoolTypeOK'
    OBVIOUS
  <2>1. TypeOK' /\ WorkersOK'
    BY DEF PInv, IInv
  <2>2. QED BY <2>1, RowsKeep DEF PoolTypeOK, WorkersOK
<1>3. QED BY <1>1, <1>2, PoolInvariance, PTL DEF PoolSpec

\* Whatever the workers do, crash, lose, send twice or forget, to the dispatcher they are some
\* callers: every theorem about DispatcherSpec holds of the pool.
THEOREM PoolIsDispatcher == PoolSpec => DispatcherSpec
<1>1. PoolInit => DispatcherInit
  BY DEF PoolInit
<1>2. PInv /\ [PoolNext]_vars => [DispatcherNext]_dvars
  BY PoolStepIsDispatchers
<1>3. QED BY <1>1, <1>2, PoolInvariance, PTL DEF PoolSpec, DispatcherSpec

\* The work queue survives the pool: no item is lost, none is in two places, and what a unit
\* goes through is what WorkQueue allows.
COROLLARY PoolServesQueue == PoolSpec => []NothingLost /\ []OnePlace /\ ImplementsQueue
BY PoolIsDispatcher, AlwaysNothingLost, AlwaysOnePlace, Implements, PTL

\* A lease id in a worker's hand that is live was granted to that worker, for the item it has.
THEOREM LiveLeasesAreMine == PoolSpec => []LiveLeaseIsMine
<1>1. PInv => LiveLeaseIsMine
  <2> SUFFICES ASSUME PInv, NEW w \in Workers, wk[w].lease.id \in DOMAIN leased
               PROVE  /\ leased[wk[w].lease.id].worker = w
                      /\ leased[wk[w].lease.id].unit = InHand(w)
    BY DEF LiveLeaseIsMine
  <2>1. HandOK(w) /\ wk[w].lease.id # 0
    BY DEF PInv, HandInv, IInv, TypeOK, LeaseId
  <2>2. QED BY <2>1 DEF HandOK, Known, Granted, InHand
<1>2. QED BY <1>1, PoolInvariance, PTL

\* The tracking of a lease is dropped half-way only when the dispatcher has ended that lease.
THEOREM TrackingEndsWithLease == PoolSpec => []GoneOnlyForLost
<1>1. PInv => GoneOnlyForLost
  <2> SUFFICES ASSUME PInv, NEW w \in Workers, InHand(w) # 0, ~At(w, "leased"),
                      wk[w].tracked = 0
               PROVE  Retired(wk[w].lease.id)
    BY DEF GoneOnlyForLost
  <2>1. wk[w].lease \in Lease /\ TracksOwn(w)
    BY DEF PInv, WorkersOK, Worker, HandInv, HandOK
  <2>2. wk[w].lease.id # 0
    BY <2>1 DEF Lease, LeaseId, InHand, NoLease
  <2>3. QED BY <2>1, <2>2 DEF TracksOwn, At
<1>2. QED BY <1>1, PoolInvariance, PTL
--------------------------------------------------------------------------------
(* What becomes of a lease and of its run.  The three properties about double *)
(* execution and the run's row rest on one fact: as long as the beats get     *)
(* through, a lease in a worker's hand is live and young, or it ended by that *)
(* worker's own report.                                                       *)

Holds(w) == wk[w].pc \notin {"poll", "down"}

Shape(w) ==
  /\ Holds(w) <=> wk[w].lease # NoLease
  /\ Holds(w) /\ wk[w].pc # "leased" => wk[w].hb = wk[w].lease.id
  /\ wk[w].plan.mark # "none" => wk[w].plan.verb = "complete"
  /\ wk[w].tries <= faults

Young(l) == l \in DOMAIN leased /\ leased[l].age <= 1

\* The report arrived; whether its answer did is open.
Settling(w) ==
  /\ wk[w].pc \in {"report", "mark"}
  /\ wk[w].lease.id \notin DOMAIN leased
  /\ \/ InHand(w) \in UnitsOf(completed)
     \/ InHand(w) \in UnitsOf(parked) /\ wk[w].plan.mark = "none"

Fed(w) == Holds(w) => Young(wk[w].lease.id) \/ Settling(w)

\* Fewer faults than attempts: no worker gives a report up.
Reported(w) ==
  MaxFaults < Attempts /\ wk[w].pc = "mark" /\ wk[w].plan.mark # "none"
    => InHand(w) \in UnitsOf(completed)

Beating ==
  ~starved => (\A w \in Workers : Fed(w) /\ Reported(w)) /\ NoDoubleExecution

\* What a handler in this mode will write into the row of the run whose end it reports.
Tells(plan, mode) ==
  plan.verb = "complete" =>
    /\ plan.category \in LeftRunning => plan.mark = "none" /\ plan.status = "failed"
    /\ plan.status = "completed" \/ plan.category \notin LeftRunning \cup {"none"}
         => plan.mark = plan.status
    /\ plan.status = "failed" /\ plan.category = "none"
         => plan.mark = IF mode = "off" THEN "none" ELSE "failed"

TellsRow(w) == Tells(wk[w].plan, wk[w].mode)

\* What the dispatcher recorded of a lease whose report was answered.
Recorded(w) ==
  \/ /\ wk[w].lease.id \in DOMAIN completed /\ wk[w].plan.verb = "complete"
     /\ completed[wk[w].lease.id] = [unit |-> InHand(w), status |-> wk[w].plan.status,
                                     category |-> wk[w].plan.category]
  \/ InHand(w) \in UnitsOf(parked) /\ wk[w].plan.mark = "none"

CalmHand(w) ==
  /\ ~wk[w].draining
  /\ wk[w].pc \in {"report", "mark"} => TellsRow(w)
  /\ Holds(w) =>
       /\ wk[w].lease.id \in DOMAIN leased <=> wk[w].pc # "mark"
       /\ runRow[InHand(w)] = IF wk[w].pc = "leased" THEN "queued" ELSE "running"
  /\ wk[w].pc = "mark" => Recorded(w)

\* Nothing was lost so far.
Calm ==
  faults = 0 =>
    /\ ~starved
    /\ \A w \in Workers : CalmHand(w)
    /\ NoDanglingLease
    /\ \A u \in UnitsOf(pending) : runRow[u] = "queued"
    /\ RunMatchesOutcome

Hands == \A w \in Workers : Shape(w)

RunsInv == Hands /\ Beating /\ RunEndsAfterItsLease /\ Calm

--------------------------------------------------------------------------------
(* The steps of a process, by what they do to its lease.                     *)

Faulty == faults' = faults + 1

\* What a step that goes on with the lease leaves as it was.
Carries(w) == /\ wk'[w].lease = wk[w].lease /\ wk'[w].mode = wk[w].mode

Quiets(w) == Carries(w) /\ wk'[w].plan = wk[w].plan /\ wk'[w].draining = wk[w].draining

\* The process stops, starts again or leaves the loop.
Quits(w) ==
  /\ wk'[w].pc \in {"poll", "down"} /\ wk'[w].lease = NoLease /\ wk'[w].mode = wk[w].mode
  /\ wk'[w].plan = Nothing /\ wk'[w].tries = 0 /\ ~wk'[w].draining
  /\ UNCHANGED <<dvars, runRow>>
  /\ ~Holds(w) \/ wk[w].draining \/ Faulty

\* The handler ends.
Finishes(w) ==
  /\ wk[w].pc = "mark" /\ wk'[w].pc = "poll" /\ wk'[w].lease = NoLease
  /\ wk'[w].mode = wk[w].mode /\ wk'[w].plan = Nothing /\ wk'[w].tries = wk[w].tries
  /\ wk'[w].draining = wk[w].draining
  /\ UNCHANGED dvars
  /\ \/ wk[w].plan.mark = "none" /\ runRow' = runRow
     \/ wk[w].plan.mark # "none" /\ runRow' = Marked(w)
     \/ Faulty /\ runRow' = runRow

Receives(w) ==
  /\ wk[w].pc = "poll" /\ wk'[w].pc = "leased" /\ wk'[w].mode = wk[w].mode
  /\ wk'[w].lease = [id |-> Head(pending).id, unit |-> Head(pending).unit,
                     version |-> Head(pending).version]
  /\ wk'[w].plan = wk[w].plan /\ wk'[w].draining = wk[w].draining /\ wk'[w].tries = wk[w].tries
  /\ TakeLease(w) /\ UNCHANGED runRow

Misses(w) == wk' = wk /\ TakeLease(w) /\ Faulty /\ UNCHANGED runRow

Publishes(w) ==
  /\ wk[w].pc = "leased" /\ wk'[w].pc = "load" /\ Quiets(w) /\ wk'[w].hb = wk[w].lease.id
  /\ wk'[w].tries = wk[w].tries
  /\ UNCHANGED dvars
  /\ \/ runRow' = IF runRow[wk[w].lease.unit] = "queued"
                 THEN [runRow EXCEPT ![wk[w].lease.unit] = "running"] ELSE runRow
     \/ Faulty /\ runRow' = runRow

Works(w) ==
  /\ wk[w].pc \in {"load", "exec"} /\ wk'[w].pc \in {"exec", "hung"} /\ Quiets(w)
  /\ wk'[w].hb = wk[w].hb /\ wk'[w].tries = wk[w].tries
  /\ UNCHANGED <<dvars, runRow>>

Decides(w) ==
  /\ wk[w].pc \in {"load", "exec", "report"} /\ wk'[w].pc = "report" /\ Carries(w)
  /\ wk'[w].draining = wk[w].draining /\ wk'[w].hb = wk[w].hb /\ wk'[w].tries = 0
  /\ wk'[w].plan.mark # "none" => wk'[w].plan.verb = "complete" /\ wk[w].pc # "report"
  /\ TellsRow(w)' \/ Faulty
  /\ UNCHANGED <<dvars, runRow>>

Abandons(w) ==
  /\ wk[w].pc \in {"load", "exec"} /\ wk'[w].pc = "mark" /\ Carries(w)
  /\ wk'[w].hb = wk[w].hb /\ wk'[w].tries = wk[w].tries /\ wk'[w].plan = Nothing
  /\ Faulty /\ UNCHANGED <<dvars, runRow>>

Answered(w) ==
  /\ wk[w].pc = "report" /\ wk'[w].pc = "mark" /\ Quiets(w)
  /\ wk'[w].hb = wk[w].hb /\ wk'[w].tries = 0
  /\ Delivered(w) /\ UNCHANGED runRow

Unanswered(w) ==
  /\ wk[w].pc = "report" /\ Quiets(w) /\ wk'[w].hb = wk[w].hb
  /\ \/ wk[w].tries + 1 = Attempts /\ wk'[w].pc = "mark" /\ wk'[w].tries = 0
     \/ wk'[w].pc = "report" /\ wk'[w].tries = wk[w].tries + 1
  /\ Delivered(w) \/ UNCHANGED dvars
  /\ Faulty /\ UNCHANGED runRow

Beats(w) ==
  /\ wk'[w].pc = wk[w].pc /\ Carries(w) /\ wk'[w].plan = wk[w].plan
  /\ wk'[w].hb = wk[w].hb /\ wk'[w].tries = wk[w].tries
  /\ wk'[w].draining = wk[w].draining \/ Faulty
  /\ RecordHeartbeat(wk[w].post, w) \/ UNCHANGED dvars
  /\ UNCHANGED runRow

Kinds(w) ==
  \/ Quits(w) \/ Finishes(w) \/ Receives(w) \/ Misses(w) \/ Publishes(w) \/ Works(w)
  \/ Decides(w) \/ Abandons(w) \/ Answered(w) \/ Unanswered(w) \/ Beats(w)

LEMMA QuittersQuit ==
  ASSUME WorkersOK, NEW w \in Workers, LeaveLoop(w) \/ Watchdog(w) \/ Crash(w) \/ Restart(w)
  PROVE  Quits(w)
<1>1. wk[w] \in Worker /\ wk[w].mode \in Modes
  BY DEF WorkersOK, Worker
<1>2. wk'[w] = Gone(w) \/ wk'[w] = Fresh(wk[w].mode)
  BY DEF LeaveLoop, Watchdog, Crash, Restart, WorkersOK
<1>3. /\ wk'[w].pc \in {"poll", "down"} /\ wk'[w].lease = NoLease /\ wk'[w].mode = wk[w].mode
      /\ wk'[w].plan = Nothing /\ wk'[w].tries = 0 /\ ~wk'[w].draining
  <2>1. CASE wk'[w] = Gone(w)
    BY <2>1 DEF Gone, Fresh
  <2>2. CASE wk'[w] = Fresh(wk[w].mode)
    BY <2>2 DEF Fresh
  <2>3. QED BY <1>2, <2>1, <2>2
<1>4. UNCHANGED <<dvars, runRow>> /\ (~Holds(w) \/ wk[w].draining \/ Faulty)
  BY DEF LeaveLoop, Watchdog, Crash, Restart, At, Holds, Fault, Faulty
<1>5. QED BY <1>3, <1>4 DEF Quits

LEMMA MarkFinishes ==
  ASSUME WorkersOK, NEW w \in Workers, Mark(w) PROVE Finishes(w)
<1>1. wk[w] \in Worker /\ wk'[w] = Cleaned(w)
  BY DEF WorkersOK, Mark
<1>2. /\ Cleaned(w).pc = "poll" /\ Cleaned(w).lease = NoLease /\ Cleaned(w).mode = wk[w].mode
      /\ Cleaned(w).plan = Nothing /\ Cleaned(w).tries = wk[w].tries
      /\ Cleaned(w).draining = wk[w].draining
  BY <1>1 DEF Cleaned, Worker
<1>3. QED BY <1>1, <1>2 DEF Mark, Finishes, Fault, Faulty, At

LEMMA PollReceives ==
  ASSUME WorkersOK, NEW w \in Workers, Poll(w) PROVE Receives(w)
<1>1. wk[w] \in Worker
  BY DEF WorkersOK
<1>2. /\ wk'[w].pc = "leased" /\ wk'[w].mode = wk[w].mode
      /\ wk'[w].lease = [id |-> Head(pending).id, unit |-> Head(pending).unit,
                         version |-> Head(pending).version]
      /\ wk'[w].plan = wk[w].plan /\ wk'[w].draining = wk[w].draining
      /\ wk'[w].tries = wk[w].tries
  BY <1>1 DEF Poll, WorkersOK, Worker
<1>3. QED BY <1>2 DEF Poll, Receives, At

LEMMA StartPublishes ==
  ASSUME WorkersOK, PoolTypeOK, NEW w \in Workers, Start(w) PROVE Publishes(w)
<1>1. wk[w] \in Worker
  BY DEF WorkersOK
<1>2. /\ wk'[w].pc = "load" /\ Quiets(w) /\ wk'[w].hb = wk[w].lease.id
      /\ wk'[w].tries = wk[w].tries
  BY <1>1 DEF Start, WorkersOK, Worker, Quiets, Carries
<1>3. QED BY <1>2 DEF Start, Publishes, At, Fault, Faulty

LEMMA WorksWorks ==
  ASSUME WorkersOK, NEW w \in Workers, Load(w) \/ Hang(w) PROVE Works(w)
<1>1. wk[w] \in Worker
  BY DEF WorkersOK
<1>2. /\ wk'[w].pc \in {"exec", "hung"} /\ Quiets(w) /\ wk'[w].hb = wk[w].hb
      /\ wk'[w].tries = wk[w].tries
  BY <1>1 DEF Load, Hang, WorkersOK, Worker, Quiets, Carries
<1>3. QED BY <1>2 DEF Load, Hang, Works, At

LEMMA PlannedDecides ==
  ASSUME WorkersOK, NEW w \in Workers, NEW plan \in Plan, Planned(w, plan),
         wk[w].pc \in {"load", "exec", "report"},
         plan.mark # "none" => plan.verb = "complete" /\ wk[w].pc # "report",
         Faulty \/ Tells(plan, wk[w].mode)
  PROVE  Decides(w)
<1>1. wk[w] \in Worker
  BY DEF WorkersOK
<1>2. /\ wk'[w].pc = "report" /\ Carries(w) /\ wk'[w].draining = wk[w].draining
      /\ wk'[w].hb = wk[w].hb /\ wk'[w].tries = 0 /\ wk'[w].plan = plan
  BY <1>1 DEF Planned, WorkersOK, Worker, Carries
<1>3. TellsRow(w)' \/ Faulty
  BY <1>2 DEF TellsRow, Tells, Carries
<1>4. QED BY <1>2, <1>3 DEF Decides, Planned

LEMMA DecidersDecide ==
  ASSUME WorkersOK, NEW w \in Workers,
         VersionNotFound(w) \/ RecyclePending(w) \/ BrokenBundle(w) \/ NoRegistration(w)
           \/ Execute(w) \/ ReleaseUnsupported(w) \/ ExecutorUnavailable(w)
  PROVE  Decides(w) \/ Abandons(w)
<1>1. wk[w] \in Worker
  BY DEF WorkersOK
<1>2. ASSUME NEW c \in {"version_not_found", "recycle_pending", "no_agent_module", "paused"},
             Planned(w, Fails(c, "none")), wk[w].pc \in {"load", "exec", "report"}
      PROVE  Decides(w)
  <2>1. /\ Fails(c, "none") \in Plan /\ Fails(c, "none").mark = "none"
        /\ Fails(c, "none").status = "failed" /\ Fails(c, "none").category = c
    BY PlansTyped DEF Fails, Nothing
  <2>2. Tells(Fails(c, "none"), wk[w].mode)
    BY <2>1 DEF Tells, LeftRunning
  <2>3. QED BY <1>2, <2>1, <2>2, PlannedDecides
<1>3. ASSUME NEW c \in {"none", "agent", "bundle"}, Planned(w, Fails(c, "failed")),
             c = "none" => wk[w].mode # "off", wk[w].pc \in {"load", "exec"}
      PROVE  Decides(w)
  <2>1. /\ Fails(c, "failed") \in Plan /\ Fails(c, "failed").mark = "failed"
        /\ Fails(c, "failed").status = "failed" /\ Fails(c, "failed").verb = "complete"
    BY PlansTyped DEF Fails, Nothing
  <2>2. Fails(c, "failed").category = c
    BY DEF Fails, Nothing
  <2>3. Tells(Fails(c, "failed"), wk[w].mode)
    BY <1>3, <2>1, <2>2 DEF Tells, LeftRunning
  <2>4. QED BY <1>3, <2>1, <2>3, PlannedDecides
<1>4. CASE VersionNotFound(w) \/ ReleaseUnsupported(w)
  BY <1>2, <1>4 DEF VersionNotFound, ReleaseUnsupported, At
<1>5. CASE RecyclePending(w)
  <2>2. /\ wk'[w].pc = "report" /\ Carries(w) /\ wk'[w].draining = wk[w].draining
        /\ wk'[w].hb = wk[w].hb /\ wk'[w].tries = 0
        /\ wk'[w].plan = Fails("recycle_pending", "none")
    BY <1>1, <1>5 DEF RecyclePending, WorkersOK, Worker, Carries
  <2>3. TellsRow(w)' /\ wk'[w].plan.mark = "none"
    BY <2>2 DEF TellsRow, Tells, LeftRunning, Fails, Nothing
  <2>4. QED BY <1>5, <2>2, <2>3 DEF Decides, RecyclePending, At
<1>6. CASE BrokenBundle(w)
  BY <1>3, <1>6 DEF BrokenBundle, At
<1>7. CASE NoRegistration(w)
  <2>1. CASE UsesExecutor(w)
    BY <1>3, <1>7, <2>1 DEF NoRegistration, At, UsesExecutor
  <2>2. CASE ~UsesExecutor(w) /\ wk[w].lease.version = NoVersion
    BY <1>2, <1>7, <2>2 DEF NoRegistration, At
  <2>3. CASE ~UsesExecutor(w) /\ wk[w].lease.version # NoVersion
    <3>1. wk[w].mode = "off" /\ Planned(w, Fails("none", "none")) /\ wk[w].pc = "exec"
      BY <1>7, <2>3 DEF NoRegistration, At, UsesExecutor
    <3>2. /\ Fails("none", "none") \in Plan /\ Fails("none", "none").mark = "none"
          /\ Fails("none", "none").status = "failed" /\ Fails("none", "none").category = "none"
      BY PlansTyped DEF Fails, Nothing
    <3>3. Tells(Fails("none", "none"), wk[w].mode)
      BY <3>1, <3>2 DEF Tells, LeftRunning
    <3>4. QED BY <3>1, <3>2, <3>3, PlannedDecides
  <2>4. QED BY <2>1, <2>2, <2>3
<1>8. CASE Execute(w)
  <2>1. PICK plan \in Outcomes : Planned(w, plan)
    BY <1>8 DEF Execute
  <2>2. plan \in Plan /\ wk[w].pc = "exec"
    BY <1>8, <2>1, PlansTyped DEF Execute, At
  <2>3. CASE plan = Completes
    BY <2>1, <2>2, <2>3, PlannedDecides DEF Completes, Nothing, Tells, LeftRunning
  <2>4. CASE plan = Fails("agent", "failed")
    BY <1>3, <2>1, <2>2, <2>4
  <2>5. ASSUME NEW r \in Reasons, plan = Releases(r) PROVE Decides(w)
    BY <2>1, <2>2, <2>5, PlannedDecides DEF Releases, Nothing, Tells
  <2>6. QED BY <2>1, <2>3, <2>4, <2>5 DEF Outcomes
<1>9. CASE ExecutorUnavailable(w)
  <2>1. CASE wk[w].mode = "refuse"
    <3>1. /\ Planned(w, Fails("executor_unavailable", "failed")) /\ Faulty /\ wk[w].pc = "exec"
      BY <1>9, <2>1 DEF ExecutorUnavailable, Fault, Faulty, At
    <3>2. /\ Fails("executor_unavailable", "failed") \in Plan
          /\ Fails("executor_unavailable", "failed").verb = "complete"
      BY PlansTyped DEF Fails, Nothing
    <3>3. QED BY <3>1, <3>2, PlannedDecides
  <2>2. CASE wk[w].mode # "refuse"
    <3>1. /\ wk[w].pc = "exec" /\ wk'[w].pc = "mark" /\ Carries(w) /\ wk'[w].hb = wk[w].hb
          /\ wk'[w].tries = wk[w].tries /\ wk'[w].plan = Nothing
      BY <1>1, <1>9, <2>2 DEF ExecutorUnavailable, WorkersOK, Worker, Carries, At
    <3>2. QED BY <1>9, <2>2, <3>1 DEF ExecutorUnavailable, Abandons, Fault, Faulty
  <2>3. QED BY <2>1, <2>2
<1>10. QED BY <1>4, <1>5, <1>6, <1>7, <1>8, <1>9

LEMMA UnreachableAbandons ==
  ASSUME WorkersOK, NEW w \in Workers, BundleUnreachable(w) PROVE Abandons(w)
<1>1. wk[w] \in Worker
  BY DEF WorkersOK
<1>2. /\ wk[w].pc = "load" /\ wk'[w].pc = "mark" /\ Carries(w) /\ wk'[w].hb = wk[w].hb
      /\ wk'[w].tries = wk[w].tries /\ wk'[w].plan = Nothing
  BY <1>1 DEF BundleUnreachable, WorkersOK, Worker, Carries, At
<1>3. QED BY <1>2 DEF BundleUnreachable, Abandons, Fault, Faulty

LEMMA ReportsReport ==
  ASSUME WorkersOK, NEW w \in Workers, Report(w) \/ ReportAckLost(w) \/ ReportUndelivered(w)
  PROVE  Answered(w) \/ Unanswered(w)
<1>1. wk[w] \in Worker /\ wk[w].pc = "report"
  BY DEF WorkersOK, Report, ReportAckLost, ReportUndelivered, At
<1>2. CASE Report(w)
  <2>1. wk'[w].pc = "mark" /\ Quiets(w) /\ wk'[w].hb = wk[w].hb /\ wk'[w].tries = 0
    BY <1>1, <1>2 DEF Report, WorkersOK, Worker, Quiets, Carries
  <2>2. QED BY <1>1, <1>2, <2>1 DEF Report, Answered
<1>3. CASE ReportAckLost(w) \/ ReportUndelivered(w)
  <2>1. /\ Quiets(w) /\ wk'[w].hb = wk[w].hb
        /\ \/ wk[w].tries + 1 = Attempts /\ wk'[w].pc = "mark" /\ wk'[w].tries = 0
           \/ wk'[w].pc = "report" /\ wk'[w].tries = wk[w].tries + 1
    BY <1>1, <1>3 DEF ReportAckLost, ReportUndelivered, Retried, WorkersOK, Worker, Quiets, Carries
  <2>2. QED
    BY <1>1, <1>3, <2>1 DEF ReportAckLost, ReportUndelivered, Unanswered, Fault, Faulty
<1>4. QED BY <1>2, <1>3

LEMMA BeatsBeat ==
  ASSUME WorkersOK, NEW w \in Workers,
         BeatSends(w) \/ BeatLands(w) \/ BeatLost(w) \/ ReadGone(w) \/ Sigterm(w)
  PROVE  Beats(w)
<1>1. wk[w] \in Worker
  BY DEF WorkersOK
<1>2. /\ wk'[w].pc = wk[w].pc /\ Carries(w) /\ wk'[w].plan = wk[w].plan
      /\ wk'[w].hb = wk[w].hb /\ wk'[w].tries = wk[w].tries
      /\ wk'[w].draining = wk[w].draining \/ Faulty
  <2>1. CASE BeatLands(w)
    BY <1>1, <2>1 DEF BeatLands, WorkersOK, Worker, Carries
  <2>2. CASE BeatSends(w) \/ BeatLost(w)
    BY <1>1, <2>2 DEF BeatSends, BeatLost, WorkersOK, Worker, Carries
  <2>3. CASE ReadGone(w)
    <3>1. PICK l \in wk[w].gone :
            wk' = [wk EXCEPT ![w] = [wk[w] EXCEPT !.gone = wk[w].gone \ {l},
                                     !.tracked = IF wk[w].tracked = l THEN 0 ELSE wk[w].tracked]]
      BY <2>3 DEF ReadGone
    <3>2. wk'[w] = [wk[w] EXCEPT !.gone = wk[w].gone \ {l},
                                 !.tracked = IF wk[w].tracked = l THEN 0 ELSE wk[w].tracked]
      BY <3>1 DEF WorkersOK
    <3>3. QED BY <1>1, <3>2 DEF Worker, Carries
  <2>4. CASE Sigterm(w)
    BY <1>1, <2>4 DEF Sigterm, WorkersOK, Worker, Carries, Fault, Faulty
  <2>5. QED BY <2>1, <2>2, <2>3, <2>4
<1>3. (RecordHeartbeat(wk[w].post, w) \/ UNCHANGED dvars) /\ UNCHANGED runRow
  BY DEF BeatSends, BeatLands, BeatLost, ReadGone, Sigterm
<1>4. QED BY <1>2, <1>3 DEF Beats

\* The summary of a process's step: all that the rest of the proof looks at.
LEMMA StepKinds ==
  ASSUME WorkersOK, PoolTypeOK, NEW w \in Workers, WorkerStep(w)
  PROVE  Kinds(w) /\ starved' = starved /\ faults' \in {faults, faults + 1}
<1>1. Kinds(w)
  <2>1. CASE PollResponseLost(w)
    BY <2>1 DEF PollResponseLost, Kinds, Misses, Fault, Faulty
  <2>2. QED
    BY <2>1, QuittersQuit, MarkFinishes, PollReceives, StartPublishes, WorksWorks,
       DecidersDecide, UnreachableAbandons, ReportsReport, BeatsBeat
       DEF WorkerStep, Kinds
<1>2. starved' = starved /\ faults' \in {faults, faults + 1}
  BY DEF WorkerStep, Poll, PollResponseLost, LeaveLoop, Start, Load, VersionNotFound, Planned,
         RecyclePending, BundleUnreachable, BrokenBundle, NoRegistration, Execute, Hang,
         ExecutorUnavailable, Report, ReportAckLost, ReportUndelivered, ReleaseUnsupported,
         Mark, BeatSends, BeatLands, BeatLost, ReadGone, Sigterm, Watchdog, Crash, Restart,
         NoFault, Fault
<1>3. QED BY <1>1, <1>2

--------------------------------------------------------------------------------
(* The tables, as seen from the leases in hand.                              *)

\* Nothing that was recorded of a unit is taken back.
Lasting ==
  /\ \A l \in DOMAIN completed : l \in DOMAIN completed' /\ completed'[l] = completed[l]
  /\ \A l \in DOMAIN parked : l \in DOMAIN parked' /\ parked'[l] = parked[l]

LEMMA RecordsLast == ASSUME IInv, [DispatcherNext]_dvars PROVE Lasting
<1>1. CASE UNCHANGED <<completed, parked>>
  BY <1>1 DEF Lasting
<1>2. ASSUME NEW l, NEW s, NEW c, MarkComplete(l, s, c) PROVE Lasting
  <2>1. l \notin DOMAIN completed
    BY <1>2 DEF MarkComplete, IInv, Ids
  <2>2. QED BY <1>2, <2>1 DEF MarkComplete, Put, Lasting
<1>3. ASSUME NEW l, NEW r, ReleaseLease(l, r) PROVE Lasting
  <2>1. nextId \notin DOMAIN parked
    <3>1. nextId \in Nat /\ \A k \in DOMAIN parked : k < nextId
      BY DEF IInv, Ids, TypeOK, LeaseId
    <3>2. QED BY <3>1
  <2>2. QED BY <1>3, <2>1 DEF ReleaseLease, Put, Lasting
<1>4. CASE Tick \/ ReaperStep
  BY <1>1, <1>4 DEF Tick, ReaperStep, ReaperReadsClock, ReaperLocks, ReapOne, Spare, ReaperUnlocks
<1>5. CASE Request
  BY <1>1, <1>2, <1>3, <1>5
     DEF Request, Enqueue, TakeLease, StaleComplete, StaleRelease, RecordHeartbeat, dvars
<1>6. QED BY <1>1, <1>4, <1>5 DEF DispatcherNext, dvars

LEMMA UnitsLast ==
  ASSUME Lasting
  PROVE  /\ UnitsOf(completed) \subseteq UnitsOf(completed)'
         /\ UnitsOf(parked) \subseteq UnitsOf(parked)'
BY DEF Lasting, UnitsOf

\* What a delivery does for the lease it names.
LEMMA DeliveryEnds ==
  ASSUME IInv, NEW w \in Workers, Delivered(w)
  PROVE  LET l == wk[w].lease.id IN
         /\ l \notin DOMAIN leased'
         /\ \A k \in DOMAIN leased : k # l => k \in DOMAIN leased' /\ leased'[k] = leased[k]
         /\ l \in DOMAIN leased /\ wk[w].plan.verb = "complete" =>
              /\ l \in DOMAIN completed'
              /\ completed'[l] = [unit |-> leased[l].unit, status |-> wk[w].plan.status,
                                  category |-> wk[w].plan.category]
              /\ parked' = parked
         /\ l \in DOMAIN leased /\ wk[w].plan.verb # "complete" =>
              leased[l].unit \in UnitsOf(parked)' /\ completed' = completed
         /\ l \notin DOMAIN leased => UNCHANGED dvars
         /\ pending' = pending
<1> DEFINE l == wk[w].lease.id
<1>1. CASE l \notin DOMAIN leased
  BY <1>1 DEF Delivered, MarkComplete, StaleComplete, ReleaseLease, StaleRelease, dvars
<1>2. CASE l \in DOMAIN leased /\ wk[w].plan.verb = "complete"
  <2>1. MarkComplete(l, wk[w].plan.status, wk[w].plan.category)
    BY <1>2 DEF Delivered, StaleComplete
  <2> HIDE DEF l
  <2>2. /\ leased' = Drop(leased, l) /\ parked' = parked /\ pending' = pending
        /\ completed' = Put(completed, l, [unit |-> leased[l].unit, status |-> wk[w].plan.status,
                                           category |-> wk[w].plan.category])
    BY <2>1 DEF MarkComplete
  <2>3. /\ l \in DOMAIN completed' 
        /\ completed'[l] = [unit |-> leased[l].unit, status |-> wk[w].plan.status,
                            category |-> wk[w].plan.category]
    BY <2>2 DEF Put
  <2>4. /\ l \notin DOMAIN leased'
        /\ \A k \in DOMAIN leased : k # l => k \in DOMAIN leased' /\ leased'[k] = leased[k]
    BY <2>2 DEF Drop
  <2>5. QED BY <1>2, <2>2, <2>3, <2>4 DEF l
<1>3. CASE l \in DOMAIN leased /\ wk[w].plan.verb # "complete"
  <2>1. ReleaseLease(l, wk[w].plan.reason)
    BY <1>3 DEF Delivered, StaleRelease
  <2> HIDE DEF l
  <2>2. /\ leased' = Drop(leased, l) /\ completed' = completed /\ pending' = pending
        /\ parked' = Put(parked, nextId, [unit |-> leased[l].unit, version |-> leased[l].version,
                                          reason |-> wk[w].plan.reason])
    BY <2>1 DEF ReleaseLease
  <2>3. leased[l].unit \in UnitsOf(parked)'
    BY <2>2 DEF Put, UnitsOf
  <2>4. /\ l \notin DOMAIN leased'
        /\ \A k \in DOMAIN leased : k # l => k \in DOMAIN leased' /\ leased'[k] = leased[k]
    BY <2>2 DEF Drop
  <2>5. QED BY <1>3, <2>2, <2>3, <2>4 DEF l
<1>4. QED BY <1>1, <1>2, <1>3

\* A lease in a hand is there until that hand's own report, and nobody lets it grow old.
Kept(w) ==
  Young(wk[w].lease.id) => Young(wk[w].lease.id)'

LEMMA HeartbeatKeeps ==
  ASSUME IInv, NEW l, NEW v, RecordHeartbeat(l, v), NEW k, Young(k) PROVE Young(k)'
<1>1. leased[k] \in LeasedRecord
  BY DEF IInv, TypeOK, Young
<1>2. CASE HeartbeatOutcome(l, v) # "ok"
  BY <1>2 DEF RecordHeartbeat, Young
<1>3. CASE HeartbeatOutcome(l, v) = "ok"
  <2>1. leased' = [leased EXCEPT ![l] = [leased[l] EXCEPT !.age = 0]] /\ l \in DOMAIN leased
    BY <1>3 DEF RecordHeartbeat, HeartbeatOutcome
  <2>2. leased[l] \in LeasedRecord
    BY <2>1 DEF IInv, TypeOK
  <2>3. QED BY <1>1, <2>1, <2>2 DEF Young, LeasedRecord
<1>4. QED BY <1>2, <1>3

LEMMA TakeKeeps ==
  ASSUME IInv, NEW v \in Workers, TakeLease(v), NEW k, Young(k)
  PROVE  Young(k)' /\ leased'[k] = leased[k]
<1>1. /\ pending \in Seq(PendingItem) /\ pending # <<>>
      /\ leased' = Put(leased, Head(pending).id,
                       [unit |-> Head(pending).unit, version |-> Head(pending).version,
                        worker |-> v, age |-> 0, nth |-> nthGrant + 1])
  BY DEF IInv, TypeOK, TakeLease
<1>2. Head(pending).id \in PendingIds
  <2>1. 1 \in DOMAIN pending /\ Head(pending) = pending[1]
    BY <1>1
  <2>2. QED BY <2>1 DEF PendingIds
<1>3. k # Head(pending).id /\ k \in DOMAIN leased
  BY <1>2 DEF IInv, Ids, Young
<1>4. QED BY <1>1, <1>3 DEF Put, Young

LEMMA ReapKeeps ==
  ASSUME IInv, NEW l, ReapOne(l), l \in reaper.todo, NEW k, Young(k)
  PROVE  k # l /\ Young(k)' /\ leased'[k] = leased[k]
<1>1. leased[k] \in LeasedRecord /\ reaper \in ReaperState /\ TTL \in Nat /\ TTL > 0
  BY TTLAssumption, PoolAssumption DEF IInv, TypeOK, Young
<1>2. leased[k].age \in Nat /\ reaper.lag \in Nat
  BY <1>1, BoundsAssumption DEF LeasedRecord, ReaperState, AgeCap
<1>3. k # l
  BY <1>1, <1>2 DEF ReapOne, Expired, Young
<1>4. leased' = Drop(leased, l)
  BY DEF ReapOne
<1>5. QED BY <1>3, <1>4 DEF Drop, Young

LEMMA TickKeeps ==
  ASSUME IInv, Tick, NEW k, k \in DOMAIN leased, leased[k].age = 0 PROVE Young(k)'
<1>1. leased[k] \in LeasedRecord
  BY DEF IInv, TypeOK
<1>2. /\ k \in DOMAIN leased'
      /\ leased'[k] = [leased[k] EXCEPT !.age = IF leased[k].age < AgeCap THEN leased[k].age + 1
                                                ELSE leased[k].age]
  BY DEF Tick
<1>3. leased'[k].age = IF leased[k].age < AgeCap THEN leased[k].age + 1 ELSE leased[k].age
  BY <1>1, <1>2 DEF LeasedRecord
<1>4. QED BY <1>2, <1>3 DEF Young

--------------------------------------------------------------------------------
(* The steps of the pool.                                                    *)

Acts(w) ==
  /\ Kinds(w) /\ starved' = starved /\ faults' \in {faults, faults + 1}
  /\ \A v \in Workers : v # w => wk'[v] = wk[v]

\* The steps that are no process's own.
Around ==
  /\ wk' = wk
  /\ \/ /\ \E v \in Tag : Enqueue(v)
        /\ runRow' = Put(runRow, nextId, "queued") /\ UNCHANGED <<starved, faults>>
     \/ UNCHANGED <<dvars, runRow, starved, faults>>
     \/ Tick /\ Timely /\ UNCHANGED <<runRow, starved, faults>>
     \/ Tick /\ starved' /\ Faulty /\ UNCHANGED runRow
     \/ ReaperStep /\ UNCHANGED <<runRow, starved, faults>>

LEMMA PoolStepKinds ==
  ASSUME PInv, PoolTypeOK, [PoolNext]_vars
  PROVE  (\E w \in Workers : Acts(w)) \/ Around
<1>1. WorkersOK
  BY DEF PInv
<1>2. ASSUME NEW w \in Workers, WorkerStep(w) PROVE Acts(w)
  BY <1>1, <1>2, StepKinds, WorkerStepIsLocal DEF Acts
<1>3. ASSUME NEW v \in Tag, Submit(v) PROVE Around
  BY <1>3 DEF Submit, Around
<1>4. CASE ClockTick
  <2>1. \/ Timely /\ UNCHANGED <<starved, faults>>
        \/ Faulty /\ starved' = TRUE
    BY <1>4 DEF ClockTick, NoFault, Fault, Faulty
  <2>2. QED BY <1>4, <2>1 DEF ClockTick, Around
<1>5. CASE Reaper
  BY <1>5 DEF Reaper, pvars, Around
<1>6. ASSUME NEW u \in orphans, OrphanEnds(u) PROVE Around
  BY <1>6 DEF OrphanEnds, NoFault, Around
<1>7. CASE UNCHANGED vars
  BY <1>7 DEF vars, pvars, Around
<1>8. QED BY <1>2, <1>3, <1>4, <1>5, <1>6, <1>7 DEF PoolNext

LEMMA FaultsGrow ==
  ASSUME PInv, PoolTypeOK, PoolTypeOK', [PoolNext]_vars
  PROVE  /\ faults \in Nat /\ faults' \in Nat /\ faults <= faults' /\ faults' <= MaxFaults
         /\ starved \in BOOLEAN /\ starved' \in BOOLEAN /\ (starved => starved')
<1>1. /\ faults \in Nat /\ faults' \in Nat /\ faults' <= MaxFaults
      /\ starved \in BOOLEAN /\ starved' \in BOOLEAN
  BY PoolAssumption DEF PoolTypeOK
<1>2. (\E w \in Workers : Acts(w)) \/ Around
  BY PoolStepKinds
<1>3. faults' \in {faults, faults + 1}
  BY <1>2 DEF Acts, Around, Faulty
<1>4. starved => starved'
  BY <1>2 DEF Acts, Around
<1>5. QED BY <1>1, <1>3, <1>4

LEMMA HandsKeep ==
  ASSUME PInv, PoolTypeOK, PoolTypeOK', Hands, [PoolNext]_vars PROVE Hands'
<1>1. faults \in Nat /\ faults' \in Nat /\ faults <= faults'
  BY FaultsGrow
<1>2. ASSUME NEW v \in Workers, wk'[v] = wk[v] PROVE Shape(v)'
  <2>1. Shape(v) /\ wk[v] \in Worker
    BY DEF Hands, PoolTypeOK
  <2>2. wk[v].tries \in Nat
    BY <2>1 DEF Worker
  <2>3. QED BY <1>1, <1>2, <2>1, <2>2 DEF Shape, Holds
<1>3. ASSUME NEW w \in Workers, Acts(w) PROVE Shape(w)'
  <2>1. Shape(w) /\ wk[w] \in Worker
    BY DEF Hands, PoolTypeOK
  <2>2. wk[w].tries \in Nat
    BY <2>1 DEF Worker
  <2>3. CASE Quits(w)
    BY <1>1, <2>3 DEF Quits, Shape, Holds, Nothing
  <2>4. CASE Finishes(w)
    BY <1>1, <2>1, <2>2, <2>4 DEF Finishes, Shape, Holds, Nothing
  <2>5. CASE Receives(w)
    <3>1. Head(pending) \in PendingItem
      BY <2>5 DEF Receives, TakeLease, PoolTypeOK, TypeOK
    <3>2. wk'[w].lease # NoLease
      BY <2>5, <3>1 DEF Receives, PendingItem, LeaseId, NoLease
    <3>3. QED BY <1>1, <2>1, <2>2, <2>5, <3>2 DEF Receives, Shape, Holds
  <2>6. CASE Misses(w)
    BY <1>2, <2>6 DEF Misses
  <2>7. CASE Publishes(w)
    BY <1>1, <2>1, <2>2, <2>7 DEF Publishes, Quiets, Carries, Shape, Holds
  <2>8. CASE Works(w)
    BY <1>1, <2>1, <2>2, <2>8 DEF Works, Quiets, Carries, Shape, Holds
  <2>9. CASE Decides(w)
    BY <1>1, <2>1, <2>9 DEF Decides, Carries, Shape, Holds
  <2>10. CASE Abandons(w)
    BY <1>1, <2>1, <2>2, <2>10 DEF Abandons, Carries, Shape, Holds, Nothing
  <2>11. CASE Answered(w)
    BY <1>1, <2>1, <2>11 DEF Answered, Quiets, Carries, Shape, Holds
  <2>12. CASE Unanswered(w)
    BY <1>1, <2>1, <2>2, <2>12 DEF Unanswered, Quiets, Carries, Shape, Holds, Faulty
  <2>13. CASE Beats(w)
    BY <1>1, <2>1, <2>2, <2>13 DEF Beats, Carries, Shape, Holds
  <2>14. QED
    BY <1>3, <2>3, <2>4, <2>5, <2>6, <2>7, <2>8, <2>9, <2>10, <2>11, <2>12, <2>13 DEF Acts, Kinds
<1>4. (\E w \in Workers : Acts(w)) \/ Around
  BY PoolStepKinds
<1>5. QED BY <1>2, <1>3, <1>4 DEF Hands, Acts, Around

--------------------------------------------------------------------------------
(* As long as the beats get through.                                         *)

\* Ids in two hands are two ids.
LEMMA ApartInHand ==
  ASSUME PInv, NEW v \in Workers, NEW w \in Workers, v # w, wk[w].lease.id \in DOMAIN leased
  PROVE  wk[v].lease.id # wk[w].lease.id
<1>1. wk[w].lease.id # 0
  BY DEF PInv, IInv, TypeOK, LeaseId
<1>2. /\ wk[v].lease.id = 0 \/ Granted(v, wk[v].lease.id)
      /\ wk[w].lease.id = 0 \/ Granted(w, wk[w].lease.id)
  BY DEF PInv, HandInv, HandOK, Known
<1>3. QED BY <1>1, <1>2 DEF Granted

\* The clock finds the lease fresh, and the reaper finds it young.
LEMMA AroundKeepsYoung ==
  ASSUME PInv, Hands, Around, ~starved', NEW w \in Workers, Holds(w), Young(wk[w].lease.id)
  PROVE  Young(wk[w].lease.id)'
<1> DEFINE l == wk[w].lease.id
<1>1. IInv /\ wk' = wk /\ l \in DOMAIN leased
  BY DEF PInv, Around, Young
<1>2. CASE leased' = leased
  BY <1>1, <1>2 DEF Young
<1>3. CASE Tick /\ Timely
  <2>1. l # 0
    BY <1>1 DEF IInv, TypeOK, LeaseId
  <2>2. leased[l].worker = w
    BY <1>1, <2>1 DEF PInv, HandInv, HandOK, Known, Granted
  <2>3. KeptAlive(w) = l
    BY DEF Hands, Shape, KeptAlive, At
  <2>4. leased[l].age = 0
    BY <1>1, <1>3, <2>2, <2>3 DEF Timely
  <2>5. PICK k : k = l
    OBVIOUS
  <2>6. Young(k)'
    BY <1>1, <1>3, <2>4, <2>5, TickKeeps
  <2>7. QED BY <1>1, <2>5, <2>6 DEF Young
<1>4. CASE ReaperStep
  <2>1. CASE \E k \in reaper.todo : ReapOne(k)
    BY <1>1, <2>1, ReapKeeps DEF Young
  <2>2. QED BY <1>2, <1>4, <2>1 DEF ReaperStep, ReaperReadsClock, ReaperLocks, Spare, ReaperUnlocks
<1>5. QED BY <1>2, <1>3, <1>4 DEF Around, Enqueue, dvars

LEMMA OthersKeepYoung ==
  ASSUME PInv, NEW w \in Workers, NEW v \in Workers, v # w, Acts(v), Young(wk[w].lease.id)
  PROVE  Young(wk[w].lease.id)'
<1> DEFINE l == wk[w].lease.id
<1>1. IInv /\ wk'[w].lease.id = l /\ l \in DOMAIN leased
  BY DEF PInv, Acts, Young
<1> SUFFICES Young(l)'
  BY <1>1 DEF Young
<1>2. CASE UNCHANGED dvars
  BY <1>1, <1>2 DEF Young, dvars
<1>3. CASE TakeLease(v)
  BY <1>1, <1>3, TakeKeeps DEF Young
<1>4. CASE Delivered(v)
  <2>1. wk[v].lease.id # l
    BY <1>1, ApartInHand
  <2>2. l \in DOMAIN leased' /\ leased'[l] = leased[l]
    BY <1>1, <1>4, <2>1, DeliveryEnds
  <2>3. QED BY <1>1, <2>2 DEF Young
<1>5. CASE RecordHeartbeat(wk[v].post, v)
  BY <1>1, <1>5, HeartbeatKeeps DEF Young
<1>6. QED
  BY <1>2, <1>3, <1>4, <1>5
     DEF Acts, Kinds, Quits, Finishes, Receives, Misses, Publishes, Works, Decides, Abandons,
         Answered, Unanswered, Beats

\* A report that arrived stays arrived, whatever is tried again.
LEMMA SettlingKeeps ==
  ASSUME PInv, PInv', [PoolNext]_vars, NEW w \in Workers, Settling(w), Holds(w),
         wk'[w].lease = wk[w].lease, wk'[w].pc \in {"report", "mark"},
         wk'[w].plan.mark \in {wk[w].plan.mark, "none"}, wk[w].lease # NoLease
  PROVE  Settling(w)'
<1> DEFINE l == wk[w].lease.id
<1>1. /\ [DispatcherNext]_dvars /\ IInv
  BY PoolStepIsDispatchers DEF PInv
<1>2. IdsMoveOn /\ Lasting
  BY <1>1, StepMovesIds, RecordsLast
<1>3. l # 0 /\ l \in Nat
  BY DEF PInv, WorkersOK, Worker, Lease, LeaseId, NoLease
<1>4. Granted(w, l)
  BY <1>3 DEF PInv, HandInv, HandOK, Known
<1>5. l \notin DOMAIN leased'
  BY <1>2, <1>4 DEF Granted, IdsMoveOn, Settling
<1>6. \/ InHand(w) \in UnitsOf(completed)'
      \/ InHand(w) \in UnitsOf(parked)' /\ wk[w].plan.mark = "none"
  BY <1>2, UnitsLast DEF Settling
<1>7. QED BY <1>5, <1>6 DEF Settling, InHand

LEMMA FedKeeps ==
  ASSUME PInv, PInv', PoolTypeOK, Hands, [PoolNext]_vars, ~starved', NEW w \in Workers,
         Fed(w), wk'[w].lease = wk[w].lease, Holds(w)' => Holds(w),
         wk[w].pc \in {"report", "mark"} => wk'[w].pc \in {"report", "mark"},
         wk'[w].plan.mark \in {wk[w].plan.mark, "none"} \/ wk[w].pc \notin {"report", "mark"},
         Holds(w) /\ Young(wk[w].lease.id) => Young(wk[w].lease.id)'
  PROVE  Fed(w)'
<1>1. CASE ~Holds(w)'
  BY <1>1 DEF Fed, Holds
<1>2. CASE Holds(w)' /\ Young(wk[w].lease.id)
  BY <1>2 DEF Fed
<1>3. CASE Holds(w)' /\ ~Young(wk[w].lease.id)
  <2>1. Settling(w) /\ Holds(w)
    BY <1>3 DEF Fed
  <2>2. Settling(w)'
    BY <2>1, SettlingKeeps DEF Hands, Shape, Settling
  <2>3. QED BY <2>2 DEF Fed
<1>4. QED BY <1>1, <1>2, <1>3

\* The outcome of a report for its lease, in the tables.
LEMMA DeliveredSettles ==
  ASSUME PInv, PInv', PoolTypeOK, Hands, [PoolNext]_vars, NEW w \in Workers, Fed(w), Delivered(w),
         wk[w].pc = "report", Quiets(w), wk'[w].pc \in {"report", "mark"}
  PROVE  Settling(w)'
<1> DEFINE l == wk[w].lease.id
<1>1. IInv /\ Shape(w) /\ Holds(w) /\ wk'[w].lease = wk[w].lease /\ wk'[w].plan = wk[w].plan
  BY DEF PInv, Hands, Holds, Quiets, Carries
<1>2. CASE l \notin DOMAIN leased
  <2>1. Settling(w)
    BY <1>1, <1>2 DEF Fed, Young
  <2>2. QED BY <1>1, <2>1, SettlingKeeps DEF Shape
<1>3. CASE l \in DOMAIN leased
  <2>1. leased[l].unit = InHand(w)
    BY <1>3 DEF PInv, HandInv, HandOK, InHand
  <2>2. l \notin DOMAIN leased'
    BY <1>1, DeliveryEnds
  <2>3. CASE wk[w].plan.verb = "complete"
    <3>1. /\ l \in DOMAIN completed'
          /\ completed'[l] = [unit |-> leased[l].unit, status |-> wk[w].plan.status,
                              category |-> wk[w].plan.category]
      BY <1>1, <1>3, <2>3, DeliveryEnds
    <3>2. InHand(w) \in UnitsOf(completed)'
      BY <2>1, <3>1 DEF UnitsOf
    <3>3. QED BY <1>1, <2>2, <3>2 DEF Settling, InHand
  <2>4. CASE wk[w].plan.verb # "complete"
    <3>1. InHand(w) \in UnitsOf(parked)' /\ wk[w].plan.mark = "none"
      BY <1>1, <1>3, <2>1, <2>4, DeliveryEnds DEF Shape
    <3>2. QED BY <1>1, <2>2, <3>1 DEF Settling, InHand
  <2>5. QED BY <2>3, <2>4
<1>4. QED BY <1>2, <1>3

LEMMA FedStays ==
  ASSUME PInv, PInv', PoolTypeOK, Hands, [PoolNext]_vars, ~starved',
         NEW w \in Workers, Fed(w)
  PROVE  Fed(w)'
<1>1. CASE Around
  <2>1. wk' = wk
    BY <1>1 DEF Around
  <2>2. Holds(w) /\ Young(wk[w].lease.id) => Young(wk[w].lease.id)'
    BY <1>1, AroundKeepsYoung
  <2>3. QED BY <2>1, <2>2, FedKeeps DEF Holds
<1>2. ASSUME NEW v \in Workers, v # w, Acts(v) PROVE Fed(w)'
  <2>1. wk'[w] = wk[w]
    BY <1>2 DEF Acts
  <2>2. Young(wk[w].lease.id) => Young(wk[w].lease.id)'
    BY <1>2, OthersKeepYoung
  <2>3. QED BY <2>1, <2>2, FedKeeps DEF Holds
<1>3. CASE Acts(w)
  <2>1. CASE Quits(w) \/ Finishes(w)
    BY <2>1 DEF Quits, Finishes, Fed, Holds
  <2>2. CASE Receives(w)
    <3>1. /\ leased' = Put(leased, Head(pending).id,
                           [unit |-> Head(pending).unit, version |-> Head(pending).version,
                            worker |-> w, age |-> 0, nth |-> nthGrant + 1])
          /\ wk'[w].lease.id = Head(pending).id
      BY <2>2 DEF Receives, TakeLease
    <3>2. Young(wk[w].lease.id)'
      BY <3>1 DEF Put, Young
    <3>3. QED BY <3>2 DEF Fed
  <2>3. CASE Misses(w)
    <3>2. wk'[w] = wk[w] /\ TakeLease(w) /\ IInv
      BY <2>3 DEF Misses, PInv
    <3>3. PICK k : k = wk[w].lease.id
      OBVIOUS
    <3>4. Young(k) => Young(k)'
      BY <3>2, TakeKeeps
    <3>5. Young(wk[w].lease.id) => Young(wk[w].lease.id)'
      BY <3>2, <3>3, <3>4 DEF Young
    <3>6. QED BY <3>2, <3>5, FedKeeps DEF Holds
  <2>4. CASE Answered(w)
    BY <2>4, DeliveredSettles DEF Answered, Fed
  <2>5. CASE Unanswered(w) /\ Delivered(w)
    BY <2>5, DeliveredSettles DEF Unanswered, Fed
  <2>6. CASE Unanswered(w) /\ UNCHANGED dvars
    <3>1. /\ wk'[w].lease = wk[w].lease /\ wk'[w].pc \in {"report", "mark"}
          /\ wk[w].pc = "report" /\ wk'[w].plan = wk[w].plan
      BY <2>6 DEF Unanswered, Quiets, Carries
    <3>2. Young(wk[w].lease.id) => Young(wk[w].lease.id)'
      BY <2>6, <3>1 DEF Young, dvars
    <3>3. QED BY <3>1, <3>2, FedKeeps DEF Holds
  <2>7. CASE Publishes(w) \/ Works(w) \/ Decides(w) \/ Abandons(w) \/ Beats(w)
    <3>1. /\ wk'[w].lease = wk[w].lease
          /\ Holds(w)' => Holds(w)
          /\ wk[w].pc \in {"report", "mark"} => wk'[w].pc \in {"report", "mark"}
          /\ wk'[w].plan.mark \in {wk[w].plan.mark, "none"} \/ wk[w].pc \notin {"report", "mark"}
          /\ UNCHANGED dvars \/ RecordHeartbeat(wk[w].post, w)
      <4>1. CASE Publishes(w) \/ Works(w)
        BY <4>1 DEF Publishes, Works, Quiets, Carries, Holds
      <4>2. CASE Decides(w)
        BY <4>2 DEF Decides, Carries, Holds
      <4>3. CASE Abandons(w) \/ Beats(w)
        BY <4>3 DEF Abandons, Beats, Carries, Holds
      <4>4. QED BY <2>7, <4>1, <4>2, <4>3
    <3>2. PICK k : k = wk[w].lease.id
      OBVIOUS
    <3>3. Young(k) => Young(k)'
      BY <3>1, HeartbeatKeeps DEF PInv, Young, dvars
    <3>4. Young(wk[w].lease.id) => Young(wk[w].lease.id)'
      BY <3>1, <3>2, <3>3 DEF Young
    <3>5. QED BY <3>1, <3>4, FedKeeps
  <2>8. QED
    BY <1>3, <2>1, <2>2, <2>3, <2>4, <2>5, <2>6, <2>7 DEF Acts, Kinds, Unanswered
<1>4. QED BY <1>1, <1>2, <1>3, PoolStepKinds

\* A unit in a hand is leased, completed or parked: never queued.
LEMMA FedNotQueued ==
  ASSUME PInv, Hands, NEW w \in Workers, Fed(w), Holds(w)
  PROVE  InHand(w) \notin UnitsOf(pending) /\ InHand(w) # 0
<1>1. wk[w].lease \in Lease /\ wk[w].lease # NoLease
  BY DEF PInv, WorkersOK, Worker, Hands, Shape
<1>2. InHand(w) # 0
  BY <1>1 DEF Lease, LeaseId, InHand
<1>3. CASE Young(wk[w].lease.id)
  <2>1. leased[wk[w].lease.id].unit = InHand(w)
    BY <1>3 DEF PInv, HandInv, HandOK, InHand, Young
  <2>2. InHand(w) \in UnitsOf(leased)
    BY <1>3, <2>1 DEF UnitsOf, Young
  <2>3. QED BY <1>2, <2>2 DEF PInv, IInv, OnePlace
<1>4. CASE Settling(w)
  BY <1>2, <1>4 DEF Settling, PInv, IInv, OnePlace
<1>5. QED BY <1>3, <1>4 DEF Fed

LEMMA HoldsInHand ==
  ASSUME PInv, Hands, NEW w \in Workers PROVE Holds(w) <=> InHand(w) # 0
<1>1. wk[w].lease \in Lease /\ (Holds(w) <=> wk[w].lease # NoLease)
  BY DEF PInv, WorkersOK, Worker, Hands, Shape
<1>2. wk[w].lease # NoLease => wk[w].lease.unit # 0
  BY <1>1 DEF Lease, LeaseId
<1>3. QED BY <1>1, <1>2 DEF InHand, NoLease

\* What a step makes of the hands: one gets the head of the queue, or they only let go.
LEMMA HandsMove ==
  ASSUME PInv, PoolTypeOK, [PoolNext]_vars
  PROVE  \/ \A w \in Workers : InHand(w)' \in {InHand(w), 0}
         \/ \E v \in Workers :
              /\ Receives(v)
              /\ InHand(v)' = Head(pending).unit /\ Head(pending).unit \in UnitsOf(pending)
              /\ \A w \in Workers : w # v => InHand(w)' = InHand(w)
<1>1. CASE Around
  BY <1>1 DEF Around, InHand
<1>2. ASSUME NEW v \in Workers, Acts(v), ~Receives(v)
      PROVE  \A w \in Workers : InHand(w)' \in {InHand(w), 0}
  <2>1. wk'[v].lease \in {wk[v].lease, NoLease}
    BY <1>2 DEF Acts, Kinds, Quits, Finishes, Misses, Publishes, Works, Decides, Abandons,
                Answered, Unanswered, Beats, Quiets, Carries
  <2>2. QED BY <1>2, <2>1 DEF Acts, InHand, NoLease
<1>3. ASSUME NEW v \in Workers, Acts(v), Receives(v)
      PROVE  /\ InHand(v)' = Head(pending).unit /\ Head(pending).unit \in UnitsOf(pending)
             /\ \A w \in Workers : w # v => InHand(w)' = InHand(w)
  <2>1. pending \in Seq(PendingItem) /\ pending # <<>>
    BY <1>3 DEF PoolTypeOK, TypeOK, Receives, TakeLease
  <2>2. 1 \in DOMAIN pending /\ Head(pending) = pending[1]
    BY <2>1
  <2>3. QED BY <1>3, <2>2 DEF Acts, Receives, InHand, UnitsOf
<1>4. QED BY <1>1, <1>2, <1>3, PoolStepKinds

LEMMA AloneStays ==
  ASSUME PInv, PoolTypeOK, PoolTypeOK', Hands, Beating, [PoolNext]_vars, ~starved',
         NEW v \in Workers, NEW w \in Workers, v # w, InHand(v)' # 0
  PROVE  InHand(v)' # InHand(w)'
<1>1. ~starved
  BY FaultsGrow
<1>2. /\ Fed(v) /\ Fed(w)
      /\ InHand(v) # 0 => InHand(v) # InHand(w)
      /\ InHand(w) # 0 => InHand(v) # InHand(w)
  BY <1>1 DEF Beating, NoDoubleExecution
<1>3. /\ InHand(v) # 0 => InHand(v) \notin UnitsOf(pending)
      /\ InHand(w) # 0 => InHand(w) \notin UnitsOf(pending)
  BY <1>2, FedNotQueued, HoldsInHand
<1>4. 0 \notin UnitsOf(pending)
  <2>1. \A i \in DOMAIN pending : pending[i].unit # 0
    BY ItemsTyped DEF PoolTypeOK, TypeOK, LeaseId
  <2>2. QED BY <2>1 DEF UnitsOf
<1>5. CASE \A x \in Workers : InHand(x)' \in {InHand(x), 0}
  BY <1>2, <1>5
<1>6. ASSUME NEW x \in Workers, InHand(x)' = Head(pending).unit,
             Head(pending).unit \in UnitsOf(pending),
             \A y \in Workers : y # x => InHand(y)' = InHand(y)
      PROVE  InHand(v)' # InHand(w)'
  BY <1>2, <1>3, <1>4, <1>6
<1>7. QED BY <1>5, <1>6, HandsMove

\* The worker writes the run's row only of a report the dispatcher knows of.
LEMMA ReportedStays ==
  ASSUME PInv, PInv', PoolTypeOK, PoolTypeOK', Hands, [PoolNext]_vars, NEW w \in Workers,
         Fed(w)', Reported(w)
  PROVE  Reported(w)'
<1>1. Lasting
  BY PoolStepIsDispatchers, RecordsLast DEF PInv
<1>2. UnitsOf(completed) \subseteq UnitsOf(completed)'
  BY <1>1, UnitsLast
<1>3. ASSUME wk'[w].pc = wk[w].pc, wk'[w].plan = wk[w].plan, wk'[w].lease = wk[w].lease
      PROVE  Reported(w)'
  BY <1>2, <1>3 DEF Reported, InHand
<1>4. CASE Acts(w)
  <2>1. CASE Answered(w)
    <3>1. wk[w].lease.id \notin DOMAIN leased' /\ wk'[w].lease = wk[w].lease /\ wk'[w].pc = "mark"
      BY <2>1, DeliveryEnds DEF PInv, Answered, Quiets, Carries
    <3>2. Settling(w)'
      BY <3>1 DEF Fed, Young, Holds
    <3>3. QED BY <3>2 DEF Settling, Reported
  <2>2. CASE Unanswered(w) /\ wk'[w].pc = "mark"
    <3>1. wk[w].tries <= faults /\ wk[w].tries \in Nat
      BY DEF Hands, Shape, PInv, WorkersOK, Worker
    <3>2. faults' <= MaxFaults /\ faults' = faults + 1 /\ faults \in Nat
      BY <2>2, FaultsGrow DEF Unanswered, Faulty
    <3>3. wk[w].tries + 1 = Attempts
      BY <2>2 DEF Unanswered
    <3>4. ~(MaxFaults < Attempts)
      BY <3>1, <3>2, <3>3, PoolAssumption
    <3>5. QED BY <3>4 DEF Reported
  <2>3. CASE Abandons(w)
    BY <2>3 DEF Abandons, Reported, Nothing
  <2>4. CASE Misses(w) \/ Beats(w)
    BY <1>3, <2>4 DEF Misses, Beats, Carries
  <2>5. CASE wk'[w].pc # "mark"
    BY <2>5 DEF Reported
  <2>6. QED
    BY <1>4, <2>1, <2>2, <2>3, <2>4, <2>5
       DEF Acts, Kinds, Quits, Finishes, Receives, Publishes, Works, Decides
<1>5. CASE wk'[w] = wk[w]
  BY <1>3, <1>5
<1>6. QED BY <1>4, <1>5, PoolStepKinds DEF Acts, Around

LEMMA BeatingStays ==
  ASSUME PInv, PInv', PoolTypeOK, PoolTypeOK', Hands, Beating, [PoolNext]_vars PROVE Beating'
<1> SUFFICES ASSUME ~starved'
             PROVE  (\A w \in Workers : Fed(w) /\ Reported(w))' /\ NoDoubleExecution'
  BY DEF Beating
<1>1. \A w \in Workers : Fed(w) /\ Reported(w)
  BY FaultsGrow DEF Beating
<1>2. \A w \in Workers : Fed(w)'
  BY <1>1, FedStays
<1>3. \A w \in Workers : Reported(w)'
  BY <1>1, <1>2, ReportedStays
<1>4. NoDoubleExecution'
  BY AloneStays DEF NoDoubleExecution
<1>5. QED BY <1>2, <1>3, <1>4

--------------------------------------------------------------------------------
(* The rows of the runs.                                                     *)

LEMMA UnitsKnown ==
  ASSUME PInv, PoolTypeOK
  PROVE  /\ DOMAIN runRow = DOMAIN submitted /\ nextId \notin DOMAIN submitted
         /\ UnitsOf(pending) \cup UnitsOf(leased) \cup UnitsOf(completed) \cup UnitsOf(parked)
              \subseteq DOMAIN runRow
<1>1. IInv /\ nextId \in Nat
  BY DEF PInv, IInv, TypeOK, LeaseId
<1>2. \A u \in UnitsOf(pending) \cup UnitsOf(leased) \cup UnitsOf(completed) \cup UnitsOf(parked) :
        u < nextId
  BY <1>1 DEF IInv, Ids, UnitsOf
<1>3. DOMAIN submitted = UnitsOf(pending) \cup UnitsOf(leased) \cup UnitsOf(completed)
                           \cup UnitsOf(parked)
  BY <1>1 DEF IInv, NothingLost
<1>4. QED BY <1>1, <1>2, <1>3 DEF PoolTypeOK

LEMMA HeldKnown ==
  ASSUME PInv, PoolTypeOK, NEW w \in Workers, Holds(w), Fed(w) PROVE InHand(w) \in DOMAIN runRow
<1>1. CASE Young(wk[w].lease.id)
  <2>1. leased[wk[w].lease.id].unit = InHand(w)
    BY <1>1 DEF PInv, HandInv, HandOK, InHand, Young
  <2>2. InHand(w) \in UnitsOf(leased)
    BY <1>1, <2>1 DEF UnitsOf, Young
  <2>3. QED BY <2>2, UnitsKnown
<1>2. CASE Settling(w)
  BY <1>2, UnitsKnown DEF Settling
<1>3. QED BY <1>1, <1>2 DEF Fed

\* Only a new run, a start or a mark writes a row, and the last two the row of their item.
LEMMA RowsMove ==
  ASSUME PInv, PoolTypeOK, [PoolNext]_vars, NEW u \in DOMAIN runRow
  PROVE  \/ runRow'[u] = runRow[u]
         \/ \E w \in Workers :
              /\ Acts(w) /\ InHand(w) = u
              /\ \/ Publishes(w) /\ runRow[u] = "queued" /\ runRow'[u] = "running"
                 \/ /\ Finishes(w) /\ wk[w].plan.mark # "none"
                    /\ runRow[u] \in {"queued", "running"} /\ runRow'[u] = wk[w].plan.mark
<1>1. CASE Around
  <2>1. nextId # u
    BY UnitsKnown
  <2>2. QED BY <1>1, <2>1 DEF Around, Put
<1>2. ASSUME NEW w \in Workers, Acts(w)
      PROVE  \/ runRow'[u] = runRow[u]
             \/ /\ InHand(w) = u
                /\ \/ Publishes(w) /\ runRow[u] = "queued" /\ runRow'[u] = "running"
                   \/ /\ Finishes(w) /\ wk[w].plan.mark # "none"
                      /\ runRow[u] \in {"queued", "running"} /\ runRow'[u] = wk[w].plan.mark
  <2>1. CASE Publishes(w)
    BY <2>1 DEF Publishes, InHand
  <2>2. CASE Finishes(w)
    BY <2>2 DEF Finishes, Marked, InHand
  <2>3. CASE runRow' = runRow
    BY <2>3
  <2>4. QED
    BY <1>2, <2>1, <2>2, <2>3
       DEF Acts, Kinds, Quits, Receives, Misses, Works, Decides, Abandons, Answered, Unanswered,
           Beats
<1>3. QED BY <1>1, <1>2, PoolStepKinds

LEMMA RowsGrow ==
  ASSUME PInv, PoolTypeOK, PoolTypeOK', [PoolNext]_vars, NEW u \in DOMAIN runRow', u \notin DOMAIN runRow
  PROVE  runRow'[u] = "queued"
<1>1. CASE Around
  BY <1>1 DEF Around, Put
<1>2. ASSUME NEW w \in Workers, Acts(w) PROVE DOMAIN runRow' = DOMAIN runRow
  BY <1>2 DEF Acts, Kinds, Quits, Finishes, Marked, Receives, Misses, Publishes, Works, Decides,
              Abandons, Answered, Unanswered, Beats
<1>3. QED BY <1>1, <1>2, PoolStepKinds

LEMMA EndsStay ==
  ASSUME PInv, PInv', PoolTypeOK, PoolTypeOK', Hands, Beating, RunEndsAfterItsLease,
         [PoolNext]_vars
  PROVE  RunEndsAfterItsLease'
<1> SUFFICES ASSUME ~starved', MaxFaults < Attempts, NEW u \in DOMAIN runRow',
                    runRow'[u] \in Statuses
             PROVE  u \in UnitsOf(completed)'
  BY DEF RunEndsAfterItsLease
<1>1. ~starved
  BY FaultsGrow
<1>2. UnitsOf(completed) \subseteq UnitsOf(completed)'
  BY PoolStepIsDispatchers, RecordsLast, UnitsLast DEF PInv
<1>3. u \in DOMAIN runRow
  BY RowsGrow DEF Statuses
<1>4. CASE runRow'[u] = runRow[u]
  BY <1>1, <1>2, <1>3, <1>4 DEF RunEndsAfterItsLease
<1>5. ASSUME NEW w \in Workers, InHand(w) = u, Finishes(w), wk[w].plan.mark # "none"
      PROVE  u \in UnitsOf(completed)'
  <2>1. Reported(w)
    BY <1>1 DEF Beating
  <2>2. QED BY <1>2, <1>5, <2>1 DEF Finishes, Reported
<1>6. QED BY <1>3, <1>4, <1>5, RowsMove DEF Statuses

--------------------------------------------------------------------------------
(* When nothing was lost.                                                    *)

\* The invariants so far, before and after a step without a fault.
CalmStep ==
  /\ PInv /\ PInv' /\ PoolTypeOK /\ PoolTypeOK' /\ Hands /\ Hands' /\ Beating /\ Beating'
  /\ Calm /\ [PoolNext]_vars /\ faults' = 0

LEMMA CalmBefore ==
  ASSUME CalmStep
  PROVE  /\ faults = 0 /\ ~starved /\ ~starved' /\ ~Faulty
         /\ \A w \in Workers : CalmHand(w) /\ Fed(w) /\ Fed(w)'
         /\ NoDanglingLease /\ NoDoubleExecution /\ RunMatchesOutcome
         /\ \A u \in UnitsOf(pending) : runRow[u] = "queued"
         /\ (\E w \in Workers : Acts(w)) \/ Around
         /\ IInv /\ IdsMoveOn /\ Lasting
<1> USE DEF CalmStep
<1>1. faults = 0 /\ ~Faulty
  BY FaultsGrow DEF Faulty
<1>2. (\E w \in Workers : Acts(w)) \/ Around
  BY PoolStepKinds
<1>3. ~starved
  BY <1>1 DEF Calm
<1>4. ~starved'
  BY <1>1, <1>2, <1>3 DEF Acts, Around
<1>5. IInv /\ IdsMoveOn /\ Lasting
  BY PoolStepIsDispatchers, StepMovesIds, RecordsLast DEF PInv
<1>6. QED BY <1>1, <1>2, <1>3, <1>4, <1>5 DEF Calm, Beating

\* A leased id is young in its worker's hand, so the reaper finds nothing.
LEMMA LeasedIsYoung ==
  ASSUME CalmStep, NEW l \in DOMAIN leased
  PROVE  /\ leased[l].worker \in Workers /\ wk[leased[l].worker].lease.id = l
         /\ Holds(leased[l].worker) /\ Young(l) /\ l # 0
         /\ InHand(leased[l].worker) = leased[l].unit
<1> DEFINE x == leased[l].worker
<1>1. x \in Workers /\ l # 0
  BY DEF CalmStep, PInv, IInv, TypeOK, LeasedRecord, LeaseId
<1>2. wk[x].lease.id = l
  BY CalmBefore DEF NoDanglingLease
<1>3. Holds(x)
  BY <1>1, <1>2 DEF CalmStep, Hands, Shape, NoLease
<1>4. Young(l)
  BY <1>1, <1>2, <1>3, CalmBefore DEF Fed, Settling
<1>5. InHand(x) = leased[l].unit
  BY <1>1, <1>2 DEF CalmStep, PInv, HandInv, HandOK, InHand
<1>6. QED BY <1>1, <1>2, <1>3, <1>4, <1>5

LEMMA NothingReaped ==
  ASSUME CalmStep, NEW l \in reaper.todo PROVE ~ReapOne(l)
<1>1. IInv /\ l \in DOMAIN leased
  BY LeasesTyped DEF CalmStep, PInv
<1>2. Young(l)
  BY <1>1, LeasedIsYoung
<1>3. QED BY <1>1, <1>2, ReapKeeps

\* The steps of a process that remain.
CalmKinds(w) ==
  \/ Quits(w) /\ ~Holds(w)
  \/ Finishes(w) /\ runRow' = (IF wk[w].plan.mark = "none" THEN runRow ELSE Marked(w))
  \/ Receives(w)
  \/ Publishes(w)
  \/ Works(w)
  \/ Decides(w) /\ TellsRow(w)'
  \/ Answered(w)
  \/ Beats(w) /\ wk'[w].draining = wk[w].draining

LEMMA CalmKindsOnly ==
  ASSUME CalmStep, NEW w \in Workers, Acts(w) PROVE CalmKinds(w)
<1>1. ~Faulty /\ ~wk[w].draining
  BY CalmBefore DEF CalmHand
<1>2. QED
  BY <1>1 DEF CalmKinds, Acts, Kinds, Quits, Finishes, Misses, Decides, Abandons, Unanswered, Beats

\* Of the units in hand, the step of another writes no row.
LEMMA OthersRowsStay ==
  ASSUME CalmStep, NEW w \in Workers, Holds(w), ~Publishes(w), ~Finishes(w)
  PROVE  runRow'[InHand(w)] = runRow[InHand(w)]
<1>1. InHand(w) \in DOMAIN runRow
  BY CalmBefore, HeldKnown DEF CalmStep
<1>2. InHand(w) # 0
  BY HoldsInHand DEF CalmStep
<1>3. ASSUME NEW v \in Workers, InHand(v) = InHand(w) PROVE v = w
  BY <1>2, <1>3, CalmBefore DEF NoDoubleExecution
<1>4. QED BY <1>1, <1>3, RowsMove DEF CalmStep

\* A process that does nothing itself.
LEMMA CalmIdler ==
  ASSUME CalmStep, NEW w \in Workers, wk'[w] = wk[w],
         Around \/ \E v \in Workers : v # w /\ Acts(v)
  PROVE  CalmHand(w)'
<1>1. CalmHand(w) /\ Fed(w) /\ Lasting /\ IdsMoveOn /\ PInv /\ Hands
  BY CalmBefore DEF CalmStep
<1>2. wk[w].pc \in {"report", "mark"} => TellsRow(w)'
  BY <1>1 DEF CalmHand, TellsRow, Tells
<1>3. wk[w].pc = "mark" => Recorded(w)'
  <2>1. wk[w].pc = "mark" => Recorded(w)
    BY <1>1 DEF CalmHand
  <2>2. UnitsOf(parked) \subseteq UnitsOf(parked)'
    BY <1>1, UnitsLast
  <2>3. QED BY <1>1, <2>1, <2>2 DEF Recorded, Lasting, InHand
<1>4. ASSUME Holds(w) PROVE wk[w].lease.id \in DOMAIN leased' <=> wk[w].pc # "mark"
  <2> PICK l : l = wk[w].lease.id
    OBVIOUS
  <2>1. l # 0
    BY <1>1, <1>4 DEF Hands, Shape, PInv, WorkersOK, Worker, Lease, LeaseId
  <2>2. Granted(w, l)
    BY <1>1, <2>1 DEF PInv, HandInv, HandOK, Known
  <2>3. l \notin DOMAIN leased => l \notin DOMAIN leased'
    BY <1>1, <2>2 DEF Granted, IdsMoveOn
  <2>4. l \in DOMAIN leased => Young(l)
    BY <1>1, <1>4 DEF Fed, Settling
  <2>5. Young(wk[w].lease.id) => Young(wk[w].lease.id)'
    BY <1>1, <1>4, CalmBefore, AroundKeepsYoung, OthersKeepYoung
  <2>6. l \in DOMAIN leased => l \in DOMAIN leased'
    BY <2>4, <2>5 DEF Young
  <2>7. QED BY <1>1, <1>4, <2>3, <2>6 DEF CalmHand
<1>5. ASSUME Holds(w)
      PROVE  runRow'[InHand(w)] = IF wk[w].pc = "leased" THEN "queued" ELSE "running"
  <2>1. ~Publishes(w) /\ ~Finishes(w)
    BY DEF Publishes, Finishes
  <2>2. QED BY <1>1, <1>5, <2>1, OthersRowsStay DEF CalmHand
<1>6. QED BY <1>1, <1>2, <1>3, <1>4, <1>5 DEF CalmHand, Holds, InHand

LEMMA CalmActor ==
  ASSUME CalmStep, NEW w \in Workers, Acts(w) PROVE CalmHand(w)'
<1>1. CalmHand(w) /\ Fed(w) /\ Lasting /\ IdsMoveOn /\ PInv /\ Hands
  BY CalmBefore DEF CalmStep
<1>2. CalmKinds(w)
  BY CalmKindsOnly
<1>3. CASE Quits(w)
  BY <1>3 DEF Quits, CalmHand, Holds
<1>4. CASE Finishes(w)
  BY <1>1, <1>4 DEF Finishes, CalmHand, Holds
<1>5. CASE Receives(w)
  <2>1. /\ leased' = Put(leased, Head(pending).id,
                         [unit |-> Head(pending).unit, version |-> Head(pending).version,
                          worker |-> w, age |-> 0, nth |-> nthGrant + 1])
        /\ wk'[w].lease.id = Head(pending).id /\ InHand(w)' = Head(pending).unit
        /\ wk'[w].pc = "leased" /\ runRow' = runRow
    BY <1>5 DEF Receives, TakeLease, InHand
  <2>2. wk'[w].lease.id \in DOMAIN leased'
    BY <2>1 DEF Put
  <2>3. Head(pending).unit \in UnitsOf(pending)
    <3>1. pending \in Seq(PendingItem) /\ pending # <<>>
      BY <1>5 DEF CalmStep, PoolTypeOK, TypeOK, Receives, TakeLease
    <3>2. 1 \in DOMAIN pending /\ Head(pending) = pending[1]
      BY <3>1
    <3>3. QED BY <3>2 DEF UnitsOf
  <2>4. runRow'[InHand(w)'] = "queued"
    BY <2>1, <2>3, CalmBefore
  <2>5. ~wk'[w].draining
    BY <1>1, <1>5 DEF Receives, CalmHand
  <2>6. QED BY <2>1, <2>2, <2>4, <2>5 DEF CalmHand
<1>6. CASE Publishes(w)
  <2>1. /\ wk'[w].pc = "load" /\ wk[w].pc = "leased" /\ wk'[w].lease = wk[w].lease
        /\ wk'[w].draining = wk[w].draining /\ leased' = leased
    BY <1>6 DEF Publishes, Quiets, Carries, dvars
  <2>2. runRow'[InHand(w)] = "running"
    <3>1. InHand(w) \in DOMAIN runRow /\ runRow[InHand(w)] = "queued"
      BY <1>1, <2>1, HeldKnown DEF CalmStep, CalmHand, Holds
    <3>2. QED BY <1>6, <3>1, CalmBefore DEF Publishes, InHand
  <2>3. QED BY <1>1, <2>1, <2>2 DEF CalmHand, Holds, InHand
<1>7. CASE Works(w)
  <2>1. /\ wk'[w].pc \in {"exec", "hung"} /\ wk[w].pc \in {"load", "exec"}
        /\ wk'[w].lease = wk[w].lease /\ wk'[w].draining = wk[w].draining
        /\ leased' = leased /\ runRow' = runRow
    BY <1>7 DEF Works, Quiets, Carries, dvars
  <2>2. QED BY <1>1, <2>1 DEF CalmHand, Holds, InHand
<1>8. CASE Decides(w) /\ TellsRow(w)'
  <2>1. /\ wk'[w].pc = "report" /\ wk[w].pc \in {"load", "exec", "report"}
        /\ wk'[w].lease = wk[w].lease /\ wk'[w].draining = wk[w].draining
        /\ leased' = leased /\ runRow' = runRow
    BY <1>8 DEF Decides, Carries, dvars
  <2>2. QED BY <1>1, <1>8, <2>1 DEF CalmHand, Holds, InHand
<1>9. CASE Answered(w)
  <2>1. /\ wk'[w].pc = "mark" /\ wk[w].pc = "report" /\ wk'[w].lease = wk[w].lease
        /\ wk'[w].draining = wk[w].draining /\ wk'[w].plan = wk[w].plan
        /\ wk'[w].mode = wk[w].mode /\ runRow' = runRow /\ Delivered(w)
    BY <1>9 DEF Answered, Quiets, Carries
  <2>2. TellsRow(w)'
    BY <1>1, <2>1 DEF CalmHand, TellsRow, Tells
  <2>3. wk[w].lease.id \in DOMAIN leased
    BY <1>1, <2>1 DEF CalmHand, Holds
  <2>4. wk[w].lease.id \notin DOMAIN leased' /\ leased[wk[w].lease.id].unit = InHand(w)
    BY <1>1, <2>1, <2>3, DeliveryEnds DEF PInv, HandInv, HandOK, InHand
  <2>5. Recorded(w)'
    <3>1. CASE wk[w].plan.verb = "complete"
      <4>1. /\ wk[w].lease.id \in DOMAIN completed'
            /\ completed'[wk[w].lease.id] =
                 [unit |-> leased[wk[w].lease.id].unit, status |-> wk[w].plan.status,
                  category |-> wk[w].plan.category]
        BY <1>1, <2>1, <2>3, <3>1, DeliveryEnds DEF PInv
      <4>2. QED BY <2>1, <2>4, <3>1, <4>1 DEF Recorded, InHand
    <3>2. CASE wk[w].plan.verb # "complete"
      <4>1. leased[wk[w].lease.id].unit \in UnitsOf(parked)'
        BY <1>1, <2>1, <2>3, <3>2, DeliveryEnds DEF PInv
      <4>2. wk[w].plan.mark = "none"
        BY <1>1, <3>2 DEF Hands, Shape
      <4>3. QED BY <2>1, <2>4, <4>1, <4>2 DEF Recorded, InHand
    <3>3. QED BY <3>1, <3>2
  <2>6. QED BY <1>1, <2>1, <2>2, <2>4, <2>5 DEF CalmHand, Holds, InHand
<1>10. CASE Beats(w) /\ wk'[w].draining = wk[w].draining
  <2>1. /\ wk'[w].pc = wk[w].pc /\ wk'[w].lease = wk[w].lease /\ wk'[w].plan = wk[w].plan
        /\ wk'[w].mode = wk[w].mode /\ runRow' = runRow
        /\ RecordHeartbeat(wk[w].post, w) \/ UNCHANGED dvars
    BY <1>10 DEF Beats, Carries
  <2>2. DOMAIN leased' = DOMAIN leased
    BY <2>1 DEF RecordHeartbeat, dvars
  <2>3. wk[w].pc \in {"report", "mark"} => TellsRow(w)'
    BY <1>1, <2>1 DEF CalmHand, TellsRow, Tells
  <2>4. wk[w].pc = "mark" => Recorded(w)'
    <3>1. wk[w].pc = "mark" => Recorded(w)
      BY <1>1 DEF CalmHand
    <3>2. UnitsOf(parked) \subseteq UnitsOf(parked)'
      BY <1>1, UnitsLast
    <3>3. QED BY <1>1, <2>1, <3>1, <3>2 DEF Recorded, Lasting, InHand
  <2>5. QED BY <1>1, <1>10, <2>1, <2>2, <2>3, <2>4 DEF CalmHand, Holds, InHand
<1>11. QED BY <1>2, <1>3, <1>4, <1>5, <1>6, <1>7, <1>8, <1>9, <1>10 DEF CalmKinds

LEMMA CalmHands == ASSUME CalmStep, NEW w \in Workers PROVE CalmHand(w)'
<1>1. CASE Acts(w)
  BY <1>1, CalmActor
<1>2. ASSUME NEW v \in Workers, v # w, Acts(v) PROVE CalmHand(w)'
  BY <1>2, CalmIdler DEF Acts
<1>3. CASE Around
  BY <1>3, CalmIdler DEF Around
<1>4. QED BY <1>1, <1>2, <1>3, CalmBefore

\* No path through the handler leaves a lease behind.
LEMMA NothingDangles == ASSUME CalmStep PROVE NoDanglingLease'
<1> SUFFICES ASSUME NEW l \in DOMAIN leased' PROVE wk'[leased'[l].worker].lease.id = l
  BY DEF NoDanglingLease
<1>1. IdsMoveOn /\ \A w \in Workers : CalmHand(w) /\ CalmHand(w)'
  BY CalmBefore, CalmHands
<1>2. CASE l \in DOMAIN leased
  <2> PICK x : x = leased[l].worker
    OBVIOUS
  <2>1. leased'[l].worker = x
    BY <1>1, <1>2 DEF IdsMoveOn
  <2>2. x \in Workers /\ wk[x].lease.id = l /\ Holds(x)
    BY <1>2, LeasedIsYoung
  <2>3. wk[x].pc # "mark"
    BY <1>1, <1>2, <2>2 DEF CalmHand
  <2>4. CASE Acts(x)
    <3>1. CalmKinds(x)
      BY <2>2, <2>4, CalmKindsOnly
    <3>2. wk'[x].lease = wk[x].lease
      BY <2>2, <2>3, <3>1 DEF CalmKinds, Finishes, Receives, Publishes, Works, Decides, Answered,
                              Beats, Quiets, Carries, Holds
    <3>3. QED BY <2>1, <2>2, <3>2
  <2>5. CASE wk'[x] = wk[x]
    BY <2>1, <2>2, <2>5
  <2>6. QED BY <2>2, <2>4, <2>5, CalmBefore DEF Acts, Around
<1>3. CASE l \notin DOMAIN leased
  <2>1. ASSUME NEW w \in Workers, Acts(w) PROVE wk'[leased'[l].worker].lease.id = l
    <3>1. CASE Receives(w)
      <4>1. /\ leased' = Put(leased, Head(pending).id,
                             [unit |-> Head(pending).unit, version |-> Head(pending).version,
                              worker |-> w, age |-> 0, nth |-> nthGrant + 1])
            /\ wk'[w].lease.id = Head(pending).id
        BY <3>1 DEF Receives, TakeLease
      <4>2. l = Head(pending).id /\ leased'[l].worker = w
        BY <1>3, <4>1 DEF Put
      <4>3. QED BY <4>1, <4>2
    <3>2. CASE Answered(w)
      <4>1. leased' = Drop(leased, wk[w].lease.id) \/ leased' = leased
        BY <3>2 DEF Answered, Delivered, MarkComplete, ReleaseLease, StaleComplete, StaleRelease,
                    dvars
      <4>2. QED BY <1>3, <4>1 DEF Drop
    <3>3. CASE UNCHANGED dvars \/ RecordHeartbeat(wk[w].post, w)
      BY <1>3, <3>3 DEF RecordHeartbeat, dvars
    <3>4. QED
      BY <2>1, <3>1, <3>2, <3>3, CalmKindsOnly
         DEF CalmKinds, Quits, Finishes, Publishes, Works, Decides, Beats
  <2>2. CASE Around
    <3>1. DOMAIN leased' \subseteq DOMAIN leased
      BY <2>2 DEF Around, Enqueue, Tick, ReaperStep, ReaperReadsClock, ReaperLocks, ReapOne, Drop,
                  Spare, ReaperUnlocks, dvars
    <3>2. QED BY <1>3, <3>1
  <2>3. QED BY <2>1, <2>2, CalmBefore
<1>4. QED BY <1>2, <1>3

\* What is queued was never started.
LEMMA QueuedRows == ASSUME CalmStep, NEW u \in UnitsOf(pending)' PROVE runRow'[u] = "queued"
<1>1. /\ IInv /\ pending \in Seq(PendingItem) /\ OncePerUnit(pending) /\ PInv /\ PoolTypeOK
      /\ [PoolNext]_vars /\ Hands
  BY DEF CalmStep, PInv, IInv, TypeOK, OnePlace
<1>2. ASSUME u \in UnitsOf(pending) PROVE runRow'[u] = "queued"
  <2>1. runRow[u] = "queued" /\ u \in DOMAIN runRow
    BY <1>1, <1>2, CalmBefore, UnitsKnown
  <2>2. ASSUME NEW w \in Workers, InHand(w) = u, Publishes(w) \/ Finishes(w) PROVE FALSE
    <3>1. Holds(w)
      BY <2>2 DEF Publishes, Finishes, Holds
    <3>2. QED BY <1>1, <1>2, <2>2, <3>1, CalmBefore, FedNotQueued
  <2>3. QED BY <1>1, <2>1, <2>2, RowsMove
<1>3. ASSUME UNCHANGED pending PROVE runRow'[u] = "queued"
  BY <1>2, <1>3 DEF UnitsOf
<1>4. ASSUME NEW w \in Workers, TakeLease(w) PROVE runRow'[u] = "queued"
  <2>1. pending' = Tail(pending) /\ pending # <<>>
    BY <1>4 DEF TakeLease
  <2>2. UnitsOf(Tail(pending)) \subseteq UnitsOf(pending)
    BY <1>1, <2>1, TailUnits
  <2>3. QED BY <1>2, <2>1, <2>2 DEF UnitsOf
<1>5. CASE Around
  <2>1. ASSUME NEW v \in Tag, Enqueue(v), runRow' = Put(runRow, nextId, "queued")
        PROVE  runRow'[u] = "queued"
    <3> DEFINE item == [id |-> nextId, unit |-> nextId, version |-> v, seen |-> FALSE]
    <3>1. pending' = Append(pending, item)
      BY <2>1 DEF Enqueue
    <3>2. item \in PendingItem /\ item.unit = nextId
      BY <1>1 DEF IInv, TypeOK, PendingItem
    <3>3. item.unit \notin UnitsOf(pending)
      BY <1>1, <3>2, UnitsKnown
    <3> HIDE DEF item
    <3>4. UnitsOf(Append(pending, item)) = UnitsOf(pending) \cup {item.unit}
      BY <1>1, <3>2, <3>3, AppendUnits
    <3>5. u \in UnitsOf(pending) \/ u = nextId
      BY <3>1, <3>2, <3>4 DEF UnitsOf
    <3>6. QED BY <1>2, <2>1, <3>5 DEF Put
  <2>2. CASE Tick \/ UNCHANGED dvars
    BY <1>3, <2>2 DEF Tick, dvars
  <2>3. CASE ReaperStep
    <3>1. UNCHANGED pending
      BY <2>3, NothingReaped DEF ReaperStep, ReaperReadsClock, ReaperLocks, Spare, ReaperUnlocks
    <3>2. QED BY <1>3, <3>1
  <2>4. QED BY <1>5, <2>1, <2>2, <2>3 DEF Around, dvars
<1>6. ASSUME NEW w \in Workers, Acts(w) PROVE runRow'[u] = "queued"
  <2>1. CASE Receives(w)
    BY <1>4, <2>1 DEF Receives
  <2>2. CASE Answered(w)
    BY <1>1, <1>3, <2>2, DeliveryEnds DEF Answered
  <2>3. CASE UNCHANGED dvars \/ RecordHeartbeat(wk[w].post, w)
    BY <1>3, <2>3 DEF RecordHeartbeat, dvars
  <2>4. QED
    BY <1>6, <2>1, <2>2, <2>3, CalmKindsOnly
       DEF CalmKinds, Quits, Finishes, Publishes, Works, Decides, Beats
<1>7. QED BY <1>5, <1>6, CalmBefore

\* A record is made while its item is in hand.
LEMMA RecordsAreOfHands ==
  ASSUME CalmStep, NEW l
  PROVE  /\ l \in DOMAIN completed' /\ l \notin DOMAIN completed =>
              \E w \in Workers : InHand(w)' = completed'[l].unit
         /\ l \in DOMAIN parked' /\ l \notin DOMAIN parked =>
              \E w \in Workers : InHand(w)' = parked'[l].unit
<1>1. ASSUME NEW w \in Workers, Answered(w)
      PROVE  /\ l \in DOMAIN completed' /\ l \notin DOMAIN completed =>
                  InHand(w)' = completed'[l].unit
             /\ l \in DOMAIN parked' /\ l \notin DOMAIN parked =>
                  InHand(w)' = parked'[l].unit
  <2> DEFINE k == wk[w].lease.id
  <2>1. InHand(w)' = InHand(w) /\ Delivered(w)
    BY <1>1 DEF Answered, Quiets, Carries, InHand
  <2>2. k \in DOMAIN leased => leased[k].unit = InHand(w)
    BY DEF CalmStep, PInv, HandInv, HandOK, InHand
  <2>3. \/ /\ k \in DOMAIN leased /\ parked' = parked
           /\ completed' = Put(completed, k, [unit |-> leased[k].unit, status |-> wk[w].plan.status,
                                              category |-> wk[w].plan.category])
        \/ /\ k \in DOMAIN leased /\ completed' = completed
           /\ parked' = Put(parked, nextId, [unit |-> leased[k].unit,
                                             version |-> leased[k].version,
                                             reason |-> wk[w].plan.reason])
        \/ completed' = completed /\ parked' = parked
    BY <2>1 DEF Delivered, MarkComplete, StaleComplete, ReleaseLease, StaleRelease, dvars
  <2> HIDE DEF k
  <2>4. CASE /\ k \in DOMAIN leased /\ parked' = parked
             /\ completed' = Put(completed, k, [unit |-> leased[k].unit,
                                                status |-> wk[w].plan.status,
                                                category |-> wk[w].plan.category])
    BY <2>1, <2>2, <2>4 DEF Put
  <2>5. CASE /\ k \in DOMAIN leased /\ completed' = completed
             /\ parked' = Put(parked, nextId, [unit |-> leased[k].unit,
                                               version |-> leased[k].version,
                                               reason |-> wk[w].plan.reason])
    BY <2>1, <2>2, <2>5 DEF Put
  <2>6. QED BY <2>3, <2>4, <2>5
<1>2. ASSUME NEW w \in Workers, Acts(w), ~Answered(w) PROVE UNCHANGED <<completed, parked>>
  BY <1>2, CalmKindsOnly
     DEF CalmKinds, Quits, Finishes, Receives, TakeLease, Publishes, Works, Decides, Beats,
         RecordHeartbeat, dvars
<1>3. CASE Around
  BY <1>3 DEF Around, Enqueue, Tick, ReaperStep, ReaperReadsClock, ReaperLocks, ReapOne, Spare,
              ReaperUnlocks, dvars
<1>4. QED BY <1>1, <1>2, <1>3, CalmBefore

\* A unit that nobody has any more was let go of by the handler that was done with it.
LEMMA LetGo ==
  ASSUME CalmStep, NEW u, u # 0, ~Idle(u), Idle(u)'
  PROVE  \E w \in Workers :
           /\ InHand(w) = u /\ wk[w].pc = "mark"
           /\ runRow' = IF wk[w].plan.mark = "none" THEN runRow ELSE Marked(w)
<1>1. PICK w \in Workers : InHand(w) = u /\ InHand(w)' # u
  BY DEF Idle
<1>2. Holds(w)
  BY <1>1, HoldsInHand DEF CalmStep
<1>3. Acts(w)
  BY <1>1, CalmBefore DEF Acts, Around, InHand
<1>4. wk'[w].lease # wk[w].lease
  BY <1>1 DEF InHand
<1>5. Finishes(w) /\ runRow' = (IF wk[w].plan.mark = "none" THEN runRow ELSE Marked(w))
  BY <1>2, <1>3, <1>4, CalmKindsOnly
     DEF CalmKinds, Receives, Publishes, Works, Decides, Answered, Beats, Quiets, Carries, Holds
<1>6. QED BY <1>1, <1>5 DEF Finishes

LEMMA ModesStay == ASSUME CalmStep, NEW w \in Workers PROVE wk'[w].mode = wk[w].mode
<1>1. ASSUME Acts(w) PROVE wk'[w].mode = wk[w].mode
  BY <1>1, CalmKindsOnly
     DEF CalmKinds, Quits, Finishes, Receives, Publishes, Works, Decides, Answered, Beats, Quiets,
         Carries
<1>2. QED BY <1>1, CalmBefore DEF Acts, Around

LEMMA MatchStays == ASSUME CalmStep PROVE RunMatchesOutcome'
<1>1. /\ PInv /\ PoolTypeOK /\ [PoolNext]_vars /\ OnePlace /\ Lasting /\ TypeOK
      /\ \A w \in Workers : CalmHand(w) /\ wk[w] \in Worker
  BY CalmBefore DEF CalmStep, PInv, IInv, WorkersOK
<1>2. ASSUME NEW u \in DOMAIN runRow, Idle(u) PROVE runRow'[u] = runRow[u]
  BY <1>1, <1>2, RowsMove DEF Idle
<1>3. ASSUME NEW l \in DOMAIN completed', Idle(completed[l].unit)'
      PROVE  runRow'[completed'[l].unit] \in RowsFor(completed[l])'
  <2>1. l \in DOMAIN completed
    BY <1>3, RecordsAreOfHands DEF Idle
  <2>2. completed'[l] = completed[l]
    BY <1>1, <2>1 DEF Lasting
  <2> PICK u : u = completed[l].unit
    OBVIOUS
  <2>3. u \in UnitsOf(completed) /\ u # 0 /\ completed[l] \in CompletedRecord
    BY <1>1, <2>1 DEF UnitsOf, TypeOK, CompletedRecord, LeaseId
  <2>4. RowsFor(completed[l])' = RowsFor(completed[l])
    BY <2>2, ModesStay DEF RowsFor
  <2>5. CASE Idle(u)
    <3>1. u \in DOMAIN runRow
      BY <1>1, <2>3, UnitsKnown
    <3>2. runRow[u] \in RowsFor(completed[l])
      BY <2>1, <2>5, CalmBefore DEF RunMatchesOutcome
    <3>3. QED BY <1>2, <2>2, <2>4, <2>5, <3>1, <3>2
  <2>6. CASE ~Idle(u)
    <3>1. Idle(u)'
      BY <1>3, <2>2
    <3>2. PICK w \in Workers :
            /\ InHand(w) = u /\ wk[w].pc = "mark"
            /\ runRow' = IF wk[w].plan.mark = "none" THEN runRow ELSE Marked(w)
      BY <2>3, <2>6, <3>1, LetGo
    <3>3. Recorded(w) /\ TellsRow(w) /\ runRow[u] = "running"
      BY <1>1, <3>2 DEF CalmHand, Holds
    <3>4. u \notin UnitsOf(parked)
      BY <1>1, <2>3 DEF OnePlace
    <3> PICK k : k = wk[w].lease.id
      OBVIOUS
    <3>5. /\ k \in DOMAIN completed /\ wk[w].plan.verb = "complete"
          /\ completed[k] = [unit |-> u, status |-> wk[w].plan.status,
                             category |-> wk[w].plan.category]
      BY <3>2, <3>3, <3>4 DEF Recorded
    <3>6. k = l
      BY <1>1, <2>1, <3>5 DEF OnePlace, OncePerUnit
    <3>7. wk[w].plan.status = completed[l].status /\ wk[w].plan.category = completed[l].category
      BY <3>5, <3>6
    <3>8. /\ wk[w].plan.status \in Statuses /\ wk[w].plan.mark \in Statuses \cup {"none"}
          /\ u \in DOMAIN runRow
      BY <1>1, <2>3, UnitsKnown DEF Worker, Plan
    <3>9. runRow'[u] = IF wk[w].plan.mark = "none" THEN "running" ELSE wk[w].plan.mark
      BY <3>2, <3>3, <3>8 DEF Marked, InHand
    <3>10. (IF wk[w].plan.mark = "none" THEN "running" ELSE wk[w].plan.mark)
             \in RowsFor(completed[l])
      BY <3>3, <3>5, <3>7, <3>8 DEF TellsRow, Tells, RowsFor, LeftRunning, Statuses
    <3>11. QED BY <2>2, <2>4, <3>9, <3>10
  <2>7. QED BY <2>5, <2>6
<1>4. ASSUME NEW l \in DOMAIN parked', Idle(parked[l].unit)'
      PROVE  runRow'[parked'[l].unit] = "running"
  <2>1. l \in DOMAIN parked
    BY <1>4, RecordsAreOfHands DEF Idle
  <2>2. parked'[l] = parked[l]
    BY <1>1, <2>1 DEF Lasting
  <2> PICK u : u = parked[l].unit
    OBVIOUS
  <2>3. u \in UnitsOf(parked) /\ u # 0
    BY <1>1, <2>1 DEF UnitsOf, TypeOK, ParkedRecord, LeaseId
  <2>4. CASE Idle(u)
    <3>1. u \in DOMAIN runRow
      BY <1>1, <2>3, UnitsKnown
    <3>2. runRow[u] = "running"
      BY <2>1, <2>4, CalmBefore DEF RunMatchesOutcome
    <3>3. QED BY <1>2, <2>2, <2>4, <3>1, <3>2
  <2>5. CASE ~Idle(u)
    <3>1. Idle(u)'
      BY <1>4, <2>2
    <3>2. PICK w \in Workers :
            /\ InHand(w) = u /\ wk[w].pc = "mark"
            /\ runRow' = IF wk[w].plan.mark = "none" THEN runRow ELSE Marked(w)
      BY <2>3, <2>5, <3>1, LetGo
    <3>3. Recorded(w) /\ runRow[u] = "running"
      BY <1>1, <3>2 DEF CalmHand, Holds
    <3>4. u \notin UnitsOf(completed)
      BY <1>1, <2>3 DEF OnePlace
    <3>5. wk[w].plan.mark = "none"
      <4>1. ASSUME wk[w].lease.id \in DOMAIN completed,
                   completed[wk[w].lease.id] = [unit |-> InHand(w), status |-> wk[w].plan.status,
                                                category |-> wk[w].plan.category]
            PROVE  u \in UnitsOf(completed)
        BY <3>2, <4>1 DEF UnitsOf
      <4>2. QED BY <3>3, <3>4, <4>1 DEF Recorded
    <3>6. QED BY <2>2, <3>2, <3>3, <3>5
  <2>6. QED BY <2>4, <2>5
<1>5. QED BY <1>3, <1>4 DEF RunMatchesOutcome

LEMMA CalmStays == ASSUME CalmStep PROVE Calm'
<1>1. ~starved'
  BY CalmBefore
<1>2. \A w \in Workers : CalmHand(w)'
  BY CalmHands
<1>3. NoDanglingLease'
  BY NothingDangles
<1>4. \A u \in UnitsOf(pending)' : runRow'[u] = "queued"
  BY QueuedRows
<1>5. RunMatchesOutcome'
  BY MatchStays
<1>6. QED BY <1>1, <1>2, <1>3, <1>4, <1>5 DEF Calm

LEMMA InitRunsInv == PoolInit => RunsInv
<1> SUFFICES ASSUME PoolInit PROVE RunsInv
  OBVIOUS
<1>1. /\ pending = <<>> /\ DOMAIN leased = {} /\ DOMAIN completed = {} /\ DOMAIN parked = {}
      /\ DOMAIN runRow = {} /\ faults = 0 /\ starved = FALSE
  BY DEF PoolInit, DispatcherInit, Empty
<1>2. ASSUME NEW w \in Workers
      PROVE  /\ Shape(w) /\ Fed(w) /\ Reported(w) /\ CalmHand(w) /\ InHand(w) = 0
  <2>1. PICK m \in Modes : wk[w] = Fresh(m)
    BY DEF PoolInit
  <2>2. /\ wk[w].pc = "poll" /\ wk[w].lease = NoLease /\ wk[w].plan = Nothing
        /\ wk[w].tries = 0 /\ ~wk[w].draining
    BY <2>1 DEF Fresh
  <2>3. Shape(w)
    BY <1>1, <2>2 DEF Shape, Holds, Nothing
  <2>4. QED BY <2>2, <2>3 DEF Fed, Reported, CalmHand, Holds, InHand, NoLease
<1>3. UnitsOf(pending) = {} /\ UnitsOf(completed) = {}
  BY <1>1 DEF UnitsOf
<1>4. NoDoubleExecution /\ NoDanglingLease /\ RunMatchesOutcome /\ RunEndsAfterItsLease
  BY <1>1, <1>2 DEF NoDoubleExecution, NoDanglingLease, RunMatchesOutcome, RunEndsAfterItsLease
<1>5. QED BY <1>1, <1>2, <1>3, <1>4 DEF RunsInv, Hands, Beating, Calm

LEMMA NextRunsInv ==
  ASSUME PInv, PInv', PoolTypeOK, PoolTypeOK', RunsInv, [PoolNext]_vars PROVE RunsInv'
<1>1. Hands' /\ Beating' /\ RunEndsAfterItsLease'
  BY HandsKeep, BeatingStays, EndsStay DEF RunsInv
<1>2. Calm'
  <2>1. CASE faults' = 0
    BY <1>1, <2>1, CalmStays DEF CalmStep, RunsInv
  <2>2. CASE faults' # 0
    BY <2>2 DEF Calm
  <2>3. QED BY <2>1, <2>2
<1>3. QED BY <1>1, <1>2 DEF RunsInv

\* What workers hold, what beats they have out, how run rows follow the dispatcher and, before
\* the first fault, what a hand says of its row: in every state of the pool.
THEOREM RunsInvariance == PoolSpec => []RunsInv
<1>1. PoolInit => RunsInv
  BY InitRunsInv
<1>2. PInv /\ PInv' /\ PoolTypeOK /\ PoolTypeOK' /\ RunsInv /\ [PoolNext]_vars => RunsInv'
  BY NextRunsInv
<1>3. QED BY <1>1, <1>2, PoolInvariance, PoolTypeCorrect, PTL DEF PoolSpec

\* While the beats of the live workers get through, no item is in two workers' hands, however
\* many workers, crashes, drains and lost messages there are.
THEOREM NoItemTwice == PoolSpec => []NoDoubleExecution
<1>1. RunsInv => NoDoubleExecution
  BY DEF RunsInv, Beating, NoDoubleExecution
<1>2. QED BY <1>1, RunsInvariance, PTL

\* With fewer faults than attempts, a run is terminal only when its item is completed.
THEOREM RunsEndAfterLeases == PoolSpec => []RunEndsAfterItsLease
<1>1. RunsInv => RunEndsAfterItsLease
  BY DEF RunsInv
<1>2. QED BY <1>1, RunsInvariance, PTL

\* Without a fault, every path through the handler ends its lease.
THEOREM NoPathDangles == PoolSpec => []NoDanglingLease
<1>1. RunsInv => NoDanglingLease
  BY DEF RunsInv, Calm, NoDanglingLease
<1>2. QED BY <1>1, RunsInvariance, PTL

\* Without a fault, once the worker moved on, the run's row is exactly what RowsFor gives for
\* what the dispatcher recorded: that status, or "running" after the five failures whose paths
\* leave the row alone.
THEOREM RowsMatchOutcomes == PoolSpec => []RunMatchesOutcome
<1>1. RunsInv => RunMatchesOutcome
  BY DEF RunsInv, Calm, RunMatchesOutcome
<1>2. QED BY <1>1, RunsInvariance, PTL

================================================================================
