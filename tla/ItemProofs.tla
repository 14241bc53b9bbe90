------------------------------ MODULE ItemProofs ------------------------------
(***************************************************************************)
(* Proofs about Item, for any body, any records, any checkpoints copied and *)
(* any number of passes, pauses and faults.                                 *)
(*                                                                         *)
(* All of it rests on one fact: calls start in order in every pass, so the  *)
(* label a call gets is a function of its place in the body (Place), the    *)
(* same in the pass that records it and in the one that finds it.           *)
(***************************************************************************)
EXTENDS Item, TLAPS, FiniteSetTheorems, WellFoundedInduction

--------------------------------------------------------------------------------
(* The inductive invariant.                                                   *)

\* The label of call i, in every pass.
Place(i) == <<StepOf[i], Cardinality({j \in 1..i : StepOf[j] = StepOf[i]})>>

Started(i) == ~Is(i, "todo")
HasRow(i) == Is(i, "hit") \/ Is(i, "executed")
Known == rows \cup late \cup pass.cache

\* The calls of a step that have started.
StartedOf(calls, s) == {j \in Calls : StepOf[j] = s /\ calls[j].kind # "todo"}

\* Calls start in order, and are counted by their steps.
InOrder ==
  /\ \A i \in Calls : Started(i) => \A j \in 1..(i - 1) : Started(j)
  /\ \A s \in Steps : pass.occurrences[s] = Cardinality(StartedOf(pass.call, s))
  /\ \A i \in Calls : Is(i, "running") => pass.label[i] = Place(i)

\* A row is a copied one, or what some call recorded under its own label.
Stems(r) ==
  IF r.copied THEN r.attempt = 1 /\ r.at = 0
  ELSE /\ r.attempt >= 1 /\ r.at >= 1
       /\ \E i \in Calls : r.label = Place(i) /\ r.record = RecordOf[i]

Bounded(r) == r.attempt <= clock + 1 /\ r.at <= clock /\ r.era <= pauses

\* What is recorded after the last pause is a later attempt than any that was counted.
Newer(r) ==
  ~r.copied /\ r.era = pauses =>
    \A pair \in invalidated : pair[1] = r.label => pair[2] < r.attempt

RowsStem ==
  /\ \A r \in Known : Stems(r) /\ Bounded(r) /\ Newer(r)
  /\ seen \subseteq rows /\ pass.reuse \subseteq seen
  /\ \A r \in pass.reuse : r.copied
  /\ \A pair \in invalidated : \E r \in rows : pair = <<r.label, r.attempt>>

Untouched(l) == \A i \in Calls : Place(i) = l => ~Started(i)

\* The attempts of a pass are at least those it loaded and, of a label it has not come to,
\* no more than the server knows.
AttemptsFollow ==
  /\ pass.live => \A r \in seen : r.attempt <= pass.attempts[r.label]
  /\ \A l \in Labels :
       /\ pass.attempts[l] <= clock + 1
       /\ Untouched(l) /\ pass.attempts[l] # 0 =>
            \E r \in rows : r.label = l /\ pass.attempts[l] <= r.attempt

\* A pass that began after the last pause knows what was counted: it holds none of it, and
\* holds of each label it has not come to what was recorded since.
PauseKnown ==
  /\ pass.era <= pauses
  /\ pass.live => \A r \in seen : r.era <= pass.era
  /\ pass.live /\ status = "running" => pass.era = pauses
  /\ pass.live /\ pass.era = pauses =>
       /\ \A pair \in invalidated : pair[2] <= pass.attempts[pair[1]]
       /\ \A r \in pass.cache \cup pass.reuse : ~Counted(r)
       /\ \A i \in Calls : HasRow(i) => ~Counted(pass.call[i].row)
       /\ \A r \in seen : ~r.copied /\ r.era = pauses /\ Untouched(r.label) =>
            \E q \in pass.cache : q.label = r.label /\ ~q.copied

Recorded(r) == \E q \in rows \cup late : Token(q) = Token(r)

\* Until an exception leaves the body, all that the pass holds was recorded.
HeldIsRecorded ==
  /\ pass.raised = "no" =>
       /\ \A r \in pass.cache : Recorded(r)
       /\ \A i \in Calls : HasRow(i) => Recorded(pass.call[i].row)
  /\ status = "completed" =>
       /\ pass.raised = "no" /\ ~pass.live
       /\ \A i \in Calls : HasRow(i) => ~Counted(pass.call[i].row)

IInv ==
  /\ ItemTypeOK /\ InOrder /\ RowsStem /\ AttemptsFollow /\ PauseKnown /\ HeldIsRecorded
  /\ HitIsTheSameWork

USE ItemAssumption

--------------------------------------------------------------------------------
(* Numbers and labels.                                                        *)

LEMMA BoundedSetHasMax ==
  ASSUME NEW S \in SUBSET Nat, S # {}, NEW n \in Nat, \A x \in S : x <= n
  PROVE  \E m \in S : \A x \in S : m >= x
<1> DEFINE T == {k \in Nat : \A x \in S : x <= k}
           U == {0..k : k \in T}
<1>1. n \in T
  OBVIOUS
<1>2. U \subseteq FiniteSubsetsOf(Nat) /\ U # {}
  <2>1. ASSUME NEW k \in T PROVE 0..k \in FiniteSubsetsOf(Nat)
    <3>1. k \in Int /\ 0 \in Int /\ 0..k \in SUBSET Nat
      OBVIOUS
    <3>2. IsFiniteSet(0..k)
      BY <3>1, FS_Interval
    <3>3. QED BY <3>1, <3>2 DEF FiniteSubsetsOf
  <2>2. QED BY <1>1, <2>1
<1>3. PICK u \in U : \A v \in U : ~(<<v, u>> \in StrictSubsetOrdering(Nat))
  <2>1. IsWellFoundedOn(StrictSubsetOrdering(Nat), FiniteSubsetsOf(Nat))
    BY FS_StrictSubsetOrderingWellFounded
  <2>2. QED BY <1>2, <2>1, WFMin
<1>4. PICK m \in T : u = 0..m
  OBVIOUS
<1>5. ASSUME NEW k \in T, k < m PROVE FALSE
  <2>1. 0..k \subseteq 0..m /\ m \in 0..m /\ m \notin 0..k
    BY <1>5
  <2>2. <<0..k, u>> \in StrictSubsetOrdering(Nat)
    BY <1>4, <2>1 DEF StrictSubsetOrdering
  <2>3. QED BY <1>3, <2>2
<1>6. m \in S
  <2>1. SUFFICES ASSUME m \notin S PROVE FALSE
    OBVIOUS
  <2>2. m # 0
    <3>1. PICK x \in S : x <= m
      OBVIOUS
    <3>2. QED BY <2>1, <3>1
  <2>3. m - 1 \in T
    BY <2>1, <2>2
  <2>4. m - 1 < m
    OBVIOUS
  <2>5. QED BY <1>5, <2>3, <2>4
<1>7. QED BY <1>6

\* Top is the highest attempt there is for a label, and 0 when there is none.
LEMMA TopIsHighest ==
  ASSUME NEW rs \in SUBSET Row, NEW n \in Nat, \A r \in rs : r.attempt <= n, NEW l
  PROVE  /\ Top(rs, l) \in Nat /\ Top(rs, l) <= n
         /\ \A r \in rs : r.label = l => r.attempt <= Top(rs, l)
         /\ Top(rs, l) # 0 => \E r \in rs : r.label = l /\ r.attempt = Top(rs, l)
<1> DEFINE S == {0} \cup {r.attempt : r \in {q \in rs : q.label = l}}
<1>1. S \in SUBSET Nat /\ S # {} /\ \A x \in S : x <= n
  BY DEF Row
<1>2. PICK m \in S : \A x \in S : m >= x
  BY <1>1, BoundedSetHasMax
<1>3. Max(S) \in S /\ \A x \in S : Max(S) >= x
  BY <1>2 DEF Max
<1>4. Top(rs, l) = Max(S)
  BY DEF Top
<1>5. \A r \in rs : r.label = l => r.attempt \in S
  OBVIOUS
<1>6. QED BY <1>1, <1>3, <1>4, <1>5 DEF Row

\* The calls of i's step up to i.
Fellows(i) == {j \in 1..i : StepOf[j] = StepOf[i]}

LEMMA FellowsCounted ==
  ASSUME NEW i \in Calls
  PROVE  /\ IsFiniteSet(Fellows(i)) /\ Cardinality(Fellows(i)) \in Calls
         /\ Place(i) = <<StepOf[i], Cardinality(Fellows(i))>>
<1>1. i \in Nat \ {0} /\ i <= NumCalls
  BY DEF Calls
<1>2. IsFiniteSet(1..i) /\ Cardinality(1..i) = i
  BY <1>1, FS_Interval
<1>3. Fellows(i) \in SUBSET (1..i) /\ i \in Fellows(i)
  BY <1>1 DEF Fellows
<1>4. IsFiniteSet(Fellows(i)) /\ Cardinality(Fellows(i)) <= i
  BY <1>2, <1>3, FS_Subset
<1>5. Cardinality(Fellows(i)) \in Nat /\ Cardinality(Fellows(i)) # 0
  BY <1>3, <1>4, FS_CardinalityType, FS_EmptySet
<1>6. Cardinality(Fellows(i)) \in Calls
  BY <1>1, <1>4, <1>5 DEF Calls
<1>7. QED BY <1>4, <1>6 DEF Place, Fellows

LEMMA PlaceIsLabel ==
  ASSUME NEW i \in Calls PROVE Place(i) \in Labels /\ Place(i)[1] = StepOf[i]
BY FellowsCounted DEF Labels, Steps

\* No two calls have one label.
LEMMA PlaceInjective ==
  ASSUME NEW i \in Calls, NEW j \in Calls, Place(i) = Place(j)
  PROVE  i = j
<1>1. ASSUME NEW a \in Calls, NEW b \in Calls, a < b, Place(a) = Place(b) PROVE FALSE
  <2>1. StepOf[a] = StepOf[b] /\ Cardinality(Fellows(a)) = Cardinality(Fellows(b))
    BY <1>1, FellowsCounted
  <2>2. Fellows(a) \in SUBSET Fellows(b)
    BY <1>1, <2>1 DEF Fellows, Calls
  <2>3. Fellows(a) = Fellows(b)
    BY <2>1, <2>2, FellowsCounted, FS_Subset
  <2>4. b \in Fellows(b) /\ b \notin Fellows(a)
    BY <1>1 DEF Fellows, Calls
  <2>5. QED BY <2>3, <2>4
<1>2. i \in Int /\ j \in Int
  BY DEF Calls
<1>3. QED BY <1>1, <1>2

\* The label that a call is given is the one of its place.
LEMMA NextLabelIsPlace ==
  ASSUME InOrder, ItemTypeOK, NEW i \in Calls, Reaches(i)
  PROVE  NextLabel(i) = Place(i)
<1> DEFINE S == StartedOf(pass.call, StepOf[i])
<1>1. S \subseteq Calls /\ \A j \in Calls : j \in S <=> StepOf[j] = StepOf[i] /\ Started(j)
  BY DEF StartedOf, Started, Is
<1>2. \A j \in Calls : Started(j) <=> j < i
  BY DEF Reaches, InOrder, Started, Is, Calls
<1>3. Fellows(i) = S \cup {i} /\ i \notin S
  BY <1>1, <1>2 DEF Fellows, Calls
<1>4. IsFiniteSet(Calls)
  BY FS_Interval DEF Calls
<1>5. IsFiniteSet(S)
  BY <1>1, <1>4, FS_Subset
<1>6. Cardinality(Fellows(i)) = Cardinality(S) + 1
  BY <1>3, <1>5, FS_AddElement
<1>7. StepOf[i] \in Steps
  BY DEF Steps
<1>8. pass.occurrences[StepOf[i]] = Cardinality(S)
  BY <1>7 DEF InOrder
<1>9. QED BY <1>6, <1>8, FellowsCounted DEF NextLabel

\* Of every label that has a row there is a latest row.
LEMMA LatestExists ==
  ASSUME NEW rs \in SUBSET Row, NEW n \in Nat, \A r \in rs : r.attempt <= n /\ r.at <= n,
         NEW r \in rs
  PROVE  \E q \in LatestPerLabel(rs) : q.label = r.label /\ Later(q, r)
<1> DEFINE Of == {q \in rs : q.label = r.label}
           S == {q.attempt : q \in Of}
<1>1. S \in SUBSET Nat /\ S # {} /\ \A x \in S : x <= n
  BY DEF Row
<1>2. PICK m \in S : \A x \in S : m >= x
  BY <1>1, BoundedSetHasMax
<1> DEFINE T == {q.at : q \in {p \in Of : p.attempt = m}}
<1>3. T \in SUBSET Nat /\ T # {} /\ \A x \in T : x <= n
  BY DEF Row
<1>4. PICK t \in T : \A x \in T : t >= x
  BY <1>3, BoundedSetHasMax
<1>5. PICK q \in Of : q.attempt = m /\ q.at = t
  OBVIOUS
<1>6. ASSUME NEW p \in Of PROVE Later(q, p)
  <2>1. m >= p.attempt /\ p.attempt \in Nat /\ q.attempt \in Nat
    BY <1>2 DEF Row
  <2>2. p.attempt = m => t >= p.at
    BY <1>4
  <2>3. QED BY <1>5, <2>1, <2>2 DEF Later
<1>7. q \in LatestPerLabel(rs)
  BY <1>5, <1>6 DEF LatestPerLabel
<1>8. QED BY <1>5, <1>6, <1>7

--------------------------------------------------------------------------------
(* What the conjuncts of the invariant depend on.                             *)

LEMMA CallTyped ==
  ASSUME NEW c \in Call
  PROVE  /\ c.kind \in {"todo", "running", "raised", "hit", "executed"}
         /\ c.kind \in {"hit", "executed"} => c.row \in Row
         /\ "row" \in DOMAIN c <=> c.kind \in {"hit", "executed"}
<1>1. CASE c \in [kind : {"todo", "running", "raised"}]
  <2>1. c = [kind |-> c.kind] /\ c.kind \in {"todo", "running", "raised"}
    BY <1>1
  <2>2. DOMAIN c = {"kind"}
    BY <2>1
  <2>3. QED BY <2>1, <2>2
<1>2. CASE c \in [kind : {"hit", "executed"}, row : Row]
  <2>1. c = [kind |-> c.kind, row |-> c.row] /\ c.kind \in {"hit", "executed"} /\ c.row \in Row
    BY <1>2
  <2>2. DOMAIN c = {"kind", "row"}
    BY <2>1
  <2>3. QED BY <2>1, <2>2
<1>3. QED BY <1>1, <1>2 DEF Call

LEMMA CallsTyped ==
  ASSUME NEW r \in Row
  PROVE  /\ Pending \in Call /\ Running \in Call /\ Raised \in Call
         /\ Result("hit", r) \in Call /\ Result("executed", r) \in Call
         /\ Pending.kind = "todo" /\ Running.kind = "running" /\ Raised.kind = "raised"
         /\ \A k : Result(k, r).kind = k /\ Result(k, r).row = r
BY DEF Pending, Running, Raised, Result, Call

LEMMA NoPassTyped ==
  /\ NoPass \in Pass
  /\ ~NoPass.live /\ NoPass.era = 0 /\ NoPass.cache = {} /\ NoPass.reuse = {}
  /\ NoPass.raised = "no" /\ \A i \in Calls : NoPass.call[i].kind = "todo"
  /\ \A l \in Labels : NoPass.attempts[l] = 0
  /\ \A s \in Steps : NoPass.occurrences[s] = 0
<1>1. Pending \in Call /\ Pending.kind = "todo"
  BY DEF Pending, Call
<1>2. \A i \in Calls : <<StepOf[i], 1>> \in Labels
  BY DEF Labels, Steps, Calls
<1>3. [i \in Calls |-> Pending] \in [Calls -> Call]
  BY <1>1
<1>4. [i \in Calls |-> <<StepOf[i], 1>>] \in [Calls -> Labels]
  BY <1>2
<1>5. [l \in Labels |-> 0] \in [Labels -> Nat] /\ [s \in Steps |-> 0] \in [Steps -> Nat]
  OBVIOUS
<1>6. NoPass \in Pass
  BY <1>3, <1>4, <1>5 DEF NoPass, Pass
<1>7. QED BY <1>1, <1>6 DEF NoPass

LEMMA OrderKept ==
  ASSUME InOrder, pass'.call = pass.call, pass'.occurrences = pass.occurrences,
         pass'.label = pass.label
  PROVE  InOrder'
BY DEF InOrder, Started, Is

\* Of a pass that has not started a call.
LEMMA OrderAtStart ==
  ASSUME \A i \in Calls : pass'.call[i].kind = "todo",
         \A s \in Steps : pass'.occurrences[s] = 0
  PROVE  InOrder'
<1>1. ASSUME NEW s \in Steps PROVE Cardinality(StartedOf(pass'.call, s)) = 0
  <2>1. StartedOf(pass'.call, s) = {}
    BY DEF StartedOf
  <2>2. QED BY <2>1, FS_EmptySet
<1>2. QED BY <1>1 DEF InOrder, Started, Is

\* A call that starts is given its place.
LEMMA OrderAdvances ==
  ASSUME InOrder, ItemTypeOK, NEW i \in Calls, Reaches(i), NEW c \in Call,
         c.kind # "todo", pass'.call = [pass.call EXCEPT ![i] = c],
         pass'.occurrences = Occurs(i),
         pass'.label = pass.label \/ pass'.label = [pass.label EXCEPT ![i] = NextLabel(i)],
         c.kind = "running" => pass'.label[i] = NextLabel(i)
  PROVE  InOrder'
<1>1. pass.call \in [Calls -> Call] /\ pass.occurrences \in [Steps -> Nat]
      /\ pass.label \in [Calls -> Labels]
  BY DEF ItemTypeOK, Pass
<1>2. /\ pass'.call[i] = c
      /\ \A j \in Calls : j # i => pass'.call[j] = pass.call[j] /\ pass'.label[j] = pass.label[j]
  BY <1>1
<1>3. \A j \in 1..(i - 1) : j \in Calls /\ Started(j) /\ j # i
  BY DEF Reaches, Started, Calls
<1>4. \A j \in Calls : Started(j)' => \A k \in 1..(j - 1) : Started(k)'
  <2>1. SUFFICES ASSUME NEW j \in Calls, Started(j)', NEW k \in 1..(j - 1) PROVE Started(k)'
    OBVIOUS
  <2>2. k \in Calls /\ i \in Int /\ j \in Int
    BY DEF Calls
  <2>3. Started(k) => Started(k)'
    BY <1>2, <2>2 DEF Started, Is
  <2>4. CASE j = i
    BY <1>3, <2>3, <2>4
  <2>5. CASE j # i
    <3>1. Started(j)
      BY <1>2, <2>1, <2>5 DEF Started, Is
    <3>2. QED BY <2>3, <3>1 DEF InOrder
  <2>6. QED BY <2>4, <2>5
<1>5. ASSUME NEW s \in Steps
      PROVE  pass'.occurrences[s] = Cardinality(StartedOf(pass'.call, s))
  <2>1. pass.occurrences[s] = Cardinality(StartedOf(pass.call, s))
    BY DEF InOrder
  <2>2. CASE s # StepOf[i]
    <3>1. StartedOf(pass'.call, s) = StartedOf(pass.call, s)
      BY <1>2, <2>2 DEF StartedOf
    <3>2. pass'.occurrences[s] = pass.occurrences[s]
      BY <1>1, <2>2 DEF Occurs
    <3>3. QED BY <2>1, <3>1, <3>2
  <2>3. CASE s = StepOf[i]
    <3>1. /\ StartedOf(pass'.call, s) = StartedOf(pass.call, s) \cup {i}
          /\ i \notin StartedOf(pass.call, s)
      BY <1>2, <2>3 DEF StartedOf, Reaches, Is
    <3>2. IsFiniteSet(Calls)
      BY FS_Interval DEF Calls
    <3>3. IsFiniteSet(StartedOf(pass.call, s))
      BY <3>2, FS_Subset DEF StartedOf
    <3>4. Cardinality(StartedOf(pass'.call, s)) = Cardinality(StartedOf(pass.call, s)) + 1
      BY <3>1, <3>3, FS_AddElement
    <3>5. pass'.occurrences[s] = pass.occurrences[s] + 1
      BY <1>1, <2>3 DEF Occurs
    <3>6. QED BY <2>1, <3>4, <3>5
  <2>4. QED BY <2>2, <2>3
<1>6. ASSUME NEW j \in Calls, Is(j, "running")' PROVE pass'.label[j] = Place(j)
  <2>1. CASE j = i
    BY <1>2, <1>6, <2>1, NextLabelIsPlace DEF Is
  <2>2. CASE j # i
    BY <1>2, <1>6, <2>2 DEF InOrder, Is
  <2>3. QED BY <2>1, <2>2
<1>7. QED BY <1>4, <1>5, <1>6 DEF InOrder

\* A call that comes back changes nothing of that.
LEMMA OrderReturns ==
  ASSUME InOrder, ItemTypeOK, NEW i \in Calls, Started(i), NEW c \in Call,
         c.kind \notin {"todo", "running"}, pass'.call = [pass.call EXCEPT ![i] = c],
         pass'.occurrences = pass.occurrences, pass'.label = pass.label
  PROVE  InOrder'
<1>1. pass.call \in [Calls -> Call]
  BY DEF ItemTypeOK, Pass
<1>2. /\ pass'.call[i] = c
      /\ \A j \in Calls : j # i => pass'.call[j] = pass.call[j]
  BY <1>1
<1>3. \A j \in Calls : Started(j)' <=> Started(j)
  BY <1>2 DEF Started, Is
<1>4. ASSUME NEW s \in Steps PROVE StartedOf(pass'.call, s) = StartedOf(pass.call, s)
  BY <1>3 DEF StartedOf, Started, Is
<1>5. \A j \in Calls : Is(j, "running")' => Is(j, "running")
  BY <1>2 DEF Is
<1>6. \A j \in Calls : \A k \in 1..(j - 1) : k \in Calls
  BY DEF Calls
<1>7. QED BY <1>3, <1>4, <1>5, <1>6 DEF InOrder

LEMMA StemKept ==
  ASSUME RowsStem, UNCHANGED <<rows, late, invalidated, pauses, seen, clock>>,
         pass'.cache = pass.cache, pass'.reuse = pass.reuse
  PROVE  RowsStem'
BY DEF RowsStem, Known, Stems, Bounded, Newer

\* One row more, and perhaps a pause with it.
LEMMA StemGrows ==
  ASSUME ItemTypeOK, RowsStem, NEW r \in Row, Stems(r), Newer(r), r.era <= pauses,
         clock' \in {clock, clock + 1}, r.attempt <= clock' + 1, r.at <= clock',
         Known' \subseteq Known \cup {r}, rows \subseteq rows', seen' = seen,
         pass'.reuse = pass.reuse,
         \/ UNCHANGED <<invalidated, pauses>>
         \/ /\ pauses' = pauses + 1
            /\ \A pair \in invalidated' : \E q \in rows' : pair = <<q.label, q.attempt>>
  PROVE  RowsStem'
<1>1. Known \subseteq Row /\ clock \in Nat /\ pauses \in Nat
  BY DEF ItemTypeOK, Known, Pass
<1>2. ASSUME NEW q \in Known' PROVE Stems(q) /\ Bounded(q)' /\ Newer(q)'
  <2>1. /\ q \in Row /\ Stems(q) /\ q.era <= pauses /\ Newer(q)
        /\ q.attempt <= clock' + 1 /\ q.at <= clock'
    <3>1. CASE q = r
      BY <3>1
    <3>2. CASE q \in Known
      BY <1>1, <3>2 DEF RowsStem, Bounded, Row
    <3>3. QED BY <3>1, <3>2
  <2>2. q.era \in Nat
    BY <2>1 DEF Row
  <2>3. CASE UNCHANGED <<invalidated, pauses>>
    BY <2>1, <2>3 DEF Bounded, Newer
  <2>4. CASE pauses' = pauses + 1
    BY <1>1, <2>1, <2>2, <2>4 DEF Bounded, Newer
  <2>5. QED BY <2>1, <2>3, <2>4
<1>3. seen' \subseteq rows' /\ pass'.reuse \subseteq seen' /\ \A q \in pass'.reuse : q.copied
  BY DEF RowsStem
<1>4. \A pair \in invalidated' : \E q \in rows' : pair = <<q.label, q.attempt>>
  BY DEF RowsStem
<1>5. \A q \in Known' : Stems(q)'
  BY <1>2 DEF Stems
<1>6. QED BY <1>2, <1>3, <1>4, <1>5 DEF RowsStem

LEMMA AttemptsKept ==
  ASSUME ItemTypeOK, AttemptsFollow, seen' = seen, pass'.attempts = pass.attempts,
         pass'.live => pass.live, clock' \in {clock, clock + 1}, rows \subseteq rows',
         \A i \in Calls : Started(i) => Started(i)'
  PROVE  AttemptsFollow'
<1>1. clock \in Nat /\ pass.attempts \in [Labels -> Nat]
  BY DEF ItemTypeOK, Pass
<1>2. ASSUME NEW l \in Labels
      PROVE  /\ pass'.attempts[l] <= clock' + 1
             /\ Untouched(l)' /\ pass'.attempts[l] # 0 =>
                  \E r \in rows' : r.label = l /\ pass'.attempts[l] <= r.attempt
  <2>1. Untouched(l)' => Untouched(l)
    BY DEF Untouched, Started, Is
  <2>2. pass.attempts[l] \in Nat
    BY <1>1
  <2>3. QED BY <1>1, <2>1, <2>2 DEF AttemptsFollow
<1>3. QED BY <1>2 DEF AttemptsFollow

\* An execution of a label takes its attempts one further.
LEMMA AttemptsAdvance ==
  ASSUME ItemTypeOK, AttemptsFollow, NEW i \in Calls, Started(i), seen \subseteq Row,
         seen' = seen, pass'.live => pass.live, clock' = clock + 1, rows \subseteq rows',
         pass'.attempts = [pass.attempts EXCEPT ![Place(i)] = @ + 1],
         \A j \in Calls : Started(j) => Started(j)'
  PROVE  AttemptsFollow'
<1>1. clock \in Nat /\ pass.attempts \in [Labels -> Nat] /\ Place(i) \in Labels
  BY PlaceIsLabel DEF ItemTypeOK, Pass
<1>2. \A l \in Labels : pass'.attempts[l] =
         IF l = Place(i) THEN pass.attempts[l] + 1 ELSE pass.attempts[l]
  BY <1>1
<1>3. ASSUME NEW l \in Labels
      PROVE  /\ pass'.attempts[l] <= clock' + 1
             /\ Untouched(l)' /\ pass'.attempts[l] # 0 =>
                  \E r \in rows' : r.label = l /\ pass'.attempts[l] <= r.attempt
  <2>1. Untouched(l)' => Untouched(l) /\ l # Place(i)
    BY DEF Untouched, Started, Is
  <2>2. pass.attempts[l] \in Nat /\ pass.attempts[l] <= clock + 1
    BY <1>1 DEF AttemptsFollow
  <2>3. QED BY <1>1, <1>2, <2>1, <2>2 DEF AttemptsFollow
<1>4. ASSUME pass'.live, NEW r \in seen' PROVE r.attempt <= pass'.attempts[r.label]
  <2>1. r \in seen /\ pass.live /\ r.label \in Labels /\ r.attempt \in Nat
    BY <1>4 DEF Row
  <2>2. r.attempt <= pass.attempts[r.label] /\ pass.attempts[r.label] \in Nat
    BY <1>1, <2>1 DEF AttemptsFollow
  <2>3. QED BY <1>2, <2>1, <2>2
<1>5. QED BY <1>3, <1>4 DEF AttemptsFollow

LEMMA PauseKept ==
  ASSUME PauseKnown, UNCHANGED <<invalidated, pauses, seen>>, pass'.era = pass.era,
         pass'.cache = pass.cache, pass'.reuse = pass.reuse, pass'.attempts = pass.attempts,
         pass'.live => pass.live, pass'.live /\ status' = "running" => status = "running",
         \A i \in Calls : Started(i) => Started(i)',
         \A i \in Calls : HasRow(i)' =>
           \/ HasRow(i) /\ pass'.call[i] = pass.call[i]
           \/ pass.live /\ pass.era = pauses => ~Counted(pass'.call[i].row)
  PROVE  PauseKnown'
<1>1. \A l : Untouched(l)' => Untouched(l)
  BY DEF Untouched
<1>2. pass'.era <= pauses' /\ (pass'.live /\ status' = "running" => pass'.era = pauses')
  BY DEF PauseKnown
<1>3. SUFFICES ASSUME pass'.live, pass'.era = pauses'
      PROVE /\ \A pair \in invalidated' : pair[2] <= pass'.attempts[pair[1]]
            /\ \A r \in pass'.cache \cup pass'.reuse : ~Counted(r)'
            /\ \A i \in Calls : HasRow(i)' => ~Counted(pass.call[i].row)'
            /\ \A r \in seen' : ~r.copied /\ r.era = pauses' /\ Untouched(r.label)' =>
                 \E q \in pass'.cache : q.label = r.label /\ ~q.copied
  BY <1>2 DEF PauseKnown
<1>4. pass.live /\ pass.era = pauses
  BY <1>3
<1>5. \A r : Counted(r)' <=> Counted(r)
  BY DEF Counted
<1>6. \A i \in Calls : HasRow(i)' => ~Counted(pass.call[i].row)'
  BY <1>4, <1>5 DEF PauseKnown
<1>7. QED BY <1>1, <1>4, <1>5, <1>6 DEF PauseKnown

LEMMA HeldKept ==
  ASSUME HeldIsRecorded, pass'.raised = "no" => pass.raised = "no", pass'.cache = pass.cache,
         \A r \in Row : Recorded(r) => Recorded(r)', pass.cache \subseteq Row,
         \A i \in Calls : HasRow(i)' => pass'.call[i].row \in Row,
         \A i \in Calls : HasRow(i)' =>
           \/ HasRow(i) /\ pass'.call[i] = pass.call[i]
           \/ pass.raised = "no" => Recorded(pass'.call[i].row),
         status' # "completed"
  PROVE  HeldIsRecorded'
BY DEF HeldIsRecorded

--------------------------------------------------------------------------------
(* Steps that record nothing.                                                 *)

LEMMA InitIInv == ItemInit => IInv
<1> SUFFICES ASSUME ItemInit PROVE IInv
  OBVIOUS
<1>1. ASSUME NEW c \in Copied
      PROVE  /\ CopiedRow(c) \in Row /\ CopiedRow(c).copied /\ CopiedRow(c).attempt = 1
             /\ CopiedRow(c).at = 0 /\ CopiedRow(c).era = 0
  <2>1. c[1] \in Labels /\ c[2] \in Records
    OBVIOUS
  <2>2. QED BY <2>1 DEF CopiedRow, Row
<1>2. rows \subseteq Row /\ \A r \in rows : r.copied /\ r.attempt = 1 /\ r.at = 0 /\ r.era = 0
  BY <1>1 DEF ItemInit
<1>3. pass = NoPass /\ late = {} /\ seen = {} /\ status = "running" /\ invalidated = {}
      /\ pauses = 0 /\ clock = 0 /\ faults = 0
  BY DEF ItemInit
<1>4. ItemTypeOK
  BY <1>2, <1>3, NoPassTyped DEF ItemTypeOK
<1>5. InOrder
  <2>1. ASSUME NEW s \in Steps PROVE Cardinality(StartedOf(pass.call, s)) = 0
    <3>1. StartedOf(pass.call, s) = {}
      BY <1>3, NoPassTyped DEF StartedOf
    <3>2. QED BY <3>1, FS_EmptySet
  <2>2. QED BY <1>3, <2>1, NoPassTyped DEF InOrder, Started, Is
<1>6. RowsStem
  BY <1>2, <1>3, NoPassTyped DEF RowsStem, Known, Stems, Bounded, Newer
<1>7. AttemptsFollow
  BY <1>3, NoPassTyped DEF AttemptsFollow
<1>8. PauseKnown /\ HeldIsRecorded /\ HitIsTheSameWork
  BY <1>3, NoPassTyped DEF PauseKnown, HeldIsRecorded, HitIsTheSameWork, HasRow, Is
<1>9. QED BY <1>4, <1>5, <1>6, <1>7, <1>8 DEF IInv

LEMMA StoppedStep ==
  ASSUME IInv, NEW i \in Calls, StoppedByFence(i) PROVE IInv'
<1> USE DEF IInv
<1>1. pass \in Pass /\ pass' = [pass EXCEPT !.raised = "released"]
      /\ UNCHANGED <<rows, late, status, invalidated, pauses, seen, clock, faults>>
      /\ pass.live
  BY DEF StoppedByFence, Reaches, NoFault, ItemTypeOK
<1>2. pass' \in Pass /\ pass'.raised = "released"
      /\ pass'.live = pass.live /\ pass'.era = pass.era /\ pass'.cache = pass.cache
      /\ pass'.reuse = pass.reuse /\ pass'.attempts = pass.attempts
      /\ pass'.occurrences = pass.occurrences /\ pass'.call = pass.call
      /\ pass'.label = pass.label
  BY <1>1 DEF Pass
<1>3. ItemTypeOK'
  BY <1>1, <1>2 DEF ItemTypeOK
<1>4. InOrder' /\ RowsStem'
  BY <1>1, <1>2, OrderKept, StemKept
<1>5. \A j \in Calls : (Started(j)' <=> Started(j)) /\ (HasRow(j)' <=> HasRow(j))
  BY <1>2 DEF Started, HasRow, Is
<1>6. AttemptsFollow' /\ PauseKnown'
  BY <1>1, <1>2, <1>5, AttemptsKept, PauseKept
<1>7. status # "completed"
  BY <1>1 DEF HeldIsRecorded
<1>8. HeldIsRecorded' /\ HitIsTheSameWork'
  BY <1>1, <1>2, <1>7 DEF HeldIsRecorded, HitIsTheSameWork, Is
<1>9. QED BY <1>3, <1>4, <1>6, <1>8

\* What is found for a call is a row of its own step on its own record.
LEMMA FoundIsTheSameWork ==
  ASSUME IInv, NEW i \in Calls, Reaches(i), NEW r \in Found(i)
  PROVE  /\ r \in pass.cache \cup pass.reuse /\ r \in Row
         /\ r.label[1] = StepOf[i] /\ r.record = RecordOf[i]
<1>1. pass.cache \subseteq Row /\ pass.reuse \subseteq Row
  BY DEF IInv, ItemTypeOK, Pass
<1>2. CASE r \in ByRecord(i)
  BY <1>1, <1>2 DEF ByRecord
<1>3. CASE r \in ByPosition(i)
  <2>1. r \in pass.cache /\ ~r.copied /\ r.label = Place(i)
    BY <1>3, NextLabelIsPlace DEF ByPosition, IInv
  <2>2. PICK k \in Calls : r.label = Place(k) /\ r.record = RecordOf[k]
    BY <2>1 DEF IInv, RowsStem, Known, Stems
  <2>3. k = i
    BY <2>1, <2>2, PlaceInjective
  <2>4. QED BY <1>1, <2>1, <2>2, <2>3, PlaceIsLabel
<1>4. QED BY <1>2, <1>3 DEF Found

LEMMA HitStep ==
  ASSUME IInv, NEW i \in Calls, Hit(i) PROVE IInv'
<1> USE DEF IInv
<1>1. PICK r \in Found(i) :
        pass' = [pass EXCEPT !.call[i] = Result("hit", r), !.occurrences = Occurs(i)]
  BY DEF Hit
<1>2. pass \in Pass /\ pass.live /\ Reaches(i)
      /\ UNCHANGED <<rows, late, status, invalidated, pauses, seen, clock, faults>>
  BY DEF Hit, Reaches, NoFault, ItemTypeOK
<1>3. /\ r \in pass.cache \cup pass.reuse /\ r \in Row
      /\ r.label[1] = StepOf[i] /\ r.record = RecordOf[i]
  BY <1>2, FoundIsTheSameWork
<1> DEFINE c == Result("hit", r)
<1>4. c \in Call /\ c.kind = "hit" /\ c.row = r
  BY <1>3, CallsTyped
<1>5. Occurs(i) \in [Steps -> Nat]
  <2>1. pass.occurrences \in [Steps -> Nat] /\ StepOf[i] \in Steps
    BY <1>2 DEF Pass, Steps
  <2>2. QED BY <2>1 DEF Occurs
<1> HIDE DEF c
<1>6. pass' = [pass EXCEPT !.call = [pass.call EXCEPT ![i] = c], !.occurrences = Occurs(i)]
  BY <1>1 DEF c
<1>7. [pass.call EXCEPT ![i] = c] \in [Calls -> Call]
  BY <1>2, <1>4 DEF Pass
<1>8. pass' \in Pass /\ pass'.raised = pass.raised
      /\ pass'.live = pass.live /\ pass'.era = pass.era /\ pass'.cache = pass.cache
      /\ pass'.reuse = pass.reuse /\ pass'.attempts = pass.attempts
      /\ pass'.occurrences = Occurs(i) /\ pass'.call = [pass.call EXCEPT ![i] = c]
      /\ pass'.label = pass.label
  BY <1>2, <1>5, <1>6, <1>7 DEF Pass
<1>9. pass'.call[i] = c /\ \A j \in Calls : j # i => pass'.call[j] = pass.call[j]
  BY <1>2, <1>8 DEF Pass
<1>10. ItemTypeOK'
  BY <1>2, <1>8 DEF ItemTypeOK
<1>11. InOrder'
  BY <1>2, <1>4, <1>8, OrderAdvances
<1>12. RowsStem'
  BY <1>2, <1>8, StemKept
<1>13. /\ \A j \in Calls : Started(j) => Started(j)'
       /\ \A j \in Calls : HasRow(j)' => (HasRow(j) /\ pass'.call[j] = pass.call[j]) \/ j = i
  BY <1>4, <1>9 DEF Started, HasRow, Is
<1>14. AttemptsFollow'
  BY <1>2, <1>8, <1>13, AttemptsKept
<1>15. pass.live /\ pass.era = pauses => ~Counted(r)
  BY <1>3 DEF PauseKnown
<1>16. PauseKnown'
  BY <1>2, <1>4, <1>8, <1>9, <1>13, <1>15, PauseKept
<1>17. pass.raised = "no" => Recorded(r)
  BY <1>3 DEF HeldIsRecorded, RowsStem, Recorded
<1>18. \A q \in Row : Recorded(q) => Recorded(q)'
  BY <1>2 DEF Recorded
<1>19. \A j \in Calls : HasRow(j)' => pass'.call[j].row \in Row
  BY <1>8, CallTyped DEF HasRow, Is, Pass
<1>20. status # "completed" /\ pass.cache \subseteq Row
  BY <1>2 DEF HeldIsRecorded, Pass
<1>21. HeldIsRecorded'
  BY <1>2, <1>4, <1>8, <1>9, <1>13, <1>17, <1>18, <1>19, <1>20, HeldKept
<1>22. HitIsTheSameWork'
  BY <1>3, <1>4, <1>9 DEF HitIsTheSameWork, Is
<1>23. QED BY <1>10, <1>11, <1>12, <1>14, <1>16, <1>21, <1>22

LEMMA ExecuteStep ==
  ASSUME IInv, NEW i \in Calls, Execute(i) PROVE IInv'
<1> USE DEF IInv
<1>1. pass \in Pass /\ pass.live /\ Reaches(i)
      /\ UNCHANGED <<rows, late, status, invalidated, pauses, seen, clock, faults>>
  BY DEF Execute, Reaches, NoFault, ItemTypeOK
<1>2. Running \in Call /\ Running.kind = "running"
  BY DEF Running, Call
<1>3. Occurs(i) \in [Steps -> Nat]
  <2>1. pass.occurrences \in [Steps -> Nat] /\ StepOf[i] \in Steps
    BY <1>1 DEF Pass, Steps
  <2>2. QED BY <2>1 DEF Occurs
<1>4. NextLabel(i) \in Labels
  BY <1>1, NextLabelIsPlace, PlaceIsLabel
<1>5. pass' = [pass EXCEPT !.executed = TRUE, !.call = [pass.call EXCEPT ![i] = Running],
                 !.occurrences = Occurs(i), !.label = [pass.label EXCEPT ![i] = NextLabel(i)]]
  BY DEF Execute
<1>6. /\ [pass.call EXCEPT ![i] = Running] \in [Calls -> Call]
      /\ [pass.label EXCEPT ![i] = NextLabel(i)] \in [Calls -> Labels]
  BY <1>1, <1>2, <1>4 DEF Pass
<1>7. pass' \in Pass /\ pass'.raised = pass.raised
      /\ pass'.live = pass.live /\ pass'.era = pass.era /\ pass'.cache = pass.cache
      /\ pass'.reuse = pass.reuse /\ pass'.attempts = pass.attempts
      /\ pass'.occurrences = Occurs(i) /\ pass'.call = [pass.call EXCEPT ![i] = Running]
      /\ pass'.label = [pass.label EXCEPT ![i] = NextLabel(i)]
  BY <1>1, <1>3, <1>5, <1>6 DEF Pass
<1>8. /\ pass'.call[i] = Running /\ pass'.label[i] = NextLabel(i)
      /\ \A j \in Calls : j # i => pass'.call[j] = pass.call[j]
  BY <1>1, <1>7 DEF Pass
<1>9. ItemTypeOK'
  BY <1>1, <1>7 DEF ItemTypeOK
<1>10. InOrder'
  BY <1>1, <1>2, <1>7, <1>8, OrderAdvances
<1>11. RowsStem'
  BY <1>1, <1>7, StemKept
<1>12. /\ \A j \in Calls : Started(j) => Started(j)'
       /\ \A j \in Calls : HasRow(j)' => HasRow(j) /\ pass'.call[j] = pass.call[j]
  BY <1>2, <1>8 DEF Started, HasRow, Is
<1>13. AttemptsFollow' /\ PauseKnown'
  BY <1>1, <1>7, <1>12, AttemptsKept, PauseKept
<1>14. status # "completed"
  BY <1>1 DEF HeldIsRecorded
<1>15. HeldIsRecorded'
  BY <1>1, <1>7, <1>12, <1>14 DEF HeldIsRecorded, Recorded
<1>16. HitIsTheSameWork'
  BY <1>2, <1>8 DEF HitIsTheSameWork, Is
<1>17. QED BY <1>9, <1>10, <1>11, <1>13, <1>15, <1>16

LEMMA RaisesStep ==
  ASSUME IInv, NEW i \in Calls, StepRaises(i) PROVE IInv'
<1> USE DEF IInv
<1>1. PICK raised \in {pass.raised, "failed", "released"} :
        pass' = [pass EXCEPT !.call = [pass.call EXCEPT ![i] = Raised],
                             !.raised = IF pass.raised = "no" THEN raised ELSE pass.raised]
  BY DEF StepRaises
<1>2. pass \in Pass /\ pass.live /\ Is(i, "running")
      /\ UNCHANGED <<rows, late, status, invalidated, pauses, seen, clock>>
  BY DEF StepRaises, ItemTypeOK
<1>3. faults' \in 0..MaxFaults
  BY DEF StepRaises, Fault, ItemTypeOK
<1>4. Raised \in Call /\ Raised.kind = "raised"
  BY DEF Raised, Call
<1>5. [pass.call EXCEPT ![i] = Raised] \in [Calls -> Call]
  BY <1>2, <1>4 DEF Pass
<1>6. pass' \in Pass /\ (pass'.raised = "no" => pass.raised = "no")
      /\ pass'.live = pass.live /\ pass'.era = pass.era /\ pass'.cache = pass.cache
      /\ pass'.reuse = pass.reuse /\ pass'.attempts = pass.attempts
      /\ pass'.occurrences = pass.occurrences /\ pass'.call = [pass.call EXCEPT ![i] = Raised]
      /\ pass'.label = pass.label
  BY <1>1, <1>2, <1>5 DEF Pass
<1>7. pass'.call[i] = Raised /\ \A j \in Calls : j # i => pass'.call[j] = pass.call[j]
  BY <1>2, <1>6 DEF Pass
<1>8. ItemTypeOK'
  BY <1>2, <1>3, <1>6 DEF ItemTypeOK
<1>9. InOrder'
  BY <1>2, <1>4, <1>6, OrderReturns DEF Started, Is
<1>10. RowsStem'
  BY <1>2, <1>6, StemKept
<1>11. /\ \A j \in Calls : Started(j) => Started(j)'
       /\ \A j \in Calls : HasRow(j)' => HasRow(j) /\ pass'.call[j] = pass.call[j]
  BY <1>4, <1>7 DEF Started, HasRow, Is
<1>12. AttemptsFollow' /\ PauseKnown'
  BY <1>2, <1>6, <1>11, AttemptsKept, PauseKept
<1>13. status # "completed"
  BY <1>2 DEF HeldIsRecorded
<1>14. HeldIsRecorded'
  BY <1>2, <1>6, <1>11, <1>13 DEF HeldIsRecorded, Recorded
<1>15. HitIsTheSameWork'
  BY <1>4, <1>7 DEF HitIsTheSameWork, Is
<1>16. QED BY <1>8, <1>9, <1>10, <1>12, <1>14, <1>15

\* A pass that is gone holds nothing.
LEMMA PassGone ==
  ASSUME IInv, pass' = NoPass, UNCHANGED <<rows, late, invalidated, pauses, seen, clock>>,
         status' \in {status, "failed"}, status # "completed", faults' \in 0..MaxFaults
  PROVE  IInv'
<1> USE DEF IInv
<1>1. ItemTypeOK'
  BY NoPassTyped DEF ItemTypeOK
<1>2. InOrder'
  BY NoPassTyped, OrderAtStart
<1>3. RowsStem'
  BY NoPassTyped DEF RowsStem, Known, Stems, Bounded, Newer
<1>4. AttemptsFollow'
  BY NoPassTyped DEF AttemptsFollow, ItemTypeOK
<1>5. PauseKnown'
  BY NoPassTyped DEF PauseKnown, ItemTypeOK
<1>6. \A i \in Calls : ~HasRow(i)'
  BY NoPassTyped DEF HasRow, Is
<1>7. HeldIsRecorded' /\ HitIsTheSameWork'
  BY <1>6, NoPassTyped DEF HeldIsRecorded, HitIsTheSameWork, HasRow
<1>8. QED BY <1>1, <1>2, <1>3, <1>4, <1>5, <1>7

LEMMA GoneStep ==
  ASSUME IInv, LeftByException \/ Crash PROVE IInv'
<1>1. /\ pass' = NoPass /\ UNCHANGED <<rows, late, invalidated, pauses, seen, clock>>
      /\ pass.live /\ status' \in {status, "failed"} /\ faults' \in 0..MaxFaults
  BY DEF LeftByException, Crash, NoFault, Fault, IInv, ItemTypeOK
<1>2. status # "completed"
  BY <1>1 DEF IInv, HeldIsRecorded
<1>3. QED BY <1>1, <1>2, PassGone

LEMMA CompleteStep ==
  ASSUME IInv, Complete PROVE IInv'
<1> USE DEF IInv
<1>1. pass \in Pass /\ pass.live /\ pass.raised = "no" /\ pass' = [pass EXCEPT !.live = FALSE]
      /\ UNCHANGED <<rows, late, invalidated, pauses, seen, clock, faults>>
      /\ status' = IF status = "running" THEN "completed" ELSE status
  BY DEF Complete, NoFault, ItemTypeOK
<1>2. pass' \in Pass /\ pass'.raised = "no"
      /\ ~pass'.live /\ pass'.era = pass.era /\ pass'.cache = pass.cache
      /\ pass'.reuse = pass.reuse /\ pass'.attempts = pass.attempts
      /\ pass'.occurrences = pass.occurrences /\ pass'.call = pass.call
      /\ pass'.label = pass.label
  BY <1>1 DEF Pass
<1>3. ItemTypeOK'
  BY <1>1, <1>2 DEF ItemTypeOK
<1>4. InOrder' /\ RowsStem'
  BY <1>1, <1>2, OrderKept, StemKept
<1>5. \A j \in Calls : (Started(j)' <=> Started(j)) /\ (HasRow(j)' <=> HasRow(j))
  BY <1>2 DEF Started, HasRow, Is
<1>6. AttemptsFollow' /\ PauseKnown'
  BY <1>1, <1>2, <1>5, AttemptsKept, PauseKept
<1>7. HitIsTheSameWork'
  BY <1>2 DEF HitIsTheSameWork, Is
<1>8. HeldIsRecorded'
  <2>1. status # "completed"
    BY <1>1 DEF HeldIsRecorded
  <2>2. ASSUME status' = "completed", NEW i \in Calls, HasRow(i)'
        PROVE  ~Counted(pass.call[i].row)'
    <3>1. status = "running" /\ pass.era = pauses /\ HasRow(i)
      BY <1>1, <1>5, <2>1, <2>2 DEF PauseKnown
    <3>2. ~Counted(pass.call[i].row)
      BY <1>1, <3>1 DEF PauseKnown
    <3>3. QED BY <1>1, <1>2, <3>2 DEF Counted
  <2>3. \A r : Recorded(r)' <=> Recorded(r)
    BY <1>1 DEF Recorded
  <2>4. \A i \in Calls : HasRow(i)' => Recorded(pass.call[i].row)'
    BY <1>1, <1>2, <1>5, <2>3 DEF HeldIsRecorded
  <2>5. \A r \in pass'.cache : Recorded(r)'
    BY <1>1, <1>2, <2>3 DEF HeldIsRecorded
  <2>6. QED BY <1>2, <2>2, <2>4, <2>5 DEF HeldIsRecorded
<1>9. QED BY <1>3, <1>4, <1>6, <1>7, <1>8

LEMMA ResumeStep ==
  ASSUME IInv, Resume PROVE IInv'
<1> USE DEF IInv
<1>1. ~pass.live /\ status' = "running"
      /\ UNCHANGED <<rows, late, invalidated, pauses, pass, seen, clock, faults>>
  BY DEF Resume, NoFault
<1>2. ItemTypeOK' /\ InOrder' /\ RowsStem'
  BY <1>1, OrderKept, StemKept DEF ItemTypeOK
<1>3. \A j \in Calls : (Started(j)' <=> Started(j)) /\ (HasRow(j)' <=> HasRow(j))
  BY <1>1 DEF Started, HasRow, Is
<1>4. AttemptsFollow' /\ PauseKnown'
  BY <1>1, <1>3, AttemptsKept, PauseKept DEF ItemTypeOK
<1>5. HeldIsRecorded' /\ HitIsTheSameWork'
  BY <1>1 DEF HeldIsRecorded, HitIsTheSameWork, Is, Recorded, HasRow
<1>6. QED BY <1>2, <1>4, <1>5

LEMMA BeginStep ==
  ASSUME IInv, Begin PROVE IInv'
<1> USE DEF IInv
<1> DEFINE kept == {r \in LatestPerLabel(rows) : ~Counted(r)}
           reuse == {r \in kept : r.copied}
           n == clock + 1
<1>1. /\ pass' = [NoPass EXCEPT !.live = TRUE, !.era = pauses, !.fenced = FALSE,
                       !.cache = kept, !.reuse = reuse, !.attempts = Seeds(kept)]
      /\ status = "running" /\ seen' = rows
      /\ UNCHANGED <<rows, late, status, invalidated, pauses, clock, faults>>
  BY DEF Begin, FencedAtStart, NoFault
<1>2. /\ rows \in SUBSET Row /\ clock \in Nat /\ pauses \in Nat
      /\ invalidated \subseteq Labels \X Nat
      /\ n \in Nat /\ \A r \in rows : r.attempt <= n /\ r.at <= n /\ Stems(r) /\ Bounded(r) /\ Newer(r)
  BY DEF ItemTypeOK, RowsStem, Known, Bounded, Row
<1>3. kept \subseteq rows /\ reuse \subseteq kept
  BY DEF LatestPerLabel
<1>4. \A l \in Labels :
        /\ Top(rows, l) \in Nat /\ Top(rows, l) <= n
        /\ \A r \in rows : r.label = l => r.attempt <= Top(rows, l)
        /\ Top(rows, l) # 0 => \E r \in rows : r.label = l /\ r.attempt = Top(rows, l)
  BY <1>2, TopIsHighest
<1>5. Seeds(kept) \in [Labels -> Nat] /\ \A l \in Labels : Seeds(kept)[l] = Top(rows, l)
  BY <1>4 DEF Seeds
<1>6. pass' \in Pass /\ pass'.raised = "no"
      /\ pass'.live /\ pass'.era = pauses /\ pass'.cache = kept
      /\ pass'.reuse = reuse /\ pass'.attempts = Seeds(kept)
      /\ pass'.occurrences = NoPass.occurrences /\ pass'.call = NoPass.call
  BY <1>1, <1>2, <1>3, <1>5, NoPassTyped DEF Pass
<1>7. ItemTypeOK'
  BY <1>1, <1>2, <1>6 DEF ItemTypeOK
<1>8. InOrder'
  BY <1>6, NoPassTyped, OrderAtStart
<1>9. RowsStem'
  <2>1. Known' = rows \cup late \cup kept /\ Known' \subseteq Known
    BY <1>1, <1>3, <1>6 DEF Known
  <2>2. \A r \in Known' : Stems(r)' /\ Bounded(r)' /\ Newer(r)'
    BY <1>1, <2>1 DEF RowsStem, Stems, Bounded, Newer
  <2>3. QED BY <1>1, <1>3, <1>6, <2>2 DEF RowsStem
<1>10. AttemptsFollow'
  <2>1. \A r \in seen' : r.attempt <= pass'.attempts[r.label]
    BY <1>1, <1>2, <1>4, <1>5, <1>6 DEF Row
  <2>2. ASSUME NEW l \in Labels
        PROVE  /\ pass'.attempts[l] <= clock' + 1
               /\ pass'.attempts[l] # 0 =>
                    \E r \in rows' : r.label = l /\ pass'.attempts[l] <= r.attempt
    <3>1. pass'.attempts[l] = Top(rows, l) /\ Top(rows, l) \in Nat
      BY <1>4, <1>5, <1>6
    <3>2. pass'.attempts[l] # 0 =>
            \E r \in rows : r.label = l /\ pass'.attempts[l] = r.attempt
      BY <1>4, <3>1
    <3>3. Top(rows, l) <= n
      BY <1>4
    <3>4. rows' = rows /\ clock' = clock
      BY <1>1
    <3>5. QED BY <3>1, <3>2, <3>3, <3>4
  <2>3. QED BY <2>1, <2>2 DEF AttemptsFollow
<1>11. PauseKnown'
  <2>1. ASSUME NEW pair \in invalidated PROVE pair[2] <= pass'.attempts[pair[1]]
    <3>1. PICK r \in rows : pair = <<r.label, r.attempt>>
      BY DEF RowsStem
    <3>2. r.label \in Labels
      BY <1>2, <3>1 DEF Row
    <3>3. QED BY <1>4, <1>5, <1>6, <3>1, <3>2
  <2>2. \A r \in pass'.cache \cup pass'.reuse : ~Counted(r)'
    BY <1>1, <1>6 DEF Counted
  <2>3. \A i \in Calls : ~HasRow(i)'
    BY <1>6, NoPassTyped DEF HasRow, Is
  <2>4. ASSUME NEW r \in rows, ~r.copied, r.era = pauses
        PROVE  \E q \in kept : q.label = r.label /\ ~q.copied
    <3>1. PICK q \in LatestPerLabel(rows) : q.label = r.label /\ Later(q, r)
      BY <1>2, LatestExists
    <3>2. q \in rows /\ q \in Row /\ r \in Row
      BY <1>2, <3>1 DEF LatestPerLabel
    <3>3. q.attempt \in Nat /\ r.attempt \in Nat /\ q.at \in Nat /\ r.at \in Nat
      BY <3>2 DEF Row
    <3>4. r.attempt >= 1 /\ r.at >= 1 /\ (q.copied => q.attempt = 1 /\ q.at = 0)
      BY <1>2, <2>4, <3>2 DEF Stems
    <3>5. ~q.copied
      BY <3>1, <3>3, <3>4 DEF Later
    <3>6. ~Counted(q)
      <4>1. SUFFICES ASSUME <<q.label, q.attempt>> \in invalidated PROVE FALSE
        BY DEF Counted
      <4>2. q.attempt < r.attempt
        BY <1>2, <2>4, <3>1, <4>1 DEF Newer
      <4>3. QED BY <3>1, <3>3, <4>2 DEF Later
    <3>7. QED BY <3>1, <3>5, <3>6
  <2>5. \A r \in seen' : r.era <= pass'.era
    BY <1>1, <1>2, <1>6 DEF RowsStem, Bounded, Known
  <2>6. pass'.era <= pauses' /\ pass'.era = pauses'
    BY <1>1, <1>2, <1>6
  <2>7. QED BY <1>1, <1>2, <1>6, <2>1, <2>2, <2>3, <2>4, <2>5, <2>6 DEF PauseKnown
<1>12. HeldIsRecorded' /\ HitIsTheSameWork'
  <2>1. \A i \in Calls : ~HasRow(i)'
    BY <1>6, NoPassTyped DEF HasRow, Is
  <2>2. \A r \in pass'.cache : Recorded(r)'
    BY <1>1, <1>3, <1>6 DEF Recorded
  <2>3. QED BY <1>1, <1>6, <2>1, <2>2 DEF HeldIsRecorded, HitIsTheSameWork, HasRow
<1>13. QED BY <1>7, <1>8, <1>9, <1>10, <1>11, <1>12

--------------------------------------------------------------------------------
(* Steps that record.                                                         *)

\* What the server does with a row.
LEMMA AcceptAdds ==
  ASSUME ItemTypeOK, NEW r \in Row, Accept(r)
  PROVE  /\ rows \subseteq rows' /\ rows' \subseteq rows \cup {r}
         /\ \E q \in rows' : Token(q) = Token(r)
         /\ faults' \in 0..MaxFaults
         /\ \/ UNCHANGED <<status, invalidated, pauses>>
            \/ /\ status = "running" /\ status' = "paused" /\ pauses' = pauses + 1
               /\ \A pair \in invalidated' : \E q \in rows' : pair = <<q.label, q.attempt>>
<1>1. rows' = IF \A q \in rows : Token(q) # Token(r) THEN rows \cup {r} ELSE rows
  BY DEF Accept
<1>2. CASE UNCHANGED <<status, invalidated, pauses, faults>>
  BY <1>1, <1>2 DEF ItemTypeOK
<1>3. CASE /\ \A q \in rows : Token(q) # Token(r)
           /\ r.degraded /\ status = "running" /\ Fault
           /\ status' = "paused" /\ pauses' = pauses + 1
           /\ \E others \in SUBSET {q \in rows : q.degraded} :
                invalidated' = {<<q.label, q.attempt>> : q \in others \cup {r}}
  <2>1. faults' \in 0..MaxFaults
    BY <1>3 DEF Fault, ItemTypeOK
  <2>2. rows' = rows \cup {r}
    BY <1>1, <1>3
  <2>3. QED BY <1>3, <2>1, <2>2
<1>4. QED BY <1>2, <1>3 DEF Accept

LEMMA ExecutedTyped ==
  ASSUME IInv, NEW i \in Calls, NEW degraded \in BOOLEAN, pass.live, Is(i, "running"),
         NEW r, r = Executed(i, degraded)
  PROVE  /\ r \in Row /\ r.label = Place(i) /\ r.label \in Labels /\ r.era = pass.era
         /\ r.attempt = pass.attempts[r.label] + 1 /\ r.at = clock + 1
         /\ r.attempt <= clock + 2
         /\ Stems(r) /\ Newer(r) /\ r.era <= pauses
         /\ pass.era = pauses => ~Counted(r)
<1> USE DEF IInv
<1>1. pass.label[i] = Place(i) /\ Place(i) \in Labels
  BY PlaceIsLabel DEF InOrder
<1>2. /\ pass.attempts \in [Labels -> Nat] /\ clock \in Nat /\ pass.era \in Nat
      /\ RecordOf[i] \in Records
  BY DEF ItemTypeOK, Pass, Records
<1>3. r = [label |-> Place(i), record |-> RecordOf[i], attempt |-> pass.attempts[Place(i)] + 1,
           at |-> clock + 1, copied |-> FALSE, degraded |-> degraded, era |-> pass.era]
  BY <1>1 DEF Executed
<1>4. pass.attempts[Place(i)] \in Nat /\ pass.attempts[Place(i)] <= clock + 1
  BY <1>1, <1>2 DEF AttemptsFollow
<1>5. r \in Row
  BY <1>1, <1>2, <1>3, <1>4 DEF Row
<1>6. Stems(r)
  BY <1>2, <1>3, <1>4 DEF Stems
<1>7. r.era <= pauses
  BY <1>3 DEF PauseKnown
<1>8. pass.era = pauses =>
        \A pair \in invalidated : pair[1] = Place(i) => pair[2] < pass.attempts[Place(i)] + 1
  <2>1. SUFFICES ASSUME pass.era = pauses, NEW pair \in invalidated, pair[1] = Place(i)
                 PROVE  pair[2] < pass.attempts[Place(i)] + 1
    OBVIOUS
  <2>2. pair[2] <= pass.attempts[pair[1]] /\ pair[2] \in Nat
    BY <2>1 DEF PauseKnown, ItemTypeOK
  <2>3. QED BY <1>4, <2>1, <2>2
<1>9. Newer(r)
  BY <1>3, <1>8 DEF Newer
<1>10. pass.era = pauses => ~Counted(r)
  <2>1. SUFFICES ASSUME pass.era = pauses, <<r.label, r.attempt>> \in invalidated PROVE FALSE
    BY DEF Counted
  <2>2. r.attempt < r.attempt
    BY <1>3, <1>8, <2>1
  <2>3. QED BY <1>5, <2>2 DEF Row
<1>11. QED BY <1>1, <1>2, <1>3, <1>4, <1>5, <1>6, <1>7, <1>9, <1>10

\* The pass takes an execution's result into its hands, wherever its save went.
LEMMA RememberedStep ==
  ASSUME IInv, NEW i \in Calls, NEW degraded \in BOOLEAN, pass.live, Is(i, "running"),
         NEW r, r = Executed(i, degraded),
         pass' \in Pass, pass'.live, pass'.era = pass.era, pass'.reuse = pass.reuse,
         pass'.occurrences = pass.occurrences, pass'.label = pass.label,
         pass'.attempts = [pass.attempts EXCEPT ![r.label] = r.attempt],
         pass'.cache = {q \in pass.cache : q.label # r.label} \cup {r},
         pass'.call = [pass.call EXCEPT ![i] = Result("executed", r)],
         seen' = seen, clock' = clock + 1, faults' \in 0..MaxFaults,
         rows \subseteq rows', late \subseteq late',
         rows' \cup late' \subseteq rows \cup late \cup {r},
         \/ UNCHANGED <<status, invalidated, pauses>>
         \/ /\ status = "running" /\ status' = "paused" /\ pauses' = pauses + 1
            /\ \A pair \in invalidated' : \E q \in rows' : pair = <<q.label, q.attempt>>,
         pass'.raised = "no" =>
           pass.raised = "no" /\ \E q \in rows' \cup late' : Token(q) = Token(r)
  PROVE  IInv'
<1> USE DEF IInv
<1>1. /\ r \in Row /\ r.label = Place(i) /\ r.label \in Labels /\ r.era = pass.era
      /\ r.attempt = pass.attempts[r.label] + 1 /\ r.at = clock + 1
      /\ r.attempt <= clock + 2
      /\ Stems(r) /\ Newer(r) /\ r.era <= pauses
      /\ pass.era = pauses => ~Counted(r)
  BY ExecutedTyped
<1>2. /\ pass \in Pass /\ rows \subseteq Row /\ late \subseteq Row /\ clock \in Nat
      /\ pauses \in Nat /\ invalidated \subseteq Labels \X Nat /\ pass.era \in Nat
      /\ pass.attempts \in [Labels -> Nat] /\ pass.cache \subseteq Row
  BY DEF ItemTypeOK, Pass
<1> DEFINE c == Result("executed", r)
<1>3. c \in Call /\ c.kind = "executed" /\ c.row = r
  BY <1>1, CallsTyped
<1> HIDE DEF c
<1>4. /\ pass'.call = [pass.call EXCEPT ![i] = c] /\ pass'.call[i] = c
      /\ \A j \in Calls : j # i => pass'.call[j] = pass.call[j]
  BY <1>2 DEF c, Pass
<1>5. ItemTypeOK'
  <2>1. rows' \subseteq Row /\ late' \subseteq Row
    BY <1>1, <1>2
  <2>2. invalidated' \subseteq Labels \X Nat
    <3>1. CASE UNCHANGED <<status, invalidated, pauses>>
      BY <1>2, <3>1
    <3>2. CASE \A pair \in invalidated' : \E q \in rows' : pair = <<q.label, q.attempt>>
      BY <2>1, <3>2 DEF Row
    <3>3. QED BY <3>1, <3>2
  <2>3. QED BY <1>2, <2>1, <2>2 DEF ItemTypeOK
<1>6. InOrder'
  BY <1>3, <1>4, OrderReturns DEF Started, Is
<1>7. RowsStem'
  <2>1. Known' \subseteq Known \cup {r}
    BY DEF Known
  <2>2. clock' \in {clock, clock + 1} /\ r.attempt <= clock' + 1 /\ r.at <= clock'
    BY <1>1, <1>2
  <2>3. QED BY <1>1, <2>1, <2>2, StemGrows
<1>8. /\ Started(i)
      /\ \A j \in Calls : Started(j) => Started(j)'
      /\ \A j \in Calls : HasRow(j)' => (HasRow(j) /\ pass'.call[j] = pass.call[j]) \/ j = i
  BY <1>3, <1>4 DEF Started, HasRow, Is
<1>9. pass'.attempts = [pass.attempts EXCEPT ![Place(i)] = @ + 1]
  BY <1>1
<1>10. AttemptsFollow'
  <2>1. seen \subseteq Row
    BY DEF ItemTypeOK
  <2>2. QED BY <1>8, <1>9, <2>1, AttemptsAdvance
<1>11. PauseKnown'
  <2>1. CASE pauses' = pauses + 1 /\ status' = "paused"
    BY <1>2, <2>1 DEF PauseKnown
  <2>2. CASE UNCHANGED <<status, invalidated, pauses>>
    <3>1. pass'.era <= pauses' /\ (status' = "running" => pass'.era = pauses')
      BY <2>2 DEF PauseKnown
    <3>2. SUFFICES ASSUME pass'.era = pauses'
          PROVE /\ \A pair \in invalidated' : pair[2] <= pass'.attempts[pair[1]]
                /\ \A q \in pass'.cache \cup pass'.reuse : ~Counted(q)'
                /\ \A j \in Calls : HasRow(j)' => ~Counted(pass.call[j].row)'
                /\ \A q \in seen' : ~q.copied /\ q.era = pauses' /\ Untouched(q.label)' =>
                     \E o \in pass'.cache : o.label = q.label /\ ~o.copied
      BY <3>1 DEF PauseKnown
    <3>3. pass.era = pauses /\ \A q : Counted(q)' <=> Counted(q)
      BY <2>2, <3>2 DEF Counted
    <3>4. ASSUME NEW pair \in invalidated' PROVE pair[2] <= pass'.attempts[pair[1]]
      <4>1. pair \in invalidated /\ pair[1] \in Labels /\ pair[2] \in Nat
        BY <1>2, <2>2, <3>4
      <4>2. pair[2] <= pass.attempts[pair[1]] /\ pass.attempts[pair[1]] \in Nat
        BY <1>2, <3>3, <4>1 DEF PauseKnown
      <4>3. pass'.attempts[pair[1]] \in {pass.attempts[pair[1]], pass.attempts[pair[1]] + 1}
        BY <1>1, <1>2, <1>9, <4>1
      <4>4. QED BY <4>1, <4>2, <4>3
    <3>5. \A q \in pass'.cache \cup pass'.reuse : ~Counted(q)'
      BY <1>1, <3>3 DEF PauseKnown
    <3>6. \A j \in Calls : HasRow(j)' => ~Counted(pass.call[j].row)'
      BY <1>1, <1>3, <1>4, <1>8, <3>3 DEF PauseKnown
    <3>7. ASSUME NEW q \in seen', ~q.copied, q.era = pauses', Untouched(q.label)'
          PROVE  \E o \in pass'.cache : o.label = q.label /\ ~o.copied
      <4>1. q.label # r.label /\ Untouched(q.label)
        BY <1>1, <1>8, <3>7 DEF Untouched
      <4>2. PICK o \in pass.cache : o.label = q.label /\ ~o.copied
        BY <2>2, <3>3, <3>7, <4>1 DEF PauseKnown
      <4>3. o \in pass'.cache
        BY <4>1, <4>2
      <4>4. QED BY <4>2, <4>3
    <3>8. QED BY <3>4, <3>5, <3>6, <3>7
  <2>3. QED BY <2>1, <2>2
<1>12. HeldIsRecorded'
  <2>1. \A q : Recorded(q) => Recorded(q)'
    BY DEF Recorded
  <2>2. pass'.raised = "no" => pass.raised = "no" /\ Recorded(r)'
    BY DEF Recorded
  <2>3. \A q \in pass'.cache : q \in pass.cache \/ q = r
    OBVIOUS
  <2>4. pass'.raised = "no" =>
          /\ \A q \in pass'.cache : Recorded(q)'
          /\ \A j \in Calls : HasRow(j)' => Recorded(pass.call[j].row)'
    BY <1>3, <1>4, <1>8, <2>1, <2>2, <2>3 DEF HeldIsRecorded
  <2>5. status' # "completed"
    BY DEF HeldIsRecorded
  <2>6. QED BY <2>4, <2>5 DEF HeldIsRecorded
<1>13. HitIsTheSameWork'
  BY <1>3, <1>4 DEF HitIsTheSameWork, Is
<1>14. QED BY <1>5, <1>6, <1>7, <1>10, <1>11, <1>12, <1>13

\* What Remembers makes of the pass.
LEMMA RemembersTyped ==
  ASSUME ItemTypeOK, NEW i \in Calls, NEW r \in Row, NEW m, m = Remembers(i, r)
  PROVE  /\ m \in Pass /\ m.live = pass.live /\ m.era = pass.era /\ m.reuse = pass.reuse
         /\ m.occurrences = pass.occurrences /\ m.label = pass.label
         /\ m.attempts = [pass.attempts EXCEPT ![r.label] = r.attempt]
         /\ m.cache = {q \in pass.cache : q.label # r.label} \cup {r}
         /\ m.call = [pass.call EXCEPT ![i] = Result("executed", r)]
         /\ m.raised = pass.raised /\ m.fenced = pass.fenced
<1>1. pass \in Pass /\ Result("executed", r) \in Call
  BY CallsTyped DEF ItemTypeOK
<1> DEFINE attempts == [pass.attempts EXCEPT ![r.label] = r.attempt]
           cache == {q \in pass.cache : q.label # r.label} \cup {r}
           call == [pass.call EXCEPT ![i] = Result("executed", r)]
<1>2. attempts \in [Labels -> Nat] /\ cache \in SUBSET Row /\ call \in [Calls -> Call]
  BY <1>1 DEF Pass, Row
<1>3. m = [pass EXCEPT !.attempts = attempts, !.cache = cache, !.call = call]
  BY DEF Remembers
<1> HIDE DEF attempts, cache, call
<1>4. /\ m \in Pass /\ m.live = pass.live /\ m.era = pass.era /\ m.reuse = pass.reuse
      /\ m.occurrences = pass.occurrences /\ m.label = pass.label
      /\ m.attempts = attempts /\ m.cache = cache /\ m.call = call
      /\ m.raised = pass.raised /\ m.fenced = pass.fenced
  BY <1>1, <1>2, <1>3 DEF Pass
<1>5. QED BY <1>4 DEF attempts, cache, call

LEMMA SaveArrivesStep ==
  ASSUME IInv, NEW i \in Calls, NEW degraded \in BOOLEAN, SaveArrives(i, degraded)
  PROVE  IInv'
<1> DEFINE r == Executed(i, degraded)
           m == Remembers(i, r)
<1>1. /\ pass.live /\ Is(i, "running") /\ clock' = clock + 1 /\ late' = late /\ seen' = seen
      /\ Accept(r) /\ pass' = [m EXCEPT !.fenced = Told]
  BY DEF SaveArrives
<1>2. r \in Row
  BY <1>1, ExecutedTyped
<1> HIDE DEF r
<1>3. /\ m \in Pass /\ m.live = pass.live /\ m.era = pass.era /\ m.reuse = pass.reuse
      /\ m.occurrences = pass.occurrences /\ m.label = pass.label
      /\ m.attempts = [pass.attempts EXCEPT ![r.label] = r.attempt]
      /\ m.cache = {q \in pass.cache : q.label # r.label} \cup {r}
      /\ m.call = [pass.call EXCEPT ![i] = Result("executed", r)]
      /\ m.raised = pass.raised
  BY <1>2, RemembersTyped DEF IInv
<1> HIDE DEF m
<1>4. /\ pass' \in Pass /\ pass'.live = m.live /\ pass'.era = m.era /\ pass'.reuse = m.reuse
      /\ pass'.occurrences = m.occurrences /\ pass'.label = m.label
      /\ pass'.attempts = m.attempts /\ pass'.cache = m.cache /\ pass'.call = m.call
      /\ pass'.raised = m.raised
  <2>1. Told \in BOOLEAN
    BY DEF Told
  <2>2. QED BY <1>1, <1>3, <2>1 DEF Pass
<1>5. /\ rows \subseteq rows' /\ rows' \subseteq rows \cup {r} /\ faults' \in 0..MaxFaults
      /\ \E q \in rows' : Token(q) = Token(r)
      /\ \/ UNCHANGED <<status, invalidated, pauses>>
         \/ /\ status = "running" /\ status' = "paused" /\ pauses' = pauses + 1
            /\ \A pair \in invalidated' : \E q \in rows' : pair = <<q.label, q.attempt>>
  BY <1>1, <1>2, AcceptAdds DEF IInv
<1>6. r = Executed(i, degraded)
  BY DEF r
<1>7. late \subseteq late' /\ rows' \cup late' \subseteq rows \cup late \cup {r}
  BY <1>1, <1>5
<1>8. pass'.raised = "no" => pass.raised = "no" /\ \E q \in rows' \cup late' : Token(q) = Token(r)
  BY <1>3, <1>4, <1>5
<1>9. /\ pass' \in Pass /\ pass'.live /\ pass'.era = pass.era /\ pass'.reuse = pass.reuse
      /\ pass'.occurrences = pass.occurrences /\ pass'.label = pass.label
      /\ pass'.attempts = [pass.attempts EXCEPT ![r.label] = r.attempt]
      /\ pass'.cache = {q \in pass.cache : q.label # r.label} \cup {r}
      /\ pass'.call = [pass.call EXCEPT ![i] = Result("executed", r)]
  BY <1>1, <1>3, <1>4
<1>10. QED BY <1>1, <1>5, <1>6, <1>7, <1>8, <1>9, RememberedStep

LEMMA SaveLostStep ==
  ASSUME IInv, NEW i \in Calls, NEW degraded \in BOOLEAN,
         SaveJournaled(i, degraded) \/ SaveRefused(i, degraded)
  PROVE  IInv'
<1> DEFINE r == Executed(i, degraded)
           m == Remembers(i, r)
<1>1. /\ pass.live /\ Is(i, "running") /\ clock' = clock + 1 /\ Fault
      /\ UNCHANGED <<rows, status, invalidated, pauses, seen>>
      /\ \/ pass' = m /\ late' = late \cup {r}
         \/ pass' = [m EXCEPT !.raised = "failed"] /\ late' = late
  BY DEF SaveJournaled, SaveRefused, RefusedPass
<1>2. r \in Row
  BY <1>1, ExecutedTyped
<1> HIDE DEF r
<1>3. /\ m \in Pass /\ m.live = pass.live /\ m.era = pass.era /\ m.reuse = pass.reuse
      /\ m.occurrences = pass.occurrences /\ m.label = pass.label
      /\ m.attempts = [pass.attempts EXCEPT ![r.label] = r.attempt]
      /\ m.cache = {q \in pass.cache : q.label # r.label} \cup {r}
      /\ m.call = [pass.call EXCEPT ![i] = Result("executed", r)]
      /\ m.raised = pass.raised
  BY <1>2, RemembersTyped DEF IInv
<1> HIDE DEF m
<1>4. /\ pass' \in Pass /\ pass'.live = m.live /\ pass'.era = m.era /\ pass'.reuse = m.reuse
      /\ pass'.occurrences = m.occurrences /\ pass'.label = m.label
      /\ pass'.attempts = m.attempts /\ pass'.cache = m.cache /\ pass'.call = m.call
      /\ \/ pass'.raised = m.raised /\ late' = late \cup {r}
         \/ pass'.raised = "failed" /\ late' = late
  <2>1. CASE pass' = m /\ late' = late \cup {r}
    BY <1>3, <2>1
  <2>2. CASE pass' = [m EXCEPT !.raised = "failed"] /\ late' = late
    BY <1>3, <2>2 DEF Pass
  <2>3. QED BY <1>1, <2>1, <2>2
<1>5. r = Executed(i, degraded)
  BY DEF r
<1>6. /\ rows \subseteq rows' /\ late \subseteq late'
      /\ rows' \cup late' \subseteq rows \cup late \cup {r}
  BY <1>1
<1>7. faults' \in 0..MaxFaults
  BY <1>1 DEF Fault, IInv, ItemTypeOK
<1>8. pass'.raised = "no" => pass.raised = "no" /\ \E q \in rows' \cup late' : Token(q) = Token(r)
  BY <1>3, <1>4
<1>9. /\ pass' \in Pass /\ pass'.live /\ pass'.era = pass.era /\ pass'.reuse = pass.reuse
      /\ pass'.occurrences = pass.occurrences /\ pass'.label = pass.label
      /\ pass'.attempts = [pass.attempts EXCEPT ![r.label] = r.attempt]
      /\ pass'.cache = {q \in pass.cache : q.label # r.label} \cup {r}
      /\ pass'.call = [pass.call EXCEPT ![i] = Result("executed", r)]
  BY <1>1, <1>3, <1>4
<1>10. QED BY <1>1, <1>5, <1>6, <1>7, <1>8, <1>9, RememberedStep

LEMMA ArrivesLateStep ==
  ASSUME IInv, NEW r \in late, ArrivesLate(r) PROVE IInv'
<1> USE DEF IInv
<1>1. /\ Accept(r) /\ late' = late \ {r} /\ UNCHANGED <<seen, clock>>
      /\ pass' \in {pass, [pass EXCEPT !.fenced = pass.live /\ Told]}
  BY DEF ArrivesLate
<1>2. /\ r \in Row /\ pass \in Pass /\ rows \subseteq Row /\ late \subseteq Row
      /\ clock \in Nat /\ pauses \in Nat /\ invalidated \subseteq Labels \X Nat
  BY DEF ItemTypeOK
<1>3. /\ pass' \in Pass /\ pass'.live = pass.live /\ pass'.era = pass.era
      /\ pass'.cache = pass.cache /\ pass'.reuse = pass.reuse /\ pass'.attempts = pass.attempts
      /\ pass'.occurrences = pass.occurrences /\ pass'.call = pass.call
      /\ pass'.label = pass.label /\ pass'.raised = pass.raised
  <2>1. (pass.live /\ Told) \in BOOLEAN
    OBVIOUS
  <2>2. QED BY <1>1, <1>2, <2>1 DEF Pass
<1>4. /\ rows \subseteq rows' /\ rows' \subseteq rows \cup {r} /\ faults' \in 0..MaxFaults
      /\ \E q \in rows' : Token(q) = Token(r)
      /\ \/ UNCHANGED <<status, invalidated, pauses>>
         \/ /\ status = "running" /\ status' = "paused" /\ pauses' = pauses + 1
            /\ \A pair \in invalidated' : \E q \in rows' : pair = <<q.label, q.attempt>>
  BY <1>1, <1>2, AcceptAdds
<1>5. ItemTypeOK'
  <2>1. invalidated' \subseteq Labels \X Nat
    BY <1>2, <1>4 DEF Row
  <2>2. QED BY <1>1, <1>2, <1>3, <1>4, <2>1 DEF ItemTypeOK
<1>6. InOrder'
  BY <1>3, OrderKept
<1>7. RowsStem'
  <2>1. Known' \subseteq Known \cup {r} /\ r \in Known
    BY <1>1, <1>3, <1>4 DEF Known
  <2>2. Stems(r) /\ Newer(r) /\ r.era <= pauses /\ r.attempt <= clock' + 1 /\ r.at <= clock'
    BY <1>1, <2>1 DEF RowsStem, Bounded
  <2>3. QED BY <1>1, <1>2, <1>3, <1>4, <2>1, <2>2, StemGrows
<1>8. \A j \in Calls : (Started(j)' <=> Started(j)) /\ (HasRow(j)' <=> HasRow(j))
  BY <1>3 DEF Started, HasRow, Is
<1>9. AttemptsFollow'
  BY <1>1, <1>3, <1>4, <1>8, AttemptsKept
<1>10. PauseKnown'
  <2>1. CASE pauses' = pauses + 1 /\ status' = "paused"
    <3>1. pass.era \in Nat /\ pass.era <= pauses
      BY <1>2 DEF PauseKnown, Pass
    <3>2. pass'.era <= pauses' /\ pass'.era # pauses' /\ status' # "running"
      BY <1>2, <1>3, <2>1, <3>1
    <3>3. pass'.live => \A q \in seen' : q.era <= pass'.era
      BY <1>1, <1>3 DEF PauseKnown
    <3>4. QED BY <3>2, <3>3 DEF PauseKnown
  <2>2. CASE UNCHANGED <<status, invalidated, pauses>>
    BY <1>1, <1>3, <1>8, <2>2, PauseKept
  <2>3. QED BY <1>4, <2>1, <2>2
<1>11. HeldIsRecorded'
  <2>1. ASSUME NEW q, Recorded(q) PROVE Recorded(q)'
    <3>1. PICK o \in rows \cup late : Token(o) = Token(q)
      BY <2>1 DEF Recorded
    <3>2. o = r \/ o \in rows' \cup late'
      BY <1>1, <1>4
    <3>3. QED BY <1>4, <3>1, <3>2 DEF Recorded
  <2>2. CASE status' = "paused"
    BY <1>3, <1>8, <2>1, <2>2 DEF HeldIsRecorded
  <2>3. CASE UNCHANGED <<status, invalidated, pauses>>
    <3>1. \A q : Counted(q)' <=> Counted(q)
      BY <2>3 DEF Counted
    <3>2. QED BY <1>3, <1>8, <2>1, <2>3, <3>1 DEF HeldIsRecorded
  <2>4. QED BY <1>4, <2>2, <2>3
<1>12. HitIsTheSameWork'
  BY <1>3 DEF HitIsTheSameWork, Is
<1>13. QED BY <1>5, <1>6, <1>7, <1>9, <1>10, <1>11, <1>12

--------------------------------------------------------------------------------
(* The theorems.                                                              *)

LEMMA NextIInv == IInv /\ [ItemNext]_vars => IInv'
<1> SUFFICES ASSUME IInv, [ItemNext]_vars PROVE IInv'
  OBVIOUS
<1>1. CASE Begin
  BY <1>1, BeginStep
<1>2. CASE LeftByException \/ Crash
  BY <1>2, GoneStep
<1>3. CASE Complete
  BY <1>3, CompleteStep
<1>4. CASE Resume
  BY <1>4, ResumeStep
<1>5. ASSUME NEW i \in Calls, Advance(i) PROVE IInv'
  BY <1>5, StoppedStep, HitStep, ExecuteStep DEF Advance
<1>6. ASSUME NEW i \in Calls, Finish(i) PROVE IInv'
  BY <1>6, SaveArrivesStep, SaveLostStep, RaisesStep DEF Finish
<1>7. ASSUME NEW r \in late, ArrivesLate(r) PROVE IInv'
  BY <1>7, ArrivesLateStep
<1>8. CASE UNCHANGED vars
  <2>1. UNCHANGED <<rows, late, status, invalidated, pauses, pass, seen, clock, faults>>
    BY <1>8 DEF vars
  <2>2. ItemTypeOK' /\ InOrder' /\ RowsStem'
    BY <2>1, OrderKept, StemKept DEF IInv, ItemTypeOK
  <2>3. AttemptsFollow' /\ PauseKnown' /\ HeldIsRecorded' /\ HitIsTheSameWork'
    BY <2>1 DEF IInv, AttemptsFollow, PauseKnown, HeldIsRecorded, HitIsTheSameWork, Untouched,
                Started, HasRow, Is, Recorded, Counted
  <2>4. QED BY <2>2, <2>3 DEF IInv
<1>9. QED BY <1>1, <1>2, <1>3, <1>4, <1>5, <1>6, <1>7, <1>8 DEF ItemNext

\* Rows, saves, counted executions and passes stay what the code builds, and with them all
\* that a pass knows of the server.
THEOREM ItemTypeCorrect == ItemSpec => []ItemTypeOK
<1>1. IInv => ItemTypeOK
  BY DEF IInv
<1>2. QED BY <1>1, InitIInv, NextIInv, PTL DEF ItemSpec

\* However a document's records are ordered, and in whichever pass they were recorded, a call
\* is handed the result of its own step on its own record.
THEOREM HitsAreTheSameWork == ItemSpec => []HitIsTheSameWork
<1>1. IInv => HitIsTheSameWork
  BY DEF IInv
<1>2. QED BY <1>1, InitIInv, NextIInv, PTL DEF ItemSpec

LEMMA RowsOfCalls ==
  ASSUME IInv, NEW i \in Calls
  PROVE  "row" \in DOMAIN pass.call[i] <=> HasRow(i)
<1>1. pass.call[i] \in Call
  BY DEF IInv, ItemTypeOK, Pass
<1>2. QED BY <1>1, CallTyped DEF HasRow, Is

\* An item never completes on a result that the last pause counted.
THEOREM CountedIsNotReused == ItemSpec => []CountedNotReused
<1>1. IInv => CountedNotReused
  BY RowsOfCalls DEF IInv, HeldIsRecorded, CountedNotReused, Counted
<1>2. QED BY <1>1, InitIInv, NextIInv, PTL DEF ItemSpec

\* A completed item has a record of every result that its body went on with.
THEOREM CompletedItemIsRecorded == ItemSpec => []CompletedIsRecorded
<1>1. IInv => CompletedIsRecorded
  BY RowsOfCalls DEF IInv, HeldIsRecorded, CompletedIsRecorded, Recorded
<1>2. QED BY <1>1, InitIInv, NextIInv, PTL DEF ItemSpec

\* A call that finishes is not running any more.
LEMMA FinishReturns ==
  ASSUME IInv, NEW i \in Calls, Finish(i)
  PROVE  \E c : c.kind # "running" /\ pass'.call = [pass.call EXCEPT ![i] = c]
<1>1. pass \in Pass
  BY DEF IInv, ItemTypeOK
<1>2. CASE StepRaises(i)
  <2>1. pass'.call = [pass.call EXCEPT ![i] = Raised] /\ Raised.kind = "raised"
    BY <1>1, <1>2 DEF StepRaises, Raised, Pass
  <2>2. QED BY <2>1
<1>3. ASSUME NEW degraded \in BOOLEAN,
             \/ SaveArrives(i, degraded) \/ SaveJournaled(i, degraded) \/ SaveRefused(i, degraded)
      PROVE  \E c : c.kind # "running" /\ pass'.call = [pass.call EXCEPT ![i] = c]
  <2> DEFINE r == Executed(i, degraded)
             m == Remembers(i, r)
  <2>1. \/ pass' = m \/ pass' = [m EXCEPT !.fenced = Told] \/ pass' = [m EXCEPT !.raised = "failed"]
    BY <1>3 DEF SaveArrives, SaveJournaled, SaveRefused, RefusedPass
  <2> HIDE DEF r
  <2>2. m = [pass EXCEPT !.attempts = m.attempts, !.cache = m.cache,
                         !.call = [pass.call EXCEPT ![i] = Result("executed", r)]]
    BY <1>1 DEF Remembers, Pass
  <2> HIDE DEF m
  <2>3. pass'.call = [pass.call EXCEPT ![i] = Result("executed", r)]
    BY <1>1, <2>1, <2>2 DEF Pass
  <2>4. Result("executed", r).kind = "executed"
    BY DEF Result
  <2>5. QED BY <2>3, <2>4
<1>4. QED BY <1>2, <1>3 DEF Finish

\* Only Execute sets a call running.
LEMMA ExecutesByExecute ==
  ASSUME IInv, ItemNext, NEW i \in Calls, Executes(i)
  PROVE  Execute(i)
<1>1. pass \in Pass /\ pass.call[i].kind # "running" /\ pass'.call[i].kind = "running"
  BY DEF IInv, ItemTypeOK, Executes, Is
<1>2. ASSUME pass'.call = pass.call \/ pass'.call = NoPass.call PROVE FALSE
  BY <1>1, <1>2, NoPassTyped
<1>3. ASSUME NEW j \in Calls, NEW c, c.kind # "running", pass'.call = [pass.call EXCEPT ![j] = c]
      PROVE  FALSE
  BY <1>1, <1>3 DEF Pass
<1>4. CASE Begin
  <2>1. pass'.call = NoPass.call
    BY <1>4, NoPassTyped DEF Begin, Pass
  <2>2. QED BY <1>2, <2>1
<1>5. CASE LeftByException \/ Crash
  BY <1>2, <1>5 DEF LeftByException, Crash
<1>6. CASE Complete \/ Resume
  <2>1. pass'.call = pass.call
    BY <1>1, <1>6 DEF Complete, Resume, Pass
  <2>2. QED BY <1>2, <2>1
<1>7. ASSUME NEW j \in Calls, StoppedByFence(j) PROVE FALSE
  <2>1. pass'.call = pass.call
    BY <1>1, <1>7 DEF StoppedByFence, Pass
  <2>2. QED BY <1>2, <2>1
<1>8. ASSUME NEW j \in Calls, Hit(j) PROVE FALSE
  <2>1. PICK r : pass' = [pass EXCEPT !.call = [pass.call EXCEPT ![j] = Result("hit", r)],
                                      !.occurrences = Occurs(j)]
    BY <1>8 DEF Hit
  <2>2. pass'.call = [pass.call EXCEPT ![j] = Result("hit", r)]
    BY <1>1, <2>1 DEF Pass
  <2>3. Result("hit", r).kind = "hit"
    BY DEF Result
  <2>4. QED BY <1>3, <2>2, <2>3
<1>9. ASSUME NEW j \in Calls, Execute(j) PROVE Execute(i)
  <2>1. pass'.call = [pass.call EXCEPT ![j] = Running]
    BY <1>1, <1>9 DEF Execute, Pass
  <2>2. i = j
    BY <1>1, <2>1 DEF Pass
  <2>3. QED BY <1>9, <2>2
<1>10. ASSUME NEW j \in Calls, Finish(j) PROVE FALSE
  BY <1>3, <1>10, FinishReturns
<1>11. ASSUME NEW r \in late, ArrivesLate(r) PROVE FALSE
  <2>1. pass'.call = pass.call
    BY <1>1, <1>11 DEF ArrivesLate, Pass
  <2>2. QED BY <1>2, <2>1
<1>12. QED BY <1>4, <1>5, <1>6, <1>7, <1>8, <1>9, <1>10, <1>11 DEF ItemNext, Advance

\* What is true of a call that Execute starts.
LEMMA ExecutedLabel ==
  ASSUME IInv, NEW i \in Calls, Execute(i)
  PROVE  /\ pass'.label[i] = Place(i) /\ Place(i) \in Labels /\ Untouched(Place(i))
         /\ pass.live /\ ByPosition(i) = {} /\ NextLabel(i) = Place(i)
<1>1. Reaches(i) /\ pass \in Pass /\ pass.live
  BY DEF Execute, Reaches, IInv, ItemTypeOK
<1>2. NextLabel(i) = Place(i) /\ Place(i) \in Labels
  BY <1>1, NextLabelIsPlace, PlaceIsLabel DEF IInv
<1>3. pass'.label[i] = NextLabel(i)
  BY <1>1 DEF Execute, Pass
<1>4. Untouched(Place(i))
  <2>1. ~Started(i)
    BY <1>1 DEF Reaches, Started
  <2>2. QED BY <2>1, PlaceInjective DEF Untouched
<1>5. ByPosition(i) = {}
  BY DEF Execute, Found
<1>6. QED BY <1>1, <1>2, <1>3, <1>4, <1>5

\* Work of a pass that began after the last pause, once recorded, is never executed again.
THEOREM FencesAreSpentOnce == ItemSpec => FenceSpentOnce
<1>1. ASSUME IInv, ItemNext, NEW i \in Calls, Executes(i),
             NEW r \in seen, r.label = pass'.label[i], ~r.copied
      PROVE  r.era < pauses
  <2>1. /\ pass'.label[i] = Place(i) /\ Untouched(Place(i)) /\ pass.live /\ ByPosition(i) = {}
        /\ NextLabel(i) = Place(i)
    BY <1>1, ExecutesByExecute, ExecutedLabel
  <2>2. r.era \in Nat /\ pauses \in Nat /\ pass.era \in Nat
    BY <1>1 DEF IInv, ItemTypeOK, Row, Pass
  <2>3. r.era <= pass.era /\ pass.era <= pauses
    BY <1>1, <2>1 DEF IInv, PauseKnown
  <2>4. ASSUME r.era = pauses PROVE FALSE
    <3>1. pass.era = pauses
      BY <2>2, <2>3, <2>4
    <3>2. PICK q \in pass.cache : q.label = r.label /\ ~q.copied
      BY <1>1, <2>1, <2>4, <3>1 DEF IInv, PauseKnown
    <3>3. q \in ByPosition(i)
      BY <1>1, <2>1, <3>2 DEF ByPosition
    <3>4. QED BY <2>1, <3>3
  <2>5. QED BY <2>2, <2>3, <2>4
<1>2. IInv /\ [ItemNext]_vars =>
        [\A i \in Calls : Executes(i) =>
           \A r \in seen : r.label = pass'.label[i] /\ ~r.copied => r.era < pauses]_vars
  BY <1>1
<1>3. QED BY <1>2, InitIInv, NextIInv, PTL DEF ItemSpec, FenceSpentOnce

\* Work that is recorded and done again is new to the provider; work that is not is asked for
\* under its own key.
THEOREM KeysFollowRecords == ItemSpec => KeysFollowTheRecord
<1>1. ASSUME IInv, ItemNext, NEW i \in Calls, Executes(i)
      PROVE  LET label == pass'.label[i]
                 attempt == pass.attempts[label] + 1
             IN /\ \A r \in seen : r.label = label => r.attempt # attempt
                /\ attempt <= Top(rows, label) + 1
  <2>1. /\ pass'.label[i] = Place(i) /\ Place(i) \in Labels /\ Untouched(Place(i)) /\ pass.live
    BY <1>1, ExecutesByExecute, ExecutedLabel
  <2>2. /\ pass.attempts[Place(i)] \in Nat /\ rows \in SUBSET Row /\ clock + 1 \in Nat
        /\ seen \subseteq Row
    BY <1>1, <2>1 DEF IInv, ItemTypeOK, Pass
  <2>3. \A r \in rows : r.attempt <= clock + 1
    BY <1>1 DEF IInv, RowsStem, Known, Bounded
  <2>4. /\ Top(rows, Place(i)) \in Nat
        /\ \A r \in rows : r.label = Place(i) => r.attempt <= Top(rows, Place(i))
    BY <2>2, <2>3, TopIsHighest
  <2>5. ASSUME NEW r \in seen, r.label = Place(i) PROVE r.attempt # pass.attempts[Place(i)] + 1
    <3>1. r.attempt <= pass.attempts[r.label] /\ r.attempt \in Nat
      BY <1>1, <2>1, <2>2 DEF IInv, AttemptsFollow, Row
    <3>2. QED BY <2>2, <2>5, <3>1
  <2>6. pass.attempts[Place(i)] <= Top(rows, Place(i))
    <3>1. CASE pass.attempts[Place(i)] = 0
      BY <2>4, <3>1
    <3>2. CASE pass.attempts[Place(i)] # 0
      <4>1. PICK r \in rows : r.label = Place(i) /\ pass.attempts[Place(i)] <= r.attempt
        BY <1>1, <2>1, <3>2 DEF IInv, AttemptsFollow
      <4>2. r.attempt \in Nat /\ r.attempt <= Top(rows, Place(i))
        BY <2>2, <2>4, <4>1 DEF Row
      <4>3. QED BY <2>2, <2>4, <4>1, <4>2
    <3>3. QED BY <3>1, <3>2
  <2>7. QED BY <2>1, <2>2, <2>4, <2>5, <2>6
<1>2. IInv /\ [ItemNext]_vars =>
        [\A i \in Calls : Executes(i) =>
           LET label == pass'.label[i]
               attempt == pass.attempts[label] + 1
           IN /\ \A r \in seen : r.label = label => r.attempt # attempt
              /\ attempt <= Top(rows, label) + 1]_vars
  BY <1>1
<1>3. QED BY <1>2, InitIInv, NextIInv, PTL DEF ItemSpec, KeysFollowTheRecord

================================================================================
