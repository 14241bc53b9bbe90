--------------------------- MODULE CloudStoreProofs ---------------------------
(***************************************************************************)
(* Proofs about CloudStore: its types; that one process with a journal of    *)
(* its own loses nothing; and that any number of processes that share one    *)
(* deliver what is journaled in its order.  All for any number of runs,      *)
(* saves, attempts and faults and any batch.                                 *)
(***************************************************************************)
EXTENDS CloudStore, TLAPS

--------------------------------------------------------------------------------
(* Sequences.                                                                 *)

\* What appending one entry, concatenating two journals and passing an entry do to the set
\* of entries.
LEMMA RangeOfAppend ==
  ASSUME NEW S, NEW s \in Seq(S), NEW x \in S
  PROVE  Range(Append(s, x)) = Range(s) \cup {x}
<1>1. /\ DOMAIN Append(s, x) = 1..(Len(s) + 1) /\ DOMAIN s = 1..Len(s) /\ Len(s) \in Nat
      /\ Append(s, x)[Len(s) + 1] = x
      /\ \A i \in 1..Len(s) : Append(s, x)[i] = s[i]
  OBVIOUS
<1>2. ASSUME NEW y \in Range(Append(s, x)) PROVE y \in Range(s) \cup {x}
  <2>1. PICK i \in 1..(Len(s) + 1) : y = Append(s, x)[i]
    BY <1>1, <1>2 DEF Range
  <2>2. CASE i = Len(s) + 1
    BY <1>1, <2>1, <2>2
  <2>3. CASE i \in 1..Len(s)
    BY <1>1, <2>1, <2>3 DEF Range
  <2>4. QED BY <1>1, <2>1, <2>2, <2>3
<1>3. ASSUME NEW y \in Range(s) \cup {x} PROVE y \in Range(Append(s, x))
  <2>1. CASE y = x
    <3>1. Len(s) + 1 \in 1..(Len(s) + 1)
      BY <1>1
    <3>2. QED BY <1>1, <2>1, <3>1 DEF Range
  <2>2. CASE y \in Range(s)
    <3>1. PICK i \in 1..Len(s) : y = s[i]
      BY <1>1, <2>2 DEF Range
    <3>2. i \in 1..(Len(s) + 1) /\ y = Append(s, x)[i]
      BY <1>1, <3>1
    <3>3. QED BY <1>1, <3>2 DEF Range
  <2>3. QED BY <1>3, <2>1, <2>2
<1>4. QED BY <1>2, <1>3

LEMMA RangeOfConcat ==
  ASSUME NEW S, NEW s \in Seq(S), NEW t \in Seq(S)
  PROVE  Range(s \o t) = Range(s) \cup Range(t)
<1>1. /\ DOMAIN (s \o t) = 1..(Len(s) + Len(t)) /\ DOMAIN s = 1..Len(s) /\ DOMAIN t = 1..Len(t)
      /\ Len(s) \in Nat /\ Len(t) \in Nat
      /\ \A i \in 1..Len(s) : (s \o t)[i] = s[i]
      /\ \A i \in 1..Len(t) : (s \o t)[Len(s) + i] = t[i]
  OBVIOUS
<1>2. ASSUME NEW y \in Range(s \o t) PROVE y \in Range(s) \cup Range(t)
  <2>1. PICK i \in 1..(Len(s) + Len(t)) : y = (s \o t)[i]
    BY <1>1, <1>2 DEF Range
  <2>2. CASE i <= Len(s)
    <3>1. i \in 1..Len(s)
      BY <1>1, <2>2
    <3>2. QED BY <1>1, <2>1, <3>1 DEF Range
  <2>3. CASE i > Len(s)
    <3>1. i - Len(s) \in 1..Len(t) /\ Len(s) + (i - Len(s)) = i
      BY <1>1, <2>3
    <3>2. y = t[i - Len(s)]
      BY <1>1, <2>1, <3>1
    <3>3. QED BY <1>1, <3>1, <3>2 DEF Range
  <2>4. QED BY <1>1, <2>2, <2>3
<1>3. ASSUME NEW y \in Range(s) PROVE y \in Range(s \o t)
  <2>1. PICK i \in 1..Len(s) : y = s[i]
    BY <1>1, <1>3 DEF Range
  <2>2. i \in 1..(Len(s) + Len(t)) /\ y = (s \o t)[i]
    BY <1>1, <2>1
  <2>3. QED BY <1>1, <2>2 DEF Range
<1>4. ASSUME NEW y \in Range(t) PROVE y \in Range(s \o t)
  <2>1. PICK i \in 1..Len(t) : y = t[i]
    BY <1>1, <1>4 DEF Range
  <2>2. Len(s) + i \in 1..(Len(s) + Len(t)) /\ y = (s \o t)[Len(s) + i]
    BY <1>1, <2>1
  <2>3. QED BY <1>1, <2>2 DEF Range
<1>5. QED BY <1>2, <1>3, <1>4

LEMMA RangeOfRest ==
  ASSUME NEW S, NEW s \in Seq(S), s # <<>>
  PROVE  /\ Head(s) \in S /\ Tail(s) \in Seq(S)
         /\ Range(s) = {Head(s)} \cup Range(Tail(s))
<1>1. /\ Tail(s) \in Seq(S) /\ Head(s) = s[1] /\ Head(s) \in S
      /\ Len(s) \in Nat \ {0} /\ Len(Tail(s)) = Len(s) - 1
      /\ \A i \in 1..(Len(s) - 1) : Tail(s)[i] = s[i + 1]
  OBVIOUS
<1>2. DOMAIN s = 1..Len(s) /\ DOMAIN Tail(s) = 1..(Len(s) - 1)
  BY <1>1
<1>3. ASSUME NEW y \in Range(s) PROVE y \in {Head(s)} \cup Range(Tail(s))
  <2>1. PICK i \in 1..Len(s) : y = s[i]
    BY <1>2, <1>3 DEF Range
  <2>2. CASE i = 1
    BY <1>1, <2>1, <2>2
  <2>3. CASE i # 1
    <3>1. i - 1 \in 1..(Len(s) - 1) /\ (i - 1) + 1 = i
      BY <1>1, <2>3
    <3>2. y = Tail(s)[i - 1]
      BY <1>1, <2>1, <3>1
    <3>3. QED BY <1>2, <3>1, <3>2 DEF Range
  <2>4. QED BY <2>2, <2>3
<1>4. ASSUME NEW y \in Range(Tail(s)) PROVE y \in Range(s)
  <2>1. PICK i \in 1..(Len(s) - 1) : y = Tail(s)[i]
    BY <1>2, <1>4 DEF Range
  <2>2. i + 1 \in 1..Len(s) /\ y = s[i + 1]
    BY <1>1, <2>1
  <2>3. QED BY <1>2, <2>2 DEF Range
<1>5. Head(s) \in Range(s)
  <2>1. 1 \in 1..Len(s)
    BY <1>1
  <2>2. QED BY <1>1, <1>2, <2>1 DEF Range
<1>6. QED BY <1>1, <1>3, <1>4, <1>5

--------------------------------------------------------------------------------
(* Types.                                                                     *)

LEMMA WritesTyped ==
  /\ Last \in Nat \ {0} /\ Finished = Last + 1
  /\ Other \in Writes
  /\ \A w \in Writes : w = Other \/ (w.run \in Runs /\ w.step \in 1..Last)
  /\ Idle \in Call
<1>1. Last \in Nat \ {0} /\ Finished = Last + 1 /\ 0 \in 0..Batch /\ 0 \in 0..(MaxAttempts - 1)
  BY StoreAssumption DEF Last, Finished
<1>2. Other \in Writes /\ \A w \in Writes : w = Other \/ (w.run \in Runs /\ w.step \in 1..Last)
  BY DEF Writes, Write
<1>3. <<>> \in Seq(Writes)
  OBVIOUS
<1>4. Idle \in Call
  BY <1>1, <1>2, <1>3 DEF Idle, Call
<1>5. QED BY <1>1, <1>2, <1>4

\* A call of which one field changes within its set is a call.
LEMMA CallFields ==
  ASSUME NEW c \in Call
  PROVE  /\ \A n \in 0..(MaxAttempts - 1) : [c EXCEPT !.tries = n] \in Call
         /\ \A n \in 0..Batch : [c EXCEPT !.drained = n] \in Call
         /\ [c EXCEPT !.linked = FALSE] \in Call
         /\ \A s \in Seq(Writes) : [c EXCEPT !.unread = s] \in Call
<1>1. ASSUME NEW n \in 0..(MaxAttempts - 1) PROVE [c EXCEPT !.tries = n] \in Call
  BY DEF Call
<1>2. ASSUME NEW n \in 0..Batch PROVE [c EXCEPT !.drained = n] \in Call
  BY DEF Call
<1>3. [c EXCEPT !.linked = FALSE] \in Call
  BY DEF Call
<1>4. ASSUME NEW s \in Seq(Writes) PROVE [c EXCEPT !.unread = s] \in Call
  BY DEF Call
<1>5. QED BY <1>1, <1>2, <1>3, <1>4

\* The entry in hand, and what is left behind it, when the drain reissues it.
LEMMA EntryTyped ==
  ASSUME StoreTypeOK, NEW p \in Procs, Reissues(p)
  PROVE  /\ call[p] \in Call
         /\ Entry(p) \in Writes
         /\ Tail(call[p].unread) \in Seq(Writes)
         /\ Append(call[p].keep, Entry(p)) \in Seq(Writes)
         /\ Passed(p) \in Call /\ Retained(p) \in Call
         /\ Range(call[p].unread) = {Entry(p)} \cup Range(Tail(call[p].unread))
         /\ Range(Append(call[p].keep, Entry(p))) = Range(call[p].keep) \cup {Entry(p)}
<1>1. call[p] \in Call /\ call[p].unread # <<>>
  BY DEF StoreTypeOK, Reissues
<1>2. call[p].unread \in Seq(Writes) /\ call[p].keep \in Seq(Writes)
  BY <1>1 DEF Call
<1>3. /\ Entry(p) \in Writes /\ Tail(call[p].unread) \in Seq(Writes)
      /\ Range(call[p].unread) = {Entry(p)} \cup Range(Tail(call[p].unread))
  BY <1>1, <1>2, RangeOfRest DEF Entry
<1>4. Append(call[p].keep, Entry(p)) \in Seq(Writes)
  BY <1>2, <1>3
<1>5. Range(Append(call[p].keep, Entry(p))) = Range(call[p].keep) \cup {Entry(p)}
  BY <1>2, <1>3, RangeOfAppend
<1>6. Passed(p) \in Call
  BY <1>1, <1>3 DEF Call, Passed
<1>7. Retained(p) \in Call
  BY <1>1, <1>2, <1>4, <1>6 DEF Call, Retained, Passed
<1>8. QED BY <1>1, <1>3, <1>4, <1>5, <1>6, <1>7

\* What an unanswered attempt can do to the server.
LEMMA RowsTyped ==
  ASSUME StoreTypeOK, NEW p, NEW w \in Writes
  PROVE  Rows(p, w) \subseteq Writes /\ rows \subseteq Rows(p, w)
BY DEF Rows, StoreTypeOK

\* Where a call leaves its run's program.
LEMMA StepTyped ==
  ASSUME StoreTypeOK, NEW w \in Writes
  PROVE  NextStep(w) \in [Runs -> 1..Finished] /\ AfterRaise(w) \in [Runs -> 1..Finished]
<1>1. step \in [Runs -> 1..Finished] /\ Last \in 1..Finished /\ Finished \in 1..Finished
  BY WritesTyped DEF StoreTypeOK
<1>2. CASE w = Other
  BY <1>1, <1>2 DEF NextStep, AfterRaise
<1>3. CASE w # Other
  <2>1. w.run \in Runs /\ w.step + 1 \in 1..Finished
    BY <1>3, WritesTyped
  <2>2. QED BY <1>1, <1>3, <2>1 DEF NextStep, AfterRaise
<1>4. QED BY <1>2, <1>3

LEMMA StoreTypeStep ==
  StoreTypeOK /\ [StoreNext]_vars => StoreTypeOK'
<1> SUFFICES ASSUME StoreTypeOK, [StoreNext]_vars PROVE StoreTypeOK'
  OBVIOUS
<1> USE DEF StoreTypeOK
<1>1. ASSUME NEW p \in Procs, NEW w \in Writes, Begin(p, w) PROVE StoreTypeOK'
  <2>1. [Idle EXCEPT !.pc = "send", !.write = w] \in Call
    BY WritesTyped DEF Call, Idle
  <2>2. [Idle EXCEPT !.pc = "drain", !.write = w, !.unread = journal, !.linked = TRUE] \in Call
    BY WritesTyped DEF Call, Idle
  <2>3. call' \in [Procs -> Call]
    BY <1>1, <2>1, <2>2 DEF Begin
  <2>4. QED BY <1>1, <2>3 DEF Begin, NoFault
<1>2. ASSUME NEW p \in Procs, DrainAccepted(p) PROVE StoreTypeOK'
  <2>1. Reissues(p) /\ call[p].drained < Batch
    BY <1>2 DEF DrainAccepted, Reissues
  <2>2. [Passed(p) EXCEPT !.drained = @ + 1] \in Call
    <3>1. Passed(p) \in Call /\ Passed(p).drained = call[p].drained /\ call[p].drained \in 0..Batch
      BY <2>1, EntryTyped DEF Passed, Call
    <3>2. call[p].drained + 1 \in 0..Batch
      BY <2>1, <3>1, StoreAssumption
    <3>3. QED BY <3>1, <3>2, CallFields
  <2>3. rows' \subseteq Writes
    BY <1>2, <2>1, EntryTyped, RowsTyped DEF DrainAccepted
  <2>4. QED BY <1>2, <2>2, <2>3 DEF DrainAccepted, NoFault
<1>3. ASSUME NEW p \in Procs, DrainTransient(p) PROVE StoreTypeOK'
  <2>1. Reissues(p)
    BY <1>3 DEF DrainTransient
  <2>2. rows' \subseteq Writes
    BY <1>3, <2>1, EntryTyped, RowsTyped DEF DrainTransient, Unanswered
  <2>3. call' \in [Procs -> Call]
    BY <1>3, <2>1, EntryTyped DEF DrainTransient
  <2>4. QED BY <1>3, <2>2, <2>3, StoreAssumption DEF DrainTransient, Fault
<1>4. ASSUME NEW p \in Procs, DrainRejected(p) PROVE StoreTypeOK'
  <2>1. call' \in [Procs -> Call]
    BY <1>4, EntryTyped DEF DrainRejected
  <2>2. QED BY <1>4, <2>1 DEF DrainRejected, NoFault
<1>5. ASSUME NEW p \in Procs, DrainDropped(p) PROVE StoreTypeOK'
  <2>1. call' \in [Procs -> Call] /\ dropped' \subseteq Writes
    BY <1>5, EntryTyped DEF DrainDropped
  <2>2. QED BY <1>5, <2>1 DEF DrainDropped, NoFault
<1>6. ASSUME NEW p \in Procs, DrainInterrupted(p) PROVE StoreTypeOK'
  <2>1. Reissues(p)
    BY <1>6 DEF DrainInterrupted
  <2>2. rows' \subseteq Writes /\ dropped' \subseteq Writes
    BY <1>6, <2>1, EntryTyped, RowsTyped DEF DrainInterrupted, Unanswered
  <2>3. Passed(p) \in Call
    BY <2>1, EntryTyped
  <2>4. QED BY <1>6, <2>2, <2>3, StoreAssumption DEF DrainInterrupted, Fault
<1>7. ASSUME NEW p \in Procs, DrainRest(p) PROVE StoreTypeOK'
  <2>1. call[p].keep \o call[p].unread \in Seq(Writes)
    BY DEF Call
  <2>2. [call[p] EXCEPT !.pc = "rewrite", !.unread = <<>>, !.keep = @ \o call[p].unread] \in Call
    BY <2>1, WritesTyped DEF Call, Idle
  <2>3. call' \in [Procs -> Call]
    BY <1>7, <2>2 DEF DrainRest
  <2>4. QED BY <1>7, <2>3 DEF DrainRest, NoFault
<1>8. ASSUME NEW p \in Procs, Rewrite(p) PROVE StoreTypeOK'
  <2>1. journal' \in Seq(Writes)
    BY <1>8 DEF Rewrite, Call
  <2>2. ASSUME NEW q \in Procs PROVE [call[q] EXCEPT !.linked = FALSE] \in Call
    <3>1. call[q] \in Call
      OBVIOUS
    <3>2. QED BY <3>1, CallFields
  <2>3. [call[p] EXCEPT !.pc = "send", !.linked = FALSE, !.keep = <<>>,
                        !.halt = FALSE, !.drained = 0] \in Call
    <3>1. call[p] \in Call /\ <<>> \in Seq(Writes) /\ 0 \in 0..Batch
      BY StoreAssumption
    <3>2. \A c \in Call, s \in Seq(Writes), n \in 0..Batch :
            [c EXCEPT !.pc = "send", !.linked = FALSE, !.keep = s, !.halt = FALSE,
                      !.drained = n] \in Call
      BY DEF Call
    <3>3. QED BY <3>1, <3>2
  <2>4. call' \in [Procs -> Call]
    BY <1>8, <2>2, <2>3 DEF Rewrite
  <2>5. QED BY <1>8, <2>1, <2>4 DEF Rewrite, NoFault
<1>9. ASSUME NEW p \in Procs PROVE Mine(p) \in Writes
  BY DEF Mine, Call
<1>10. ASSUME NEW p \in Procs, SendAccepted(p) PROVE StoreTypeOK'
  <2>1. rows' \subseteq Writes /\ returned' \subseteq Writes
    BY <1>9, <1>10, RowsTyped DEF SendAccepted, Returns
  <2>2. call' \in [Procs -> Call] /\ step' \in [Runs -> 1..Finished]
    BY <1>9, <1>10, WritesTyped, StepTyped DEF SendAccepted, Returns
  <2>3. QED BY <1>10, <2>1, <2>2 DEF SendAccepted, NoFault
<1>11. ASSUME NEW p \in Procs, SendRetried(p) PROVE StoreTypeOK'
  <2>1. rows' \subseteq Writes
    BY <1>9, <1>11, RowsTyped DEF SendRetried, Unanswered
  <2>2. call[p].tries + 1 \in 0..(MaxAttempts - 1)
    BY <1>11, StoreAssumption DEF SendRetried, Call
  <2>3. [call[p] EXCEPT !.tries = @ + 1] \in Call
    <3>1. call[p] \in Call
      OBVIOUS
    <3>2. QED BY <2>2, <3>1, CallFields
  <2>4. call' = [call EXCEPT ![p] = [call[p] EXCEPT !.tries = @ + 1]]
    BY <1>11 DEF SendRetried
  <2>5. call' \in [Procs -> Call]
    BY <2>3, <2>4
  <2>6. QED BY <1>11, <2>1, <2>5, StoreAssumption DEF SendRetried, Fault
<1>12. ASSUME NEW p \in Procs, SendJournaled(p) PROVE StoreTypeOK'
  <2>1. rows' \subseteq Writes /\ returned' \subseteq Writes
    BY <1>9, <1>12, RowsTyped DEF SendJournaled, Unanswered, Returns
  <2>2. journal' \in Seq(Writes)
    BY <1>9, <1>12 DEF SendJournaled
  <2>3. ASSUME NEW q \in Procs
        PROVE  [call[q] EXCEPT !.unread = Append(@, Mine(p))] \in Call
    <3>1. call[q] \in Call /\ Append(call[q].unread, Mine(p)) \in Seq(Writes)
      BY <1>9 DEF Call
    <3>2. QED BY <3>1, CallFields
  <2>4. call' \in [Procs -> Call] /\ step' \in [Runs -> 1..Finished]
    BY <1>9, <1>12, <2>3, WritesTyped, StepTyped DEF SendJournaled, Returns
  <2>5. QED BY <1>12, <2>1, <2>2, <2>4, StoreAssumption DEF SendJournaled, Fault
<1>13. ASSUME NEW p \in Procs, SendRefused(p) PROVE StoreTypeOK'
  <2>1. call' \in [Procs -> Call] /\ step' \in [Runs -> 1..Finished]
    BY <1>9, <1>13, WritesTyped, StepTyped DEF SendRefused, Raises
  <2>2. QED BY <1>13, <2>1 DEF SendRefused, Raises, NoFault
<1>14. ASSUME NEW p \in Procs, SendInterrupted(p) PROVE StoreTypeOK'
  <2>1. rows' \subseteq Writes
    BY <1>9, <1>14, RowsTyped DEF SendInterrupted, Unanswered
  <2>2. call' \in [Procs -> Call] /\ step' \in [Runs -> 1..Finished]
    BY <1>9, <1>14, WritesTyped, StepTyped DEF SendInterrupted, Raises
  <2>3. QED BY <1>14, <2>1, <2>2, StoreAssumption DEF SendInterrupted, Raises, Fault
<1>15. ASSUME NEW p \in Procs, Crash(p) PROVE StoreTypeOK'
  <2>1. call' \in [Procs -> Call]
    BY <1>15, WritesTyped DEF Crash
  <2>2. QED BY <1>15, <2>1, StoreAssumption DEF Crash, Fault
<1>16. CASE Rollback
  <2>1. server' \in [old : BOOLEAN, deleted : SUBSET Runs]
    BY <1>16 DEF Rollback
  <2>2. faults' \in 0..MaxFaults
    BY <1>16, StoreAssumption DEF Rollback, Fault
  <2>3. QED BY <1>16, <2>1, <2>2 DEF Rollback
<1>17. CASE Upgrade
  BY <1>17 DEF Upgrade, NoFault
<1>18. ASSUME NEW r \in Runs, Delete(r) PROVE StoreTypeOK'
  BY <1>18, StoreAssumption DEF Delete, Fault
<1>19. CASE UNCHANGED vars
  BY <1>19 DEF vars
<1>20. QED
  BY <1>1, <1>2, <1>3, <1>4, <1>5, <1>6, <1>7, <1>8, <1>10, <1>11, <1>12, <1>13, <1>14,
     <1>15, <1>16, <1>17, <1>18, <1>19 DEF StoreNext, Drains, Sends

\* The calls, the journal, the server's rows and the histories hold what the code puts there.
THEOREM StoreTypeCorrect == StoreSpec => []StoreTypeOK
<1>1. StoreInit => StoreTypeOK
  <2> SUFFICES ASSUME StoreInit PROVE StoreTypeOK
    OBVIOUS
  <2>1. <<>> \in Seq(Writes) /\ 0 \in 0..MaxFaults /\ 1 \in 1..Finished
    BY WritesTyped, StoreAssumption
  <2>2. QED BY <2>1, WritesTyped DEF StoreInit, StoreTypeOK
<1>2. QED BY <1>1, StoreTypeStep, PTL DEF StoreSpec

--------------------------------------------------------------------------------
(* A journal of one's own.                                                    *)

\* NothingLost is not inductive: what the rewrite leaves in the file is what the loop kept,
\* so the entries the loop has passed must be accounted for while it runs.
Accounted(p) ==
  /\ At(p, "drain") =>
       Range(journal) \subseteq Range(call[p].keep) \cup Range(call[p].unread) \cup rows \cup dropped
  /\ At(p, "rewrite") =>
       Range(journal) \subseteq Range(call[p].keep) \cup rows \cup dropped

LEMMA NothingLostStep ==
  ASSUME NEW p, Procs = {p}
  PROVE  StoreTypeOK /\ NothingLost /\ Accounted(p) /\ [StoreNext]_vars
           => NothingLost' /\ Accounted(p)'
<1> SUFFICES ASSUME StoreTypeOK, NothingLost, Accounted(p), [StoreNext]_vars
             PROVE  NothingLost' /\ Accounted(p)'
  OBVIOUS
<1> USE DEF At
<1>1. p \in Procs /\ call[p] \in Call /\ call \in [Procs -> Call]
  BY DEF StoreTypeOK
<1>2. /\ journal \in Seq(Writes) /\ call[p].keep \in Seq(Writes)
      /\ call[p].unread \in Seq(Writes) /\ Mine(p) \in Writes
      /\ \A q \in Procs : q = p
  BY <1>1 DEF StoreTypeOK, Call, Mine
<1>3. Range(<<>>) = {}
  BY DEF Range
<1>4. ASSUME NEW w \in Writes PROVE rows \subseteq Rows(p, w)
  BY DEF Rows
<1>5. ASSUME NEW w \in Writes, Begin(p, w) PROVE NothingLost' /\ Accounted(p)'
  <2>1. /\ journal' = journal /\ rows' = rows /\ dropped' = dropped /\ returned' = returned
        /\ call'[p].pc \in {"send", "drain"}
        /\ call'[p].pc = "drain" => call'[p].unread = journal
    BY <1>1, <1>5 DEF Begin, Idle
  <2>2. QED BY <2>1 DEF NothingLost, Accounted
<1>6. ASSUME Reissues(p)
      PROVE  /\ Entry(p) \in Writes
             /\ Range(journal) \subseteq Range(call[p].keep) \cup {Entry(p)}
                  \cup Range(Passed(p).unread) \cup rows \cup dropped
             /\ Passed(p).keep = call[p].keep /\ Passed(p).pc = "drain"
             /\ Retained(p).unread = Passed(p).unread /\ Retained(p).pc = "drain"
             /\ Range(Retained(p).keep) = Range(call[p].keep) \cup {Entry(p)}
  <2>1. /\ Passed(p).keep = call[p].keep /\ Passed(p).pc = call[p].pc
        /\ Passed(p).unread = Tail(call[p].unread) /\ Passed(p) \in Call
    <3>1. Passed(p) \in Call
      BY <1>1, <1>6, EntryTyped
    <3>2. QED BY <1>1, <3>1 DEF Passed, Call
  <2>2. /\ Retained(p).keep = Append(call[p].keep, Entry(p)) /\ Retained(p).pc = call[p].pc
        /\ Retained(p).unread = Tail(call[p].unread)
    BY <1>1, <2>1 DEF Retained, Call
  <2>3. /\ Entry(p) \in Writes
        /\ Range(call[p].unread) = {Entry(p)} \cup Range(Tail(call[p].unread))
        /\ Range(Append(call[p].keep, Entry(p))) = Range(call[p].keep) \cup {Entry(p)}
    BY <1>1, <1>6, EntryTyped
  <2>4. call[p].pc = "drain"
    BY <1>6 DEF Reissues
  <2>5. QED BY <2>1, <2>2, <2>3, <2>4 DEF Accounted
<1>7. CASE DrainAccepted(p)
  <2>1. Reissues(p) /\ rows' = rows \cup {Entry(p)}
    BY <1>7 DEF DrainAccepted, Rows
  <2>2. /\ journal' = journal /\ dropped' = dropped /\ returned' = returned
        /\ call'[p].pc = Passed(p).pc /\ call'[p].keep = Passed(p).keep
        /\ call'[p].unread = Passed(p).unread
    <3>1. Passed(p) \in Call
      BY <1>1, <2>1, EntryTyped
    <3>2. QED BY <1>1, <1>7, <3>1 DEF DrainAccepted, Call
  <2>3. QED BY <1>6, <2>1, <2>2 DEF NothingLost, Accounted
<1>8. CASE DrainTransient(p)
  <2>1. Reissues(p) /\ rows \subseteq rows' /\ call'[p] = Retained(p)
        /\ journal' = journal /\ dropped' = dropped /\ returned' = returned
    BY <1>1, <1>4, <1>6, <1>8 DEF DrainTransient, Unanswered
  <2>2. QED BY <1>6, <2>1 DEF NothingLost, Accounted
<1>9. CASE DrainRejected(p)
  <2>1. Reissues(p) /\ rows' = rows /\ call'[p] = Retained(p)
        /\ journal' = journal /\ dropped' = dropped /\ returned' = returned
    BY <1>1, <1>9 DEF DrainRejected
  <2>2. QED BY <1>6, <2>1 DEF NothingLost, Accounted
<1>10. CASE DrainDropped(p)
  <2>1. Reissues(p) /\ rows' = rows /\ call'[p] = Passed(p)
        /\ journal' = journal /\ dropped' = dropped \cup {Entry(p)} /\ returned' = returned
    BY <1>1, <1>10 DEF DrainDropped
  <2>2. QED BY <1>6, <2>1 DEF NothingLost, Accounted
<1>11. CASE DrainInterrupted(p)
  <2>1. Reissues(p) /\ rows \subseteq rows'
        /\ journal' = journal /\ dropped' = dropped \cup {Entry(p)} /\ returned' = returned
    BY <1>1, <1>4, <1>6, <1>11 DEF DrainInterrupted, Unanswered
  <2>2. /\ call'[p].pc = Passed(p).pc /\ call'[p].keep = Passed(p).keep
        /\ call'[p].unread = Passed(p).unread
    <3>1. Passed(p) \in Call
      BY <1>1, <2>1, EntryTyped
    <3>2. QED BY <1>1, <1>11, <3>1 DEF DrainInterrupted, Call
  <2>3. QED BY <1>6, <2>1, <2>2 DEF NothingLost, Accounted
<1>12. CASE DrainRest(p)
  <2>1. /\ journal' = journal /\ rows' = rows /\ dropped' = dropped /\ returned' = returned
        /\ call[p].pc = "drain" /\ call'[p].pc = "rewrite"
        /\ call'[p].keep = call[p].keep \o call[p].unread
    BY <1>1, <1>12 DEF DrainRest, Call
  <2>2. Range(call'[p].keep) = Range(call[p].keep) \cup Range(call[p].unread)
    BY <1>2, <2>1, RangeOfConcat
  <2>3. QED BY <2>1, <2>2 DEF NothingLost, Accounted
<1>13. CASE Rewrite(p)
  <2>1. /\ journal' = call[p].keep /\ rows' = rows /\ dropped' = dropped /\ returned' = returned
        /\ call[p].pc = "rewrite" /\ call'[p].pc = "send"
    BY <1>1, <1>13 DEF Rewrite, Call
  <2>2. QED BY <2>1 DEF NothingLost, Accounted
<1>14. CASE SendAccepted(p)
  <2>1. /\ journal' = journal /\ rows' = rows \cup {Mine(p)} /\ dropped' = dropped
        /\ returned' = returned \cup {Mine(p)} /\ call'[p].pc = "idle"
    BY <1>1, <1>14 DEF SendAccepted, Rows, Returns, Idle
  <2>2. QED BY <2>1 DEF NothingLost, Accounted
<1>15. CASE SendRetried(p)
  <2>1. /\ journal' = journal /\ rows \subseteq rows' /\ dropped' = dropped
        /\ returned' = returned /\ call'[p].pc = "send"
    BY <1>1, <1>2, <1>4, <1>15 DEF SendRetried, Unanswered, Call
  <2>2. QED BY <2>1 DEF NothingLost, Accounted
<1>16. CASE SendJournaled(p)
  <2>1. /\ journal' = Append(journal, Mine(p)) /\ rows \subseteq rows' /\ dropped' = dropped
        /\ returned' = returned \cup {Mine(p)} /\ call'[p] = Idle
    BY <1>1, <1>2, <1>4, <1>16 DEF SendJournaled, Unanswered, Returns
  <2>2. Range(journal') = Range(journal) \cup {Mine(p)} /\ call'[p].pc = "idle"
    BY <1>2, <2>1, RangeOfAppend DEF Idle
  <2>3. QED BY <2>1, <2>2 DEF NothingLost, Accounted
<1>17. CASE SendRefused(p) \/ SendInterrupted(p)
  <2>1. /\ journal' = journal /\ rows \subseteq rows' /\ dropped' = dropped
        /\ returned' = returned /\ call'[p].pc = "idle"
    BY <1>1, <1>2, <1>4, <1>17
    DEF SendRefused, SendInterrupted, Unanswered, Raises, Idle
  <2>2. QED BY <2>1 DEF NothingLost, Accounted
<1>18. CASE Crash(p)
  <2>1. /\ journal' = journal /\ rows' = rows /\ dropped' = dropped
        /\ returned' = returned /\ call'[p].pc = "idle"
    BY <1>1, <1>18 DEF Crash, Idle
  <2>2. QED BY <2>1 DEF NothingLost, Accounted
<1>19. CASE Rollback \/ Upgrade \/ (\E r \in Runs : Delete(r)) \/ UNCHANGED vars
  <2>1. UNCHANGED <<call, journal, rows, dropped, returned>>
    BY <1>19 DEF Rollback, Upgrade, Delete, vars
  <2>2. QED BY <2>1 DEF NothingLost, Accounted
<1>20. QED
  BY <1>2, <1>5, <1>7, <1>8, <1>9, <1>10, <1>11, <1>12, <1>13, <1>14, <1>15, <1>16, <1>17,
     <1>18, <1>19 DEF StoreNext, Drains, Sends

\* A process with a journal of its own never loses a write whose call returned, but for the
\* entries the drain's terminal branch drops: not by a crash between a delivery and the
\* rewrite, a halted drain, a full batch, a lost acknowledgement or a rollback.
THEOREM OwnJournalLosesNothing ==
  ASSUME NEW p, Procs = {p}
  PROVE  StoreSpec => []NothingLost
<1>1. StoreInit => NothingLost /\ Accounted(p)
  BY DEF StoreInit, NothingLost, Accounted, At, Idle
<1>2. StoreTypeOK /\ (NothingLost /\ Accounted(p)) /\ [StoreNext]_vars
        => (NothingLost /\ Accounted(p))'
  BY NothingLostStep
<1>3. QED BY <1>1, <1>2, StoreTypeCorrect, PTL DEF StoreSpec

--------------------------------------------------------------------------------
(* The order of delivery, however many processes share the file.              *)

\* A process that is inside its drain holds a copy of the file: what it kept, then what it has
\* not read yet.
Holds(p) == call[p].pc \in {"drain", "rewrite"}
Held(p) == call[p].keep \o call[p].unread
Copies == {journal} \cup {Held(p) : p \in {q \in Procs : Holds(q)}}
Settled == rows \cup dropped

\* A followed write is in a copy once, and only after its run went on to its next write.
Single(s) == \A i, j \in DOMAIN s : i < j /\ s[j] # Other => s[i] # s[j]
Past(s, at) == \A w \in Range(s) : w # Other => w.step < at[w.run]

\* What one copy has ahead of a write, another that has the write has ahead of it too, or it
\* is settled.
Ahead(s, k) == {s[l] : l \in 1..(k - 1)}
Agree(s, t, S) ==
  \A j \in DOMAIN s, k \in DOMAIN t :
    s[j] = t[k] /\ s[j] # Other => Ahead(s, j) \subseteq Ahead(t, k) \cup S

CopiesAgree ==
  \A s \in Copies : Single(s) /\ Past(s, step) /\ \A t \in Copies : Agree(s, t, Settled)

\* A loop that has not halted has kept nothing; one whose file is still the journal has what
\* is unsettled of it, and nothing else; one that has ended has read it all.
Reading(p) ==
  /\ At(p, "drain") =>
       /\ ~call[p].halt => call[p].keep = <<>>
       /\ call[p].linked => /\ Range(journal) \subseteq Range(Held(p)) \cup Settled
                            /\ Range(Held(p)) \subseteq Range(journal)
  /\ At(p, "rewrite") => call[p].unread = <<>>

\* A run's write is issued by one process, and it is the write the run has come to.
OneCall ==
  \A p \in Procs : InCall(p) /\ Mine(p) # Other =>
    /\ step[Mine(p).run] = Mine(p).step
    /\ \A q \in Procs : InCall(q) /\ Mine(q) = Mine(p) => q = p

\* DrainInOrder speaks of the file; the processes deliver from their copies of it, some of
\* them of a file that was replaced since.
OrderInv == CopiesAgree /\ (\A p \in Procs : Reading(p)) /\ OneCall

\* A copy agrees with itself.
LEMMA AgreeSelf ==
  ASSUME NEW s \in Seq(Writes), Single(s), NEW S
  PROVE  Agree(s, s, S)
<1>1. ASSUME NEW j \in DOMAIN s, NEW k \in DOMAIN s, s[j] = s[k], s[j] # Other
      PROVE  j = k
  BY <1>1 DEF Single
<1>2. QED BY <1>1 DEF Agree

\* A write that is not in a copy, or that nobody follows, may be put behind the other.
LEMMA AgreeGrown ==
  ASSUME NEW s \in Seq(Writes), NEW t \in Seq(Writes), NEW w \in Writes, NEW S,
         Agree(s, t, S), w # Other => w \notin Range(t)
  PROVE  Agree(Append(s, w), t, S)
<1>1. /\ DOMAIN Append(s, w) = 1..(Len(s) + 1) /\ DOMAIN s = 1..Len(s) /\ Len(s) \in Nat
      /\ Append(s, w)[Len(s) + 1] = w /\ \A i \in 1..Len(s) : Append(s, w)[i] = s[i]
  OBVIOUS
<1>2. ASSUME NEW j \in DOMAIN Append(s, w), NEW k \in DOMAIN t,
             Append(s, w)[j] = t[k], Append(s, w)[j] # Other
      PROVE  Ahead(Append(s, w), j) \subseteq Ahead(t, k) \cup S
  <2>1. j \in 1..Len(s)
    BY <1>1, <1>2 DEF Range
  <2>2. Ahead(Append(s, w), j) = Ahead(s, j)
    BY <1>1, <2>1 DEF Ahead
  <2>3. Append(s, w)[j] = s[j]
    BY <1>1, <2>1
  <2>4. QED BY <1>1, <1>2, <2>1, <2>2, <2>3 DEF Agree
<1>3. QED BY <1>2 DEF Agree

LEMMA AgreeUnderGrown ==
  ASSUME NEW s \in Seq(Writes), NEW t \in Seq(Writes), NEW w \in Writes, NEW S,
         Agree(s, t, S), w # Other => w \notin Range(s)
  PROVE  Agree(s, Append(t, w), S)
<1>1. /\ DOMAIN Append(t, w) = 1..(Len(t) + 1) /\ DOMAIN t = 1..Len(t) /\ Len(t) \in Nat
      /\ Append(t, w)[Len(t) + 1] = w /\ \A i \in 1..Len(t) : Append(t, w)[i] = t[i]
  OBVIOUS
<1>2. ASSUME NEW j \in DOMAIN s, NEW k \in DOMAIN Append(t, w),
             s[j] = Append(t, w)[k], s[j] # Other
      PROVE  Ahead(s, j) \subseteq Ahead(Append(t, w), k) \cup S
  <2>1. k \in 1..Len(t)
    BY <1>1, <1>2 DEF Range
  <2>2. Ahead(Append(t, w), k) = Ahead(t, k)
    BY <1>1, <2>1 DEF Ahead
  <2>3. Append(t, w)[k] = t[k]
    BY <1>1, <2>1
  <2>4. QED BY <1>1, <1>2, <2>1, <2>2, <2>3 DEF Agree
<1>3. QED BY <1>2 DEF Agree

\* A write that is put behind both needs what is ahead of it to be in both or settled.
LEMMA AgreeBothGrown ==
  ASSUME NEW s \in Seq(Writes), NEW t \in Seq(Writes), NEW w \in Writes, NEW S,
         Agree(s, t, S), w # Other => w \notin Range(s) \cup Range(t),
         Range(s) \subseteq Range(t) \cup S
  PROVE  Agree(Append(s, w), Append(t, w), S)
<1>1. /\ DOMAIN Append(s, w) = 1..(Len(s) + 1) /\ DOMAIN s = 1..Len(s) /\ Len(s) \in Nat
      /\ Append(s, w)[Len(s) + 1] = w /\ \A i \in 1..Len(s) : Append(s, w)[i] = s[i]
  OBVIOUS
<1>2. /\ DOMAIN Append(t, w) = 1..(Len(t) + 1) /\ DOMAIN t = 1..Len(t) /\ Len(t) \in Nat
      /\ Append(t, w)[Len(t) + 1] = w /\ \A i \in 1..Len(t) : Append(t, w)[i] = t[i]
  OBVIOUS
<1>3. ASSUME NEW j \in DOMAIN Append(s, w), NEW k \in DOMAIN Append(t, w),
             Append(s, w)[j] = Append(t, w)[k], Append(s, w)[j] # Other
      PROVE  Ahead(Append(s, w), j) \subseteq Ahead(Append(t, w), k) \cup S
  <2>1. CASE j \in 1..Len(s) /\ k \in 1..Len(t)
    <3>1. /\ Ahead(Append(s, w), j) = Ahead(s, j) /\ Append(s, w)[j] = s[j]
      BY <1>1, <2>1 DEF Ahead
    <3>2. /\ Ahead(Append(t, w), k) = Ahead(t, k) /\ Append(t, w)[k] = t[k]
      BY <1>2, <2>1 DEF Ahead
    <3>3. QED BY <1>1, <1>2, <1>3, <2>1, <3>1, <3>2 DEF Agree
  <2>2. CASE j = Len(s) + 1 /\ k = Len(t) + 1
    <3>1. Ahead(Append(s, w), j) = Range(s)
      BY <1>1, <2>2 DEF Ahead, Range
    <3>2. Ahead(Append(t, w), k) = Range(t)
      BY <1>2, <2>2 DEF Ahead, Range
    <3>3. QED BY <3>1, <3>2
  <2>3. CASE j = Len(s) + 1 /\ k \in 1..Len(t)
    BY <1>1, <1>2, <1>3, <2>3 DEF Range
  <2>4. CASE j \in 1..Len(s) /\ k = Len(t) + 1
    BY <1>1, <1>2, <1>3, <2>4 DEF Range
  <2>5. QED BY <1>1, <1>2, <1>3, <2>1, <2>2, <2>3, <2>4
<1>4. QED BY <1>3 DEF Agree

\* A copy without its first entry, which is settled.
LEMMA AgreeShrunk ==
  ASSUME NEW s \in Seq(Writes), NEW t \in Seq(Writes), t # <<>>, NEW S,
         Agree(s, t, S), Head(t) \in S
  PROVE  Agree(s, Tail(t), S)
<1>1. /\ DOMAIN t = 1..Len(t) /\ Len(t) \in Nat \ {0} /\ Head(t) = t[1]
      /\ DOMAIN Tail(t) = 1..(Len(t) - 1)
      /\ \A i \in 1..(Len(t) - 1) : Tail(t)[i] = t[i + 1]
  OBVIOUS
<1>2. ASSUME NEW j \in DOMAIN s, NEW k \in DOMAIN Tail(t), s[j] = Tail(t)[k], s[j] # Other
      PROVE  Ahead(s, j) \subseteq Ahead(Tail(t), k) \cup S
  <2>1. k + 1 \in DOMAIN t /\ s[j] = t[k + 1] /\ k \in 1..(Len(t) - 1)
    BY <1>1, <1>2
  <2>2. Ahead(s, j) \subseteq Ahead(t, k + 1) \cup S
    BY <1>2, <2>1 DEF Agree
  <2>3. ASSUME NEW y \in Ahead(t, k + 1) PROVE y \in Ahead(Tail(t), k) \cup S
    <3>1. PICK l \in 1..k : y = t[l]
      BY <2>1, <2>3 DEF Ahead
    <3>2. CASE l = 1
      BY <1>1, <3>1, <3>2
    <3>3. CASE l # 1
      <4>1. l - 1 \in 1..(k - 1) /\ l - 1 \in 1..(Len(t) - 1) /\ (l - 1) + 1 = l
        BY <2>1, <3>3
      <4>2. Tail(t)[l - 1] = y
        BY <1>1, <3>1, <4>1
      <4>3. QED BY <4>1, <4>2 DEF Ahead
    <3>4. QED BY <3>2, <3>3
  <2>4. QED BY <2>2, <2>3
<1>3. QED BY <1>2 DEF Agree

LEMMA AgreeOfShrunk ==
  ASSUME NEW s \in Seq(Writes), s # <<>>, NEW t \in Seq(Writes), NEW S, Agree(s, t, S)
  PROVE  Agree(Tail(s), t, S)
<1>1. /\ DOMAIN s = 1..Len(s) /\ Len(s) \in Nat \ {0}
      /\ DOMAIN Tail(s) = 1..(Len(s) - 1)
      /\ \A i \in 1..(Len(s) - 1) : Tail(s)[i] = s[i + 1]
  OBVIOUS
<1>2. ASSUME NEW j \in DOMAIN Tail(s), NEW k \in DOMAIN t, Tail(s)[j] = t[k], Tail(s)[j] # Other
      PROVE  Ahead(Tail(s), j) \subseteq Ahead(t, k) \cup S
  <2>1. j + 1 \in DOMAIN s /\ s[j + 1] = t[k] /\ s[j + 1] # Other /\ j \in 1..(Len(s) - 1)
    BY <1>1, <1>2
  <2>2. Ahead(s, j + 1) \subseteq Ahead(t, k) \cup S
    BY <1>2, <2>1 DEF Agree
  <2>3. ASSUME NEW y \in Ahead(Tail(s), j) PROVE y \in Ahead(s, j + 1)
    <3>1. PICK l \in 1..(j - 1) : y = Tail(s)[l]
      BY <2>3 DEF Ahead
    <3>2. l + 1 \in 1..j /\ y = s[l + 1]
      BY <1>1, <2>1, <3>1
    <3>3. QED BY <2>1, <3>2 DEF Ahead
  <2>4. QED BY <2>2, <2>3
<1>3. QED BY <1>2 DEF Agree

LEMMA AgreeMore ==
  ASSUME NEW s, NEW t, NEW S, NEW S2, S \subseteq S2, Agree(s, t, S)
  PROVE  Agree(s, t, S2)
BY DEF Agree

\* What appending and passing an entry leave of a copy's own two properties.
LEMMA SingleGrown ==
  ASSUME NEW s \in Seq(Writes), NEW w \in Writes, Single(s), w # Other => w \notin Range(s)
  PROVE  Single(Append(s, w))
<1>1. /\ DOMAIN Append(s, w) = 1..(Len(s) + 1) /\ DOMAIN s = 1..Len(s) /\ Len(s) \in Nat
      /\ Append(s, w)[Len(s) + 1] = w /\ \A i \in 1..Len(s) : Append(s, w)[i] = s[i]
  OBVIOUS
<1>2. ASSUME NEW i \in DOMAIN Append(s, w), NEW j \in DOMAIN Append(s, w), i < j,
             Append(s, w)[j] # Other
      PROVE  Append(s, w)[i] # Append(s, w)[j]
  <2>1. i \in 1..Len(s)
    BY <1>1, <1>2
  <2>2. CASE j \in 1..Len(s)
    BY <1>1, <1>2, <2>1, <2>2 DEF Single
  <2>3. CASE j = Len(s) + 1
    BY <1>1, <1>2, <2>1, <2>3 DEF Range
  <2>4. QED BY <1>1, <1>2, <2>2, <2>3
<1>3. QED BY <1>2 DEF Single

LEMMA SingleShrunk ==
  ASSUME NEW s \in Seq(Writes), s # <<>>, Single(s)
  PROVE  Single(Tail(s))
<1>1. /\ DOMAIN s = 1..Len(s) /\ Len(s) \in Nat \ {0}
      /\ DOMAIN Tail(s) = 1..(Len(s) - 1)
      /\ \A i \in 1..(Len(s) - 1) : Tail(s)[i] = s[i + 1]
  OBVIOUS
<1>2. ASSUME NEW i \in DOMAIN Tail(s), NEW j \in DOMAIN Tail(s), i < j, Tail(s)[j] # Other
      PROVE  Tail(s)[i] # Tail(s)[j]
  <2>1. i + 1 \in DOMAIN s /\ j + 1 \in DOMAIN s /\ i + 1 < j + 1
        /\ Tail(s)[i] = s[i + 1] /\ Tail(s)[j] = s[j + 1]
    BY <1>1, <1>2
  <2>2. QED BY <1>2, <2>1 DEF Single
<1>3. QED BY <1>2 DEF Single

LEMMA CopiesTyped ==
  ASSUME StoreTypeOK
  PROVE  /\ Copies \subseteq Seq(Writes) /\ journal \in Copies
         /\ \A p \in Procs : Held(p) \in Seq(Writes) /\ (Holds(p) => Held(p) \in Copies)
         /\ \A p \in Procs : call[p] \in Call /\ Mine(p) \in Writes
         /\ \A s \in Seq(Writes) : Range(s) \subseteq Writes
<1>1. ASSUME NEW p \in Procs PROVE call[p] \in Call /\ Mine(p) \in Writes /\ Held(p) \in Seq(Writes)
  <2>1. call[p] \in Call
    BY DEF StoreTypeOK
  <2>2. call[p].keep \in Seq(Writes) /\ call[p].unread \in Seq(Writes) /\ Mine(p) \in Writes
    BY <2>1 DEF Call, Mine
  <2>3. QED BY <2>1, <2>2 DEF Held
<1>2. journal \in Seq(Writes)
  BY DEF StoreTypeOK
<1>3. ASSUME NEW s \in Seq(Writes) PROVE Range(s) \subseteq Writes
  <2>1. \A i \in DOMAIN s : s[i] \in Writes
    OBVIOUS
  <2>2. QED BY <2>1 DEF Range
<1>4. QED BY <1>1, <1>2, <1>3 DEF Copies

\* No write returns to what its run has left behind, whatever happens to the copies.
LEMMA CopiesKept ==
  ASSUME StoreTypeOK, CopiesAgree, Copies' \subseteq Copies, Settled \subseteq Settled',
         \A r \in Runs : step[r] <= step'[r], step' \in [Runs -> 1..Finished]
  PROVE  CopiesAgree'
<1>1. ASSUME NEW s \in Copies PROVE Past(s, step')
  <2>1. s \in Seq(Writes) /\ Past(s, step) /\ Range(s) \subseteq Writes
    BY CopiesTyped DEF CopiesAgree
  <2>2. ASSUME NEW w \in Range(s), w # Other PROVE w.step < step'[w.run]
    <3>1. w.run \in Runs /\ w.step \in 1..Last /\ Last \in Nat
      BY <2>1, <2>2, WritesTyped
    <3>2. w.step < step[w.run] /\ step[w.run] <= step'[w.run]
      BY <2>1, <2>2, <3>1 DEF Past
    <3>3. step[w.run] \in Int /\ step'[w.run] \in Int
      BY <3>1 DEF StoreTypeOK
    <3>4. QED BY <3>1, <3>2, <3>3
  <2>3. QED BY <2>2 DEF Past
<1>2. ASSUME NEW s \in Copies, NEW t \in Copies PROVE Agree(s, t, Settled')
  BY <1>2, AgreeMore DEF CopiesAgree
<1>3. \A s \in Copies' : Single(s) /\ Past(s, step') /\ \A t \in Copies' : Agree(s, t, Settled')
  BY <1>1, <1>2 DEF CopiesAgree
<1>4. QED BY <1>3 DEF CopiesAgree

\* The copies once one process's call has become c.
LEMMA CopiesMoved ==
  ASSUME StoreTypeOK, NEW p \in Procs, NEW c \in Call, call' = [call EXCEPT ![p] = c],
         journal' = journal, NEW S, Copies \subseteq S,
         c.pc \in {"drain", "rewrite"} => c.keep \o c.unread \in S
  PROVE  Copies' \subseteq S
<1>1. call'[p] = c /\ \A q \in Procs \ {p} : call'[q] = call[q]
  BY DEF StoreTypeOK
<1>2. ASSUME NEW q \in Procs, call'[q].pc \in {"drain", "rewrite"}
      PROVE  call'[q].keep \o call'[q].unread \in S
  <2>1. CASE q = p
    BY <1>1, <1>2, <2>1
  <2>2. CASE q # p
    BY <1>1, <1>2, <2>2 DEF Copies, Holds, Held
  <2>3. QED BY <2>1, <2>2
<1>3. journal' \in S
  BY DEF Copies
<1>4. QED BY <1>2, <1>3 DEF Copies, Holds, Held

LEMMA ReadingKept ==
  ASSUME NEW q \in Procs, Reading(q), journal' = journal, Settled \subseteq Settled',
         call'[q] = call[q]
  PROVE  Reading(q)'
BY DEF Reading, Held, At

LEMMA OneCallKept ==
  ASSUME OneCall, step' = step,
         \A q \in Procs : InCall(q)' => InCall(q) /\ Mine(q)' = Mine(q)
  PROVE  OneCall'
BY DEF OneCall

\* A call that goes on, with the copy it had or with none.
LEMMA CallMoves ==
  ASSUME StoreTypeOK, OrderInv, NEW p \in Procs, NEW c \in Call, InCall(p),
         call' = [call EXCEPT ![p] = c], journal' = journal, step' = step,
         Settled \subseteq Settled', c.write = Mine(p),
         c.pc \in {"drain", "rewrite"} => c.keep \o c.unread \in Copies,
         Reading(p)'
  PROVE  OrderInv'
<1>1. call'[p] = c /\ \A q \in Procs \ {p} : call'[q] = call[q]
  BY DEF StoreTypeOK
<1>2. CopiesAgree'
  <2>1. Copies' \subseteq Copies
    BY CopiesMoved
  <2>2. step' \in [Runs -> 1..Finished] /\ \A r \in Runs : step[r] <= step'[r]
    BY WritesTyped DEF StoreTypeOK
  <2>3. QED BY <2>1, <2>2, CopiesKept DEF OrderInv
<1>3. \A q \in Procs : Reading(q)'
  <2>1. ASSUME NEW q \in Procs \ {p} PROVE Reading(q)'
    BY <1>1, ReadingKept DEF OrderInv
  <2>2. QED BY <2>1
<1>4. OneCall'
  <2>1. \A q \in Procs : InCall(q)' => InCall(q) /\ Mine(q)' = Mine(q)
    BY <1>1 DEF InCall, Mine
  <2>2. QED BY <2>1, OneCallKept DEF OrderInv
<1>5. QED BY <1>2, <1>3, <1>4 DEF OrderInv

\* An entry is passed for good: it is settled by the step, and the copy goes on behind it.
LEMMA EntrySettles ==
  ASSUME StoreTypeOK, OrderInv, NEW p \in Procs, Reissues(p), NEW c \in Call,
         call' = [call EXCEPT ![p] = c], journal' = journal, step' = step,
         Settled \subseteq Settled', Entry(p) \in Settled', c.write = Mine(p),
         c.pc = "drain", ~c.halt, c.linked = call[p].linked,
         c.keep = call[p].keep, c.unread = Tail(call[p].unread)
  PROVE  OrderInv'
<1>1. call'[p] = c /\ \A q \in Procs \ {p} : call'[q] = call[q]
  BY DEF StoreTypeOK
<1>2. /\ call[p].keep = <<>> /\ call[p].unread # <<>> /\ call[p].unread \in Seq(Writes)
      /\ At(p, "drain") /\ Holds(p) /\ InCall(p)
  BY DEF Reissues, OrderInv, Reading, At, Holds, InCall, StoreTypeOK, Call
<1>3. \A s \in Seq(Writes) : <<>> \o s = s
  OBVIOUS
<1>4. /\ Held(p) = call[p].unread /\ Held(p) \in Copies
      /\ c.keep \o c.unread = Tail(Held(p)) /\ Tail(Held(p)) \in Seq(Writes)
      /\ Range(Held(p)) = {Entry(p)} \cup Range(Tail(Held(p)))
      /\ Head(Held(p)) = Entry(p)
  <2>1. Held(p) = call[p].unread /\ Held(p) \in Copies
    BY <1>2, <1>3, CopiesTyped DEF Held
  <2>2. Tail(Held(p)) \in Seq(Writes) /\ Range(Held(p)) = {Head(Held(p))} \cup Range(Tail(Held(p)))
    BY <1>2, <2>1, RangeOfRest
  <2>3. c.keep \o c.unread = Tail(Held(p))
    BY <1>2, <1>3, <2>1, <2>2
  <2>4. QED BY <2>1, <2>2, <2>3 DEF Entry
<1>5. CopiesAgree'
  <2>1. Copies' \subseteq Copies \cup {Tail(Held(p))}
    <3>1. PICK S : S = Copies \cup {Tail(Held(p))}
      OBVIOUS
    <3>2. Copies' \subseteq S
      BY <1>4, <3>1, CopiesMoved
    <3>3. QED BY <3>1, <3>2
  <2>2. ASSUME NEW s \in Copies PROVE Single(s) /\ Past(s, step)
    BY <2>2 DEF OrderInv, CopiesAgree
  <2>3. Single(Tail(Held(p)))
    <3>1. Single(Held(p)) /\ Held(p) # <<>>
      BY <1>2, <1>4, <2>2
    <3>2. Held(p) \in Seq(Writes)
      BY <1>2, <1>4
    <3>3. QED BY <3>1, <3>2, SingleShrunk
  <2>4. Past(Tail(Held(p)), step)
    BY <1>4, <2>2 DEF Past
  <2>5. ASSUME NEW s \in Copies, NEW t \in Copies PROVE Agree(s, t, Settled')
    BY <2>5, AgreeMore DEF OrderInv, CopiesAgree
  <2>6. ASSUME NEW s \in Copies
        PROVE  Agree(s, Tail(Held(p)), Settled') /\ Agree(Tail(Held(p)), s, Settled')
    <3>1. s \in Seq(Writes) /\ Held(p) \in Seq(Writes) /\ Held(p) # <<>>
      BY <1>2, <1>4, <2>6, CopiesTyped
    <3>2. Agree(s, Held(p), Settled') /\ Agree(Held(p), s, Settled')
      BY <1>4, <2>5, <2>6
    <3>3. Agree(s, Tail(Held(p)), Settled')
      BY <1>4, <3>1, <3>2, AgreeShrunk
    <3>4. Agree(Tail(Held(p)), s, Settled')
      BY <3>1, <3>2, AgreeOfShrunk
    <3>5. QED BY <3>3, <3>4
  <2>7. Agree(Tail(Held(p)), Tail(Held(p)), Settled')
    BY <1>4, <2>3, AgreeSelf
  <2>8. \A s \in Copies' : Single(s) /\ Past(s, step') /\ \A t \in Copies' : Agree(s, t, Settled')
    BY <2>1, <2>2, <2>3, <2>4, <2>5, <2>6, <2>7
  <2>9. QED BY <2>8 DEF CopiesAgree
<1>6. \A q \in Procs : Reading(q)'
  <2>1. ASSUME NEW q \in Procs \ {p} PROVE Reading(q)'
    BY <1>1, ReadingKept DEF OrderInv
  <2>2. Reading(p)'
    <3>1. Held(p)' = Tail(Held(p))
      BY <1>1, <1>4 DEF Held
    <3>2. call[p].linked => /\ Range(journal) \subseteq Range(Held(p)) \cup Settled
                            /\ Range(Held(p)) \subseteq Range(journal)
      BY <1>2 DEF OrderInv, Reading
    <3>3. call'[p].keep = <<>>
      BY <1>1, <1>2
    <3>4. call'[p].linked => /\ Range(journal') \subseteq Range(Held(p)') \cup Settled'
                             /\ Range(Held(p)') \subseteq Range(journal')
      BY <1>1, <1>4, <3>1, <3>2
    <3>5. QED BY <1>1, <3>3, <3>4 DEF Reading, At
  <2>3. QED BY <2>1, <2>2
<1>7. OneCall'
  <2>1. \A q \in Procs : InCall(q)' => InCall(q) /\ Mine(q)' = Mine(q)
    BY <1>1, <1>2 DEF InCall, Mine
  <2>2. QED BY <2>1, OneCallKept DEF OrderInv
<1>8. QED BY <1>5, <1>6, <1>7 DEF OrderInv

\* Where a call's end leaves the runs: the write's own run is behind it, the others stay.
Ends(w) ==
  \/ step' = step
  \/ w # Other /\ \E n \in Nat : n > w.step /\ step' = [step EXCEPT ![w.run] = n]

LEMMA StepEnds ==
  ASSUME StoreTypeOK, NEW w \in Writes, step' = NextStep(w) \/ step' = AfterRaise(w)
  PROVE  Ends(w)
<1>1. w = Other \/ (w.step \in 1..Last /\ Last \in Nat /\ Finished = Last + 1)
  BY WritesTyped
<1>2. CASE w = Other
  BY <1>2 DEF NextStep, AfterRaise, Ends
<1>3. CASE w # Other
  <2>1. \E n \in Nat : n > w.step /\ step' = [step EXCEPT ![w.run] = n]
    <3>1. CASE step' = NextStep(w)
      <4>1. w.step + 1 \in Nat /\ w.step + 1 > w.step
        BY <1>1, <1>3
      <4>2. step' = [step EXCEPT ![w.run] = w.step + 1]
        BY <1>3, <3>1 DEF NextStep
      <4>3. QED BY <4>1, <4>2
    <3>2. CASE step' = AfterRaise(w) /\ IsSave(w)
      <4>1. Last > w.step
        BY <1>1, <1>3, <3>2 DEF IsSave
      <4>2. QED BY <1>1, <1>3, <3>2, <4>1 DEF AfterRaise
    <3>3. CASE step' = AfterRaise(w) /\ ~IsSave(w)
      <4>1. Finished \in Nat /\ Finished > w.step
        BY <1>1, <1>3
      <4>2. step' = [step EXCEPT ![w.run] = Finished]
        BY <1>3, <3>3 DEF AfterRaise
      <4>3. QED BY <4>1, <4>2
    <3>4. QED BY <3>1, <3>2, <3>3
  <2>2. QED BY <1>3, <2>1 DEF Ends
<1>4. QED BY <1>2, <1>3

\* The runs move on, and the calls that are left are still each the only one for its run.
LEMMA CallEndsOnce ==
  ASSUME StoreTypeOK, OneCall, NEW p \in Procs, InCall(p), Ends(Mine(p)),
         ~InCall(p)', \A q \in Procs \ {p} : InCall(q)' => InCall(q) /\ Mine(q)' = Mine(q)
  PROVE  OneCall' /\ \A r \in Runs : step[r] <= step'[r]
<1>1. step \in [Runs -> 1..Finished] /\ Finished \in Nat
  BY WritesTyped DEF StoreTypeOK
<1>2. CASE step' = step
  <2>1. \A q \in Procs : InCall(q)' => InCall(q) /\ Mine(q)' = Mine(q)
    OBVIOUS
  <2>2. \A r \in Runs : step[r] <= step'[r]
    BY <1>1, <1>2
  <2>3. QED BY <1>2, <2>1, <2>2, OneCallKept
<1>3. CASE step' # step
  <2>1. /\ Mine(p) # Other /\ Mine(p) \in Write
        /\ step[Mine(p).run] = Mine(p).step /\ Mine(p).run \in Runs
        /\ \E n \in Nat : n > Mine(p).step /\ step' = [step EXCEPT ![Mine(p).run] = n]
    <3>1. Mine(p) # Other /\ \E n \in Nat : n > Mine(p).step /\ step' = [step EXCEPT ![Mine(p).run] = n]
      BY <1>3 DEF Ends
    <3>2. Mine(p) \in Write
      BY <3>1, CopiesTyped DEF Writes
    <3>3. QED BY <3>1, <3>2 DEF OneCall, Write
  <2>2. PICK n \in Nat : n > Mine(p).step /\ step' = [step EXCEPT ![Mine(p).run] = n]
    BY <2>1
  <2>3. \A r \in Runs : step[r] <= step'[r]
    BY <1>1, <2>1, <2>2
  <2>4. ASSUME NEW q \in Procs, InCall(q)', Mine(q)' # Other
        PROVE  /\ step'[Mine(q)'.run] = Mine(q)'.step
               /\ \A r \in Procs : InCall(r)' /\ Mine(r)' = Mine(q)' => r = q
    <3>1. q # p /\ InCall(q) /\ Mine(q)' = Mine(q)
      BY <2>4
    <3>2. Mine(q) \in Write
      BY <2>4, <3>1, CopiesTyped DEF Writes
    <3>3. step[Mine(q).run] = Mine(q).step
      BY <2>4, <3>1 DEF OneCall
    <3>4. Mine(q) # Mine(p)
      BY <2>1, <3>1 DEF OneCall
    <3>5. Mine(q).run # Mine(p).run
      <4>1. ASSUME NEW v \in Write, NEW w \in Write, v.run = w.run, v.step = w.step PROVE v = w
        BY <4>1 DEF Write
      <4>2. QED BY <2>1, <3>2, <3>3, <3>4, <4>1
    <3>6. step'[Mine(q).run] = step[Mine(q).run]
      BY <1>1, <2>2, <3>2, <3>5 DEF Write
    <3>7. ASSUME NEW r \in Procs, InCall(r)', Mine(r)' = Mine(q)' PROVE r = q
      <4>1. InCall(r) /\ Mine(r)' = Mine(r)
        BY <3>7
      <4>2. QED BY <2>4, <3>1, <3>7, <4>1 DEF OneCall
    <3>8. QED BY <3>1, <3>3, <3>6, <3>7
  <2>5. QED BY <2>3, <2>4 DEF OneCall
<1>4. QED BY <1>2, <1>3

\* A call ends with nothing put into the file.
LEMMA CallLeaves ==
  ASSUME StoreTypeOK, OrderInv, NEW p \in Procs, InCall(p), Ends(Mine(p)),
         call' = [call EXCEPT ![p] = Idle], journal' = journal, Settled \subseteq Settled',
         step' \in [Runs -> 1..Finished]
  PROVE  OrderInv'
<1>1. call'[p] = Idle /\ \A q \in Procs \ {p} : call'[q] = call[q]
  BY DEF StoreTypeOK
<1>2. OneCall' /\ \A r \in Runs : step[r] <= step'[r]
  <2>1. ~InCall(p)' /\ \A q \in Procs \ {p} : InCall(q)' => InCall(q) /\ Mine(q)' = Mine(q)
    BY <1>1 DEF InCall, Mine, Idle
  <2>2. OneCall
    BY DEF OrderInv
  <2>3. QED BY <2>1, <2>2, CallEndsOnce
<1>3. CopiesAgree'
  <2>1. Copies' \subseteq Copies
    <3>1. Idle \in Call /\ Idle.pc = "idle"
      BY WritesTyped DEF Idle
    <3>2. QED BY <3>1, CopiesMoved
  <2>2. QED BY <1>2, <2>1, CopiesKept DEF OrderInv
<1>4. \A q \in Procs : Reading(q)'
  <2>1. ASSUME NEW q \in Procs \ {p} PROVE Reading(q)'
    BY <1>1, ReadingKept DEF OrderInv
  <2>2. Reading(p)'
    BY <1>1 DEF Reading, At, Idle
  <2>3. QED BY <2>1, <2>2
<1>5. QED BY <1>2, <1>3, <1>4 DEF OrderInv

LEMMA OrderBegins ==
  ASSUME StoreTypeOK, StoreTypeOK', OrderInv, NEW p \in Procs, NEW w \in Writes, Begin(p, w)
  PROVE  OrderInv'
<1>1. /\ call'[p].pc \in {"send", "drain"} /\ call'[p].write = w /\ call'[p] \in Call
      /\ call'[p].keep = <<>> /\ ~call'[p].halt
      /\ call'[p].pc = "drain" => call'[p].unread = journal
      /\ call' = [call EXCEPT ![p] = call'[p]]
      /\ \A q \in Procs \ {p} : call'[q] = call[q]
      /\ journal' = journal /\ step' = step /\ Settled' = Settled
  BY DEF Begin, StoreTypeOK, Idle, Settled
<1>2. journal \in Seq(Writes) /\ \A s \in Seq(Writes) : <<>> \o s = s
  BY DEF StoreTypeOK
<1>3. CopiesAgree'
  <2>1. Copies' \subseteq Copies
    <3>1. call'[p].pc \in {"drain", "rewrite"} => call'[p].keep \o call'[p].unread \in Copies
      BY <1>1, <1>2, CopiesTyped
    <3>2. PICK c \in Call : c = call'[p]
      BY <1>1
    <3>3. QED BY <1>1, <3>1, <3>2, CopiesMoved
  <2>2. step' \in [Runs -> 1..Finished] /\ \A r \in Runs : step[r] <= step'[r]
    BY <1>1, WritesTyped DEF StoreTypeOK
  <2>3. QED BY <1>1, <2>1, <2>2, CopiesKept DEF OrderInv
<1>4. \A q \in Procs : Reading(q)'
  <2>1. ASSUME NEW q \in Procs \ {p} PROVE Reading(q)'
    BY <1>1, ReadingKept DEF OrderInv
  <2>2. ASSUME call'[p].pc = "drain" PROVE Reading(p)'
    <3>1. Held(p)' = journal
      BY <1>1, <1>2, <2>2 DEF Held
    <3>2. QED BY <1>1, <2>2, <3>1 DEF Reading, At
  <2>3. ASSUME call'[p].pc # "drain" PROVE Reading(p)'
    BY <1>1, <2>3 DEF Reading, At
  <2>4. QED BY <2>1, <2>2, <2>3
<1>5. OneCall'
  <2>1. w = Other \/ (step[w.run] = w.step /\ \A q \in Procs : InCall(q) => Mine(q) # w)
    BY DEF Begin, Issues, Mine
  <2>2. Mine(p)' = w /\ \A q \in Procs \ {p} : Mine(q)' = Mine(q) /\ (InCall(q)' <=> InCall(q))
    BY <1>1 DEF Mine, InCall
  <2>3. ASSUME NEW q \in Procs, InCall(q)', Mine(q)' # Other
        PROVE  /\ step'[Mine(q)'.run] = Mine(q)'.step
               /\ \A r \in Procs : InCall(r)' /\ Mine(r)' = Mine(q)' => r = q
    <3>1. CASE q = p
      BY <1>1, <2>1, <2>2, <2>3, <3>1
    <3>2. CASE q # p
      <4>1. InCall(q) /\ Mine(q)' = Mine(q) /\ Mine(q) # Other
        BY <2>2, <2>3, <3>2
      <4>2. Mine(q) # w
        BY <2>1, <4>1
      <4>3. /\ step[Mine(q).run] = Mine(q).step
            /\ \A r \in Procs : InCall(r) /\ Mine(r) = Mine(q) => r = q
        BY <4>1 DEF OrderInv, OneCall
      <4>4. ASSUME NEW r \in Procs, InCall(r)', Mine(r)' = Mine(q)' PROVE r = q
        <5>1. r # p
          BY <2>2, <4>1, <4>2, <4>4
        <5>2. QED BY <2>2, <4>1, <4>3, <4>4, <5>1
      <4>5. QED BY <1>1, <4>1, <4>3, <4>4
    <3>3. QED BY <3>1, <3>2
  <2>4. QED BY <2>3 DEF OneCall
<1>6. QED BY <1>3, <1>4, <1>5 DEF OrderInv

LEMMA OrderRewrites ==
  ASSUME StoreTypeOK, OrderInv, NEW p \in Procs, Rewrite(p)
  PROVE  OrderInv'
<1>1. call[p] \in Call /\ call[p].keep \in Seq(Writes) /\ call[p].pc = "rewrite"
  BY DEF StoreTypeOK, Call, Rewrite, At
<1>2. /\ step' = step /\ Settled' = Settled /\ journal' = call[p].keep
      /\ call'[p].pc = "send" /\ Mine(p)' = Mine(p)
  BY <1>1 DEF Rewrite, Settled, Mine, Call
<1>3. ASSUME NEW q \in Procs \ {p}
      PROVE  /\ call'[q].pc = call[q].pc /\ call'[q].write = call[q].write
             /\ call'[q].keep = call[q].keep /\ call'[q].unread = call[q].unread
             /\ call'[q].halt = call[q].halt /\ ~call'[q].linked
  <2>1. call[q] \in Call /\ call'[q] = [call[q] EXCEPT !.linked = FALSE]
    BY DEF StoreTypeOK, Rewrite
  <2>2. QED BY <2>1 DEF Call
<1>4. call[p].unread = <<>> /\ Held(p) = call[p].keep /\ Held(p) \in Copies
  <2>1. call[p].unread = <<>>
    BY <1>1 DEF OrderInv, Reading, At
  <2>2. \A s \in Seq(Writes) : s \o <<>> = s
    OBVIOUS
  <2>3. QED BY <1>1, <2>1, <2>2, CopiesTyped DEF Held, Holds
<1>5. CopiesAgree'
  <2>1. ASSUME NEW q \in Procs, Holds(q)' PROVE Held(q)' \in Copies
    <3>1. q # p
      BY <1>2, <2>1 DEF Holds
    <3>2. Holds(q) /\ Held(q)' = Held(q)
      BY <1>3, <2>1, <3>1 DEF Holds, Held
    <3>3. QED BY <3>2, CopiesTyped
  <2>2. Copies' \subseteq Copies
    BY <1>2, <1>4, <2>1 DEF Copies
  <2>3. step' \in [Runs -> 1..Finished] /\ \A r \in Runs : step[r] <= step'[r]
    BY <1>2, WritesTyped DEF StoreTypeOK
  <2>4. QED BY <1>2, <2>2, <2>3, CopiesKept DEF OrderInv
<1>6. \A q \in Procs : Reading(q)'
  <2>1. ASSUME NEW q \in Procs \ {p} PROVE Reading(q)'
    <3>1. Reading(q)
      BY DEF OrderInv
    <3>2. QED BY <1>3, <3>1 DEF Reading, At
  <2>2. Reading(p)'
    BY <1>2 DEF Reading, At
  <2>3. QED BY <2>1, <2>2
<1>7. OneCall'
  <2>1. \A q \in Procs : InCall(q)' => InCall(q) /\ Mine(q)' = Mine(q)
    BY <1>1, <1>2, <1>3 DEF InCall, Mine
  <2>2. QED BY <1>2, <2>1, OneCallKept DEF OrderInv
<1>8. QED BY <1>5, <1>6, <1>7 DEF OrderInv

\* The write goes to the end of the file, and of every copy of that file that is still read.
LEMMA OrderJournals ==
  ASSUME StoreTypeOK, StoreTypeOK', OrderInv, NEW p \in Procs, SendJournaled(p)
  PROVE  OrderInv'
<1>1. /\ InCall(p) /\ Mine(p) \in Writes /\ journal \in Seq(Writes)
      /\ journal' = Append(journal, Mine(p)) /\ call'[p] = Idle
      /\ Settled \subseteq Settled' /\ Ends(Mine(p))
      /\ step' \in [Runs -> 1..Finished]
  <2>1. Mine(p) \in Writes /\ journal \in Seq(Writes) /\ step' \in [Runs -> 1..Finished]
    BY CopiesTyped DEF StoreTypeOK
  <2>2. Settled \subseteq Settled'
    BY DEF SendJournaled, Unanswered, Rows, Settled
  <2>3. Ends(Mine(p))
    BY <2>1, StepEnds DEF SendJournaled, Returns
  <2>4. QED BY <2>1, <2>2, <2>3 DEF SendJournaled, StoreTypeOK, InCall, At
<1>2. ASSUME NEW q \in Procs \ {p}
      PROVE  IF At(q, "drain") /\ call[q].linked
             THEN /\ call'[q].pc = call[q].pc /\ call'[q].write = call[q].write
                  /\ call'[q].keep = call[q].keep /\ call'[q].halt = call[q].halt
                  /\ Held(q)' = Append(Held(q), Mine(p))
             ELSE call'[q] = call[q]
  <2>1. call'[q] = IF At(q, "drain") /\ call[q].linked
                   THEN [call[q] EXCEPT !.unread = Append(@, Mine(p))] ELSE call[q]
    BY DEF SendJournaled, StoreTypeOK
  <2>2. CASE At(q, "drain") /\ call[q].linked
    <3>1. call[q] \in Call /\ call'[q] = [call[q] EXCEPT !.unread = Append(@, Mine(p))]
      BY <2>1, <2>2, CopiesTyped
    <3>2. /\ call'[q].pc = call[q].pc /\ call'[q].write = call[q].write
          /\ call'[q].keep = call[q].keep /\ call'[q].halt = call[q].halt
          /\ call'[q].unread = Append(call[q].unread, Mine(p))
      BY <3>1 DEF Call
    <3>3. call[q].keep \in Seq(Writes) /\ call[q].unread \in Seq(Writes)
      BY <3>1 DEF Call
    <3>4. \A s, t \in Seq(Writes), w \in Writes : s \o Append(t, w) = Append(s \o t, w)
      OBVIOUS
    <3>5. Held(q)' = Append(Held(q), Mine(p))
      BY <1>1, <3>2, <3>3, <3>4 DEF Held
    <3>6. QED BY <2>2, <3>2, <3>5
  <2>3. QED BY <2>1, <2>2
<1>3. OneCall' /\ \A r \in Runs : step[r] <= step'[r]
  <2>1. ~InCall(p)' /\ \A q \in Procs \ {p} : InCall(q)' => InCall(q) /\ Mine(q)' = Mine(q)
    BY <1>1, <1>2 DEF InCall, Mine, Idle
  <2>2. OneCall
    BY DEF OrderInv
  <2>3. QED BY <1>1, <2>1, <2>2, CallEndsOnce
<1>4. PICK w : w = Mine(p)
  OBVIOUS
<1>5. PICK G : G = {journal} \cup {Held(q) : q \in {r \in Procs : At(r, "drain") /\ call[r].linked}}
  OBVIOUS
<1>6. /\ G \subseteq Copies /\ Copies \subseteq Seq(Writes) /\ w \in Writes
      /\ \A s \in Copies : w # Other => w \notin Range(s)
  <2>1. G \subseteq Copies
    BY <1>5 DEF Copies, Holds, At
  <2>2. ASSUME w # Other, NEW s \in Copies PROVE w \notin Range(s)
    <3>1. w.step = step[w.run]
      BY <1>1, <1>4, <2>2 DEF OrderInv, OneCall
    <3>2. w.run \in Runs /\ w.step \in 1..Last /\ Last \in Nat
      BY <1>1, <1>4, <2>2, WritesTyped
    <3>3. Past(s, step)
      BY DEF OrderInv, CopiesAgree
    <3>4. QED BY <2>2, <3>1, <3>2, <3>3 DEF Past
  <2>3. QED BY <1>1, <1>4, <2>1, <2>2, CopiesTyped
<1>7. ASSUME NEW s \in G, NEW t \in G PROVE Range(s) \subseteq Range(t) \cup Settled
  <2>1. ASSUME NEW u \in G
        PROVE  Range(journal) \subseteq Range(u) \cup Settled /\ Range(u) \subseteq Range(journal)
    BY <1>5, <2>1 DEF OrderInv, Reading
  <2>2. QED BY <2>1
<1>8. Copies' \subseteq Copies \cup {Append(t, w) : t \in G}
  <2>1. ASSUME NEW q \in Procs, Holds(q)'
        PROVE  Held(q)' \in Copies \cup {Append(t, w) : t \in G}
    <3>1. q # p
      BY <1>1, <2>1 DEF Holds, Idle
    <3>2. CASE At(q, "drain") /\ call[q].linked
      BY <1>2, <1>4, <1>5, <3>1, <3>2
    <3>3. CASE ~(At(q, "drain") /\ call[q].linked)
      <4>1. Holds(q) /\ Held(q)' = Held(q)
        BY <1>2, <2>1, <3>1, <3>3 DEF Holds, Held
      <4>2. QED BY <4>1, CopiesTyped
    <3>4. QED BY <3>2, <3>3
  <2>2. journal' \in {Append(t, w) : t \in G}
    BY <1>1, <1>4, <1>5
  <2>3. QED BY <2>1, <2>2 DEF Copies
<1>9. ASSUME NEW s \in Copies, NEW t \in Copies
      PROVE  Single(s) /\ Past(s, step') /\ Agree(s, t, Settled')
  <2>1. Single(s) /\ Agree(s, t, Settled')
    BY <1>1, <1>9, AgreeMore DEF OrderInv, CopiesAgree
  <2>2. ASSUME NEW v \in Range(s), v # Other PROVE v.step < step'[v.run]
    <3>1. v.run \in Runs /\ v.step \in 1..Last /\ Last \in Nat
      BY <1>6, <2>2, CopiesTyped, WritesTyped
    <3>2. v.step < step[v.run] /\ step[v.run] <= step'[v.run]
      BY <1>3, <2>2, <3>1 DEF OrderInv, CopiesAgree, Past
    <3>3. step[v.run] \in Int /\ step'[v.run] \in Int
      BY <1>1, <3>1 DEF StoreTypeOK
    <3>4. QED BY <3>1, <3>2, <3>3
  <2>3. QED BY <2>1, <2>2 DEF Past
<1>10. w # Other => w.step < step'[w.run]
  <2>1. SUFFICES ASSUME w # Other PROVE w.step < step'[w.run]
    OBVIOUS
  <2>2. w.step \in 1..Last /\ w.run \in Runs /\ step[w.run] = w.step
    BY <1>1, <1>4, <2>1, WritesTyped DEF OrderInv, OneCall
  <2>3. step' = NextStep(w)
    BY <1>4 DEF SendJournaled, Returns
  <2>4. step' = [step EXCEPT ![w.run] = w.step + 1]
    BY <2>1, <2>3 DEF NextStep
  <2>5. step'[w.run] = w.step + 1
    BY <2>2, <2>4 DEF StoreTypeOK
  <2>6. QED BY <2>2, <2>5
<1>11. ASSUME NEW s \in G, NEW t \in Copies
       PROVE  /\ Single(Append(s, w)) /\ Past(Append(s, w), step')
              /\ Agree(Append(s, w), t, Settled') /\ Agree(t, Append(s, w), Settled')
  <2>1. s \in Copies /\ s \in Seq(Writes) /\ t \in Seq(Writes)
    BY <1>6
  <2>2. Single(s) /\ Past(s, step') /\ Agree(s, t, Settled') /\ Agree(t, s, Settled')
    BY <1>9, <1>11, <2>1
  <2>3. (w # Other => w \notin Range(s)) /\ (w # Other => w \notin Range(t))
    BY <1>6, <1>11, <2>1
  <2>4. Single(Append(s, w))
    BY <1>6, <2>1, <2>2, <2>3, SingleGrown
  <2>5. Range(Append(s, w)) = Range(s) \cup {w}
    BY <1>6, <2>1, RangeOfAppend
  <2>6. Past(Append(s, w), step')
    BY <1>10, <2>2, <2>5 DEF Past
  <2>7. Agree(Append(s, w), t, Settled')
    BY <1>6, <2>1, <2>2, <2>3, AgreeGrown
  <2>8. Agree(t, Append(s, w), Settled')
    BY <1>6, <2>1, <2>2, <2>3, AgreeUnderGrown
  <2>9. QED BY <2>4, <2>6, <2>7, <2>8
<1>12. ASSUME NEW s \in G, NEW t \in G PROVE Agree(Append(s, w), Append(t, w), Settled')
  <2>1. s \in Seq(Writes) /\ t \in Seq(Writes) /\ s \in Copies /\ t \in Copies
    BY <1>6
  <2>2. Agree(s, t, Settled') /\ Range(s) \subseteq Range(t) \cup Settled'
    BY <1>1, <1>7, <1>9, <2>1
  <2>3. w # Other => w \notin Range(s) \cup Range(t)
    BY <1>6, <2>1
  <2>4. QED BY <1>6, <2>1, <2>2, <2>3, AgreeBothGrown
<1>13. CopiesAgree'
  <2>1. ASSUME NEW s \in Copies', NEW t \in Copies'
        PROVE  Single(s) /\ Past(s, step') /\ Agree(s, t, Settled')
    <3>1. CASE s \in Copies /\ t \in Copies
      BY <1>9, <3>1
    <3>2. CASE s \in Copies /\ t \notin Copies
      <4>1. PICK u \in G : t = Append(u, w)
        BY <1>8, <2>1, <3>2
      <4>2. Agree(s, Append(u, w), Settled')
        BY <1>11, <3>2
      <4>3. QED BY <1>9, <3>2, <4>1, <4>2
    <3>3. CASE s \notin Copies
      <4>1. PICK u \in G : s = Append(u, w)
        BY <1>8, <2>1, <3>3
      <4>2. Single(s) /\ Past(s, step')
        BY <1>6, <1>11, <4>1
      <4>3. CASE t \in Copies
        BY <1>11, <4>1, <4>2, <4>3
      <4>4. CASE t \notin Copies
        <5>1. PICK v \in G : t = Append(v, w)
          BY <1>8, <2>1, <4>4
        <5>2. QED BY <1>12, <4>1, <4>2, <5>1
      <4>5. QED BY <4>3, <4>4
    <3>4. QED BY <3>1, <3>2, <3>3
  <2>2. QED BY <2>1 DEF CopiesAgree
<1>14. \A q \in Procs : Reading(q)'
  <2>1. ASSUME NEW q \in Procs PROVE Reading(q)'
    <3>1. CASE q = p
      BY <1>1, <3>1 DEF Reading, At, Idle
    <3>2. CASE q # p /\ At(q, "drain") /\ call[q].linked
      <4>1. Held(q) \in G /\ Held(q) \in Seq(Writes)
        BY <1>5, <3>2, CopiesTyped
      <4>2. Range(journal') = Range(journal) \cup {w} /\ Range(Held(q)') = Range(Held(q)) \cup {w}
        <5>1. journal' = Append(journal, w) /\ Held(q)' = Append(Held(q), w)
          BY <1>1, <1>2, <1>4, <3>2
        <5>2. Range(Append(journal, w)) = Range(journal) \cup {w}
          BY <1>1, <1>6, RangeOfAppend
        <5>3. Range(Append(Held(q), w)) = Range(Held(q)) \cup {w}
          BY <1>6, <4>1, RangeOfAppend
        <5>4. QED BY <5>1, <5>2, <5>3
      <4>3. /\ Range(journal') \subseteq Range(Held(q)') \cup Settled'
            /\ Range(Held(q)') \subseteq Range(journal')
        BY <1>1, <1>5, <1>7, <4>1, <4>2, <3>2 DEF OrderInv, Reading
      <4>4. ~call'[q].halt => call'[q].keep = <<>>
        BY <1>2, <3>2 DEF OrderInv, Reading
      <4>5. call'[q].pc = "drain"
        BY <1>2, <3>2 DEF At
      <4>6. QED BY <4>3, <4>4, <4>5 DEF Reading, At
    <3>3. CASE q # p /\ ~(At(q, "drain") /\ call[q].linked)
      <4>1. call'[q] = call[q] /\ Reading(q)
        BY <1>2, <3>3 DEF OrderInv
      <4>2. QED BY <3>3, <4>1 DEF Reading, At
    <3>4. QED BY <3>1, <3>2, <3>3
  <2>2. QED BY <2>1
<1>15. QED BY <1>3, <1>13, <1>14 DEF OrderInv

LEMMA OrderStep ==
  StoreTypeOK /\ StoreTypeOK' /\ OrderInv /\ [StoreNext]_vars => OrderInv'
<1> SUFFICES ASSUME StoreTypeOK, StoreTypeOK', OrderInv, [StoreNext]_vars PROVE OrderInv'
  OBVIOUS
<1>1. \A p \in Procs : \A w : rows \subseteq Rows(p, w)
  BY DEF Rows
<1>2. ASSUME NEW p \in Procs, At(p, "drain") \/ At(p, "send") PROVE InCall(p)
  BY <1>2 DEF At, InCall
<1>3. ASSUME NEW p \in Procs, Reissues(p)
      PROVE  /\ Passed(p) \in Call /\ Passed(p).pc = "drain" /\ ~Passed(p).halt
             /\ Passed(p).write = Mine(p) /\ Passed(p).linked = call[p].linked
             /\ Passed(p).keep = call[p].keep /\ Passed(p).unread = Tail(call[p].unread)
             /\ Retained(p) \in Call /\ Retained(p).pc = "drain" /\ Retained(p).halt
             /\ Retained(p).write = Mine(p) /\ Retained(p).linked = call[p].linked
             /\ Retained(p).keep \o Retained(p).unread = Held(p)
  <2>1. Passed(p) \in Call /\ Retained(p) \in Call /\ call[p] \in Call
    BY <1>3, EntryTyped
  <2>2. call[p].pc = "drain" /\ ~call[p].halt /\ call[p].unread # <<>>
    BY <1>3 DEF Reissues, At
  <2>3. /\ Passed(p).pc = "drain" /\ ~Passed(p).halt /\ Passed(p).write = Mine(p)
        /\ Passed(p).linked = call[p].linked /\ Passed(p).keep = call[p].keep
        /\ Passed(p).unread = Tail(call[p].unread)
    BY <2>1, <2>2 DEF Passed, Call, Mine
  <2>4. /\ Retained(p).pc = "drain" /\ Retained(p).halt /\ Retained(p).write = Mine(p)
        /\ Retained(p).linked = call[p].linked
        /\ Retained(p).keep = Append(call[p].keep, Head(call[p].unread))
        /\ Retained(p).unread = Tail(call[p].unread)
    BY <2>1, <2>3 DEF Retained, Call, Entry
  <2>5. call[p].keep \in Seq(Writes) /\ call[p].unread \in Seq(Writes)
    BY <2>1 DEF Call
  <2>6. ASSUME NEW s \in Seq(Writes), NEW t \in Seq(Writes), t # <<>>
        PROVE  Append(s, Head(t)) \o Tail(t) = s \o t
    BY <2>6
  <2>7. Retained(p).keep \o Retained(p).unread = Held(p)
    BY <2>2, <2>4, <2>5, <2>6 DEF Held
  <2>8. QED BY <2>1, <2>3, <2>4, <2>7
<1>4. ASSUME NEW p \in Procs, Reissues(p), call' = [call EXCEPT ![p] = Retained(p)],
             journal' = journal, step' = step, Settled \subseteq Settled'
      PROVE  OrderInv'
  <2>1. InCall(p) /\ Holds(p) /\ At(p, "drain") /\ Held(p) \in Copies
    BY <1>4, CopiesTyped DEF Reissues, At, InCall, Holds
  <2>2. call'[p] = Retained(p) /\ Held(p)' = Held(p)
    BY <1>3, <1>4 DEF StoreTypeOK, Held
  <2>3. Reading(p)'
    BY <1>3, <1>4, <2>1, <2>2 DEF OrderInv, Reading, At
  <2>4. QED BY <1>3, <1>4, <2>1, <2>3, CallMoves
<1>5. ASSUME NEW p \in Procs, NEW w \in Writes, Begin(p, w) PROVE OrderInv'
  BY <1>5, OrderBegins
<1>6. ASSUME NEW p \in Procs, DrainAccepted(p) PROVE OrderInv'
  <2>1. /\ Reissues(p) /\ journal' = journal /\ step' = step
        /\ Settled \subseteq Settled' /\ Entry(p) \in Settled'
    BY <1>6 DEF DrainAccepted, Rows, Settled
  <2>2. PICK c : c = [Passed(p) EXCEPT !.drained = @ + 1]
    OBVIOUS
  <2>3. call' = [call EXCEPT ![p] = c] /\ c \in Call
    <3>1. call'[p] = c /\ call' = [call EXCEPT ![p] = c]
      BY <1>6, <2>2 DEF DrainAccepted, StoreTypeOK
    <3>2. QED BY <3>1 DEF StoreTypeOK
  <2>4. /\ c.pc = "drain" /\ ~c.halt /\ c.write = Mine(p) /\ c.linked = call[p].linked
        /\ c.keep = call[p].keep /\ c.unread = Tail(call[p].unread)
    <3>1. Passed(p) \in Call
      BY <1>3, <2>1
    <3>2. /\ c.pc = Passed(p).pc /\ c.halt = Passed(p).halt /\ c.write = Passed(p).write
          /\ c.linked = Passed(p).linked /\ c.keep = Passed(p).keep
          /\ c.unread = Passed(p).unread
      BY <2>2, <3>1 DEF Call
    <3>3. QED BY <1>3, <2>1, <3>2
  <2>5. QED BY <2>1, <2>3, <2>4, EntrySettles
<1>7. ASSUME NEW p \in Procs, DrainTransient(p) \/ DrainRejected(p) PROVE OrderInv'
  <2>1. /\ Reissues(p) /\ call' = [call EXCEPT ![p] = Retained(p)] /\ journal' = journal
        /\ step' = step /\ Settled \subseteq Settled'
    BY <1>1, <1>7 DEF DrainTransient, DrainRejected, Unanswered, Settled
  <2>2. QED BY <1>4, <2>1
<1>8. ASSUME NEW p \in Procs, DrainDropped(p) \/ DrainInterrupted(p) PROVE OrderInv'
  <2>1. /\ Reissues(p) /\ call' = [call EXCEPT ![p] = Passed(p)] /\ journal' = journal
        /\ step' = step /\ Settled \subseteq Settled' /\ Entry(p) \in Settled'
    BY <1>1, <1>8 DEF DrainDropped, DrainInterrupted, Unanswered, Settled
  <2>2. PICK c : c = Passed(p)
    OBVIOUS
  <2>3. /\ c \in Call /\ c.pc = "drain" /\ ~c.halt /\ c.write = Mine(p)
        /\ c.linked = call[p].linked /\ c.keep = call[p].keep
        /\ c.unread = Tail(call[p].unread)
    BY <1>3, <2>1, <2>2
  <2>4. QED BY <2>1, <2>2, <2>3, EntrySettles
<1>9. ASSUME NEW p \in Procs, DrainRest(p) PROVE OrderInv'
  <2>1. /\ At(p, "drain") /\ InCall(p) /\ Holds(p) /\ journal' = journal /\ step' = step
        /\ Settled' = Settled /\ call[p] \in Call
    BY <1>9 DEF DrainRest, At, InCall, Holds, Settled, StoreTypeOK
  <2>2. PICK c : c = call'[p]
    OBVIOUS
  <2>3. /\ call' = [call EXCEPT ![p] = c] /\ c \in Call
        /\ c.pc = "rewrite" /\ c.unread = <<>> /\ c.keep = Held(p) /\ c.write = Mine(p)
    <3>1. /\ c = [call[p] EXCEPT !.pc = "rewrite", !.unread = <<>>, !.keep = @ \o call[p].unread]
          /\ call' = [call EXCEPT ![p] = c] /\ c \in Call
      BY <1>9, <2>2 DEF DrainRest, StoreTypeOK
    <3>2. QED BY <2>1, <3>1 DEF Call, Held, Mine
  <2>4. Held(p) \in Copies /\ Held(p) \in Seq(Writes) /\ c.keep \o c.unread = Held(p)
    <3>1. \A s \in Seq(Writes) : s \o <<>> = s
      OBVIOUS
    <3>2. QED BY <2>1, <2>3, <3>1, CopiesTyped
  <2>5. Reading(p)'
    BY <2>2, <2>3 DEF Reading, At
  <2>6. QED BY <2>1, <2>3, <2>4, <2>5, CallMoves
<1>10. ASSUME NEW p \in Procs, Rewrite(p) PROVE OrderInv'
  BY <1>10, OrderRewrites
<1>11. ASSUME NEW p \in Procs, SendRetried(p) PROVE OrderInv'
  <2>1. /\ At(p, "send") /\ InCall(p) /\ journal' = journal /\ step' = step
        /\ Settled \subseteq Settled' /\ call[p] \in Call
    BY <1>1, <1>11 DEF SendRetried, Unanswered, At, InCall, Settled, StoreTypeOK
  <2>2. PICK c : c = call'[p]
    OBVIOUS
  <2>3. call' = [call EXCEPT ![p] = c] /\ c \in Call /\ c.pc = "send" /\ c.write = Mine(p)
    <3>1. /\ c = [call[p] EXCEPT !.tries = @ + 1] /\ call' = [call EXCEPT ![p] = c] /\ c \in Call
      BY <1>11, <2>2 DEF SendRetried, StoreTypeOK
    <3>2. QED BY <2>1, <3>1 DEF Call, Mine, At
  <2>4. Reading(p)'
    BY <2>2, <2>3 DEF Reading, At
  <2>5. QED BY <2>1, <2>3, <2>4, CallMoves
<1>12. ASSUME NEW p \in Procs, SendJournaled(p) PROVE OrderInv'
  BY <1>12, OrderJournals
<1>13. ASSUME NEW p \in Procs,
              SendAccepted(p) \/ SendRefused(p) \/ SendInterrupted(p) \/ Crash(p)
       PROVE  OrderInv'
  <2>1. /\ InCall(p) /\ call' = [call EXCEPT ![p] = Idle] /\ journal' = journal
        /\ Settled \subseteq Settled' /\ step' \in [Runs -> 1..Finished]
    <3>1. CASE SendAccepted(p)
      BY <1>1, <1>2, <3>1 DEF SendAccepted, Settled, StoreTypeOK
    <3>2. CASE SendRefused(p)
      BY <1>2, <3>2 DEF SendRefused, Raises, Settled, StoreTypeOK
    <3>3. CASE SendInterrupted(p)
      BY <1>1, <1>2, <3>3 DEF SendInterrupted, Unanswered, Raises, Settled, StoreTypeOK
    <3>4. CASE Crash(p)
      BY <3>4 DEF Crash, Settled, StoreTypeOK
    <3>5. QED BY <1>13, <3>1, <3>2, <3>3, <3>4
  <2>2. Ends(Mine(p))
    <3>1. Mine(p) \in Writes
      BY CopiesTyped
    <3>2. CASE Crash(p)
      BY <3>2 DEF Crash, Ends
    <3>3. CASE ~Crash(p)
      <4>1. step' = NextStep(Mine(p)) \/ step' = AfterRaise(Mine(p))
        BY <1>13, <3>3 DEF SendAccepted, SendRefused, SendInterrupted, Returns, Raises
      <4>2. QED BY <3>1, <4>1, StepEnds
    <3>4. QED BY <3>2, <3>3
  <2>3. QED BY <2>1, <2>2, CallLeaves
<1>14. CASE Rollback \/ Upgrade \/ (\E r \in Runs : Delete(r)) \/ UNCHANGED vars
  <2>1. UNCHANGED <<step, call, journal, rows, dropped>>
    BY <1>14 DEF Rollback, Upgrade, Delete, vars
  <2>2. Copies' = Copies /\ Settled' = Settled
    BY <2>1 DEF Copies, Held, Holds, Settled
  <2>3. CopiesAgree'
    BY <2>1, <2>2 DEF OrderInv, CopiesAgree
  <2>4. (\A q \in Procs : Reading(q)') /\ OneCall'
    BY <2>1, <2>2 DEF OrderInv, Reading, OneCall, At, Held, InCall, Mine
  <2>5. QED BY <2>3, <2>4 DEF OrderInv
<1>15. QED
  BY <1>5, <1>6, <1>7, <1>8, <1>9, <1>10, <1>11, <1>12, <1>13, <1>14
  DEF StoreNext, Drains, Sends

\* What a step delivers is settled behind what the file had ahead of it.
LEMMA InOrderStep ==
  ASSUME StoreTypeOK, OrderInv, [StoreNext]_vars,
         NEW i \in DOMAIN journal, NEW j \in DOMAIN journal,
         i < j, journal[j] # Other, journal[j] \in rows' \ rows
  PROVE  journal[i] \in rows \cup dropped
<1>1. journal \in Seq(Writes) /\ journal \in Copies
  BY CopiesTyped
<1>2. ASSUME NEW p \in Procs, Reissues(p), rows' \subseteq rows \cup {Entry(p)}
      PROVE  journal[i] \in rows \cup dropped
  <2>1. /\ call[p].keep = <<>> /\ call[p].unread # <<>> /\ call[p].unread \in Seq(Writes)
        /\ Holds(p)
    BY <1>2 DEF Reissues, OrderInv, Reading, At, Holds, StoreTypeOK, Call
  <2>2. \A s \in Seq(Writes) : <<>> \o s = s
    OBVIOUS
  <2>3. Held(p) = call[p].unread /\ Held(p) \in Copies
    BY <2>1, <2>2, CopiesTyped DEF Held
  <2>4. 1 \in DOMAIN Held(p) /\ Held(p)[1] = journal[j]
    BY <1>2, <2>1, <2>3 DEF Entry
  <2>5. Agree(journal, Held(p), Settled)
    BY <1>1, <2>3 DEF OrderInv, CopiesAgree
  <2>6. Ahead(journal, j) \subseteq Ahead(Held(p), 1) \cup Settled
    BY <2>4, <2>5 DEF Agree
  <2>7. journal[i] \in Ahead(journal, j) /\ Ahead(Held(p), 1) = {}
    BY <1>1 DEF Ahead
  <2>8. QED BY <2>6, <2>7 DEF Settled
<1>3. ASSUME NEW p \in Procs, InCall(p), rows' \subseteq rows \cup {Mine(p)}
      PROVE  FALSE
  <2>1. journal[j] = Mine(p) /\ Mine(p) # Other /\ Mine(p) \in Writes
    BY <1>3, CopiesTyped
  <2>2. step[Mine(p).run] = Mine(p).step
    BY <1>3, <2>1 DEF OrderInv, OneCall
  <2>3. Past(journal, step) /\ Mine(p) \in Range(journal)
    BY <1>1, <2>1 DEF OrderInv, CopiesAgree, Range
  <2>4. Mine(p).step < step[Mine(p).run] /\ Mine(p).step \in Int
    BY <2>1, <2>3, WritesTyped DEF Past
  <2>5. QED BY <2>2, <2>4
<1>4. \A p \in Procs : \A w : Rows(p, w) \subseteq rows \cup {w}
  BY DEF Rows
<1>5. ASSUME NEW p \in Procs, DrainAccepted(p) \/ DrainTransient(p) \/ DrainInterrupted(p)
      PROVE  journal[i] \in rows \cup dropped
  <2>1. Reissues(p) /\ rows' \subseteq rows \cup {Entry(p)}
    BY <1>4, <1>5 DEF DrainAccepted, DrainTransient, DrainInterrupted, Unanswered
  <2>2. QED BY <1>2, <2>1
<1>6. ASSUME NEW p \in Procs,
             SendAccepted(p) \/ SendRetried(p) \/ SendJournaled(p) \/ SendInterrupted(p)
      PROVE  FALSE
  <2>1. InCall(p) /\ rows' \subseteq rows \cup {Mine(p)}
    BY <1>4, <1>6
    DEF SendAccepted, SendRetried, SendJournaled, SendInterrupted, Unanswered, At, InCall
  <2>2. QED BY <1>3, <2>1
<1>7. ASSUME rows' = rows PROVE FALSE
  BY <1>7
<1>8. ASSUME NEW p \in Procs,
             \/ \E w \in Writes : Begin(p, w)
             \/ DrainRejected(p) \/ DrainDropped(p) \/ DrainRest(p) \/ Rewrite(p)
             \/ SendRefused(p) \/ Crash(p)
      PROVE  rows' = rows
  BY <1>8 DEF Begin, DrainRejected, DrainDropped, DrainRest, Rewrite, SendRefused, Crash
<1>9. CASE Rollback \/ Upgrade \/ (\E r \in Runs : Delete(r)) \/ UNCHANGED vars
  BY <1>7, <1>9 DEF Rollback, Upgrade, Delete, vars
<1>10. QED
  BY <1>5, <1>6, <1>7, <1>8, <1>9 DEF StoreNext, Drains, Sends

\* However many processes drain one file and replace it under each other, each from its own
\* copy, a run's create is delivered before its steps and its steps before its status: what the
\* file has ahead of a write that is delivered is on the server or was given up.
THEOREM DeliveredInOrder == StoreSpec => DrainInOrder
<1>1. StoreInit => OrderInv
  <2> SUFFICES ASSUME StoreInit PROVE OrderInv
    OBVIOUS
  <2>1. Copies = {<<>>} /\ \A p \in Procs : ~At(p, "drain") /\ ~At(p, "rewrite") /\ ~InCall(p)
    BY DEF StoreInit, Copies, Holds, At, InCall, Idle
  <2>2. CopiesAgree
    BY <2>1 DEF CopiesAgree, Single, Past, Agree, Range
  <2>3. QED BY <2>1, <2>2 DEF OrderInv, Reading, OneCall
<1>2. StoreTypeOK /\ StoreTypeOK' /\ OrderInv /\ [StoreNext]_vars => OrderInv'
  BY OrderStep
<1>3. StoreTypeOK /\ OrderInv /\ [StoreNext]_vars =>
        [\A i, j \in DOMAIN journal :
           i < j /\ journal[j] # Other /\ journal[j] \in rows' \ rows =>
             journal[i] \in rows \cup dropped]_vars
  BY InOrderStep
<1>4. QED BY <1>1, <1>2, <1>3, StoreTypeCorrect, PTL DEF StoreSpec, DrainInOrder

================================================================================
