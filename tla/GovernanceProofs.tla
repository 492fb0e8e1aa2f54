--------------------------- MODULE GovernanceProofs ---------------------------
(***************************************************************************)
(* What the sweeps and the periodic reports can rely on, for any number of *)
(* readers, any history, any limit and any window.                         *)
(***************************************************************************)
EXTENDS Governance, SumsProofs

-----------------------------------------------------------------------------
(* Types.                                                                  *)

LEMMA NoEntryIsNone == NoEntry \notin Entry
BY GovernanceAssumption DEF Entry, Readers

LEMMA RequestsIsNoReader == Requests \notin Sweeps /\ Requests \notin Readers
BY GovernanceAssumption DEF Readers

(* What a reader has seen is in the log, which only grows.                 *)
SeenInLog == \A s \in Readers : seen[s] \subseteq DOMAIN log

LEMMA LogIsFinite ==
  ASSUME NEW L, NEW S \in SUBSET DOMAIN L, NEW T, L \in Seq(T)
  PROVE  IsFiniteSet(S) /\ Cardinality(S) \in Nat
<1>1. IsFiniteSet(DOMAIN L)
  <2>1. DOMAIN L = 1..Len(L) /\ Len(L) \in Nat
    OBVIOUS
  <2> QED
    BY <2>1, FS_Interval
<1> QED
  BY <1>1, FS_Subset, FS_CardinalityType

LEMMA SeqOfSubset ==
  ASSUME NEW S, NEW T, S \subseteq T, NEW q \in Seq(S)
  PROVE  q \in Seq(T)
OBVIOUS

LEMMA InitTypeOK == Init => TypeOK
<1> SUFFICES ASSUME Init PROVE TypeOK
  OBVIOUS
<1> USE DEF Init
<1>1. log \in Seq(Entry)
  <2>1. [event : EventTypes, ts : {0}, by : {Requests}] \subseteq Entry
    BY DEF Entry
  <2> QED
    BY <2>1, GovernanceAssumption, SeqOfSubset
<1>2. \A s \in Readers :
        pc[s] = "recording" <=> pending # NoEntry /\ pending.by = s
  OBVIOUS
<1>3. chain \in [Readers -> [dss : Verdicts, ind : Verdicts, final : Verdicts]]
  BY DEF NotChecked, Verdicts
<1>4. to_dt \in [Readers -> Nat] /\ seen \in [Readers -> SUBSET Nat]
  OBVIOUS
<1> QED
  BY <1>1, <1>2, <1>3, <1>4 DEF TypeOK, Labels

(* An append that starts.                                                  *)
LEMMA BeginAppendEntry ==
  ASSUME TypeOK, NEW event \in EventTypes, NEW by \in Sweeps \cup {Requests},
         BeginAppend(event, by)
  PROVE  /\ pending = NoEntry
         /\ pending' \in Entry /\ pending' # NoEntry
         /\ pending'.by = by /\ pending'.ts = clock /\ pending'.event = event
BY NoEntryIsNone DEF BeginAppend, TypeOK, Entry

LEMMA StepTypeOK == TypeOK /\ SeenInLog /\ [Next]_vars => TypeOK'
<1> SUFFICES ASSUME TypeOK, SeenInLog, [Next]_vars PROVE TypeOK'
  OBVIOUS
<1> USE DEF TypeOK
<1>1. CASE Tick
  BY <1>1 DEF Tick
<1>2. CASE Commit
  <2>1. pending \in Entry /\ log' = Append(log, pending) /\ pending' = NoEntry
    BY <1>2 DEF Commit
  <2>2. log' \in Seq(Entry)
    BY <2>1
  <2>3. pc' \in [Readers -> Labels]
    BY <1>2 DEF Commit, Labels
  <2>4. \A s \in Readers : pc'[s] # "recording"
    BY <1>2 DEF Commit
  <2> QED
    BY <1>2, <2>1, <2>2, <2>3, <2>4 DEF Commit
<1>3. CASE Rollback
  <2>1. CASE pending.by = Requests
    BY <1>3, <2>1, RequestsIsNoReader DEF Rollback
  <2>2. CASE pending.by # Requests
    <3>1. pending \in Entry /\ pending.by \in Sweeps
      BY <1>3, <2>2 DEF Rollback, Entry
    <3> DEFINE s == pending.by
    <3>2. s \in Readers /\ Goto(s, "failed") /\ Forget(s)
      BY <1>3, <2>2, <3>1 DEF Rollback, Readers
    <3>3. pc' \in [Readers -> Labels]
          /\ \A t \in Readers : pc'[t] # "recording"
      BY <3>2, <1>3 DEF Goto, Labels, Rollback
    <3> HIDE DEF s
    <3>4. /\ to_dt' \in [Readers -> Nat]
          /\ seen' \in [Readers -> SUBSET Nat]
          /\ chain' \in
               [Readers -> [dss : Verdicts, ind : Verdicts, final : Verdicts]]
      BY <3>2 DEF Forget, NotChecked, Verdicts
    <3> QED
      BY <1>3, <3>3, <3>4 DEF Rollback
  <2> QED
    BY <2>1, <2>2
<1>4. CASE BreakChain
  BY <1>4 DEF BreakChain
<1>5. ASSUME NEW event \in Recorded, Append_(event) PROVE TypeOK'
  <2>1. event \in EventTypes
    BY GovernanceAssumption
  <2>2. /\ pending = NoEntry /\ pending' \in Entry /\ pending'.by = Requests
        /\ pending' # NoEntry
    BY <1>5, <2>1, BeginAppendEntry DEF Append_
  <2>3. UNCHANGED <<clock, log, broken, pc, to_dt, seen, chain, reports>>
    BY <1>5 DEF Append_, BeginAppend
  <2> QED
    BY <2>2, <2>3, RequestsIsNoReader
<1>6. ASSUME NEW s \in Readers, Begin(s) PROVE TypeOK'
  BY <1>6 DEF Begin, Goto, Labels
<1>7. ASSUME NEW s \in Readers, Query(s) PROVE TypeOK'
  <2>1. Oldest(Window(s)) \subseteq Nat
    BY DEF Oldest, Window
  <2> QED
    BY <1>7, <2>1 DEF Query, Goto, Labels
<1>8. ASSUME NEW s \in Readers, CheckDss(s) \/ CheckInd(s) \/ CheckFinal(s)
      PROVE  TypeOK'
  <2>1. integrity_ok \in Verdicts
    BY DEF integrity_ok, Verdicts
  <2>2. chain' \in
          [Readers -> [dss : Verdicts, ind : Verdicts, final : Verdicts]]
    <3>1. CASE CheckDss(s)
      BY <2>1, <3>1 DEF CheckDss
    <3>2. CASE CheckInd(s)
      BY <2>1, <3>2 DEF CheckInd
    <3>3. CASE CheckFinal(s)
      BY <2>1, <3>3 DEF CheckFinal
    <3> QED
      BY <1>8, <3>1, <3>2, <3>3
  <2>3. /\ pc' \in [Readers -> Labels]
        /\ \A t \in Readers :
             pc'[t] = "recording" <=> pc[t] = "recording"
    BY <1>8 DEF CheckDss, CheckInd, CheckFinal, Goto, Labels
  <2>4. UNCHANGED <<clock, log, broken, pending, to_dt, seen, reports>>
    BY <1>8 DEF CheckDss, CheckInd, CheckFinal
  <2> QED
    BY <2>2, <2>3, <2>4
<1>9. ASSUME NEW s \in Readers, RecordSweep(s) PROVE TypeOK'
  <2>1. /\ pending = NoEntry /\ pending' \in Entry /\ pending'.by = s
        /\ pending' # NoEntry
    BY <1>9, BeginAppendEntry DEF RecordSweep, EventTypes
  <2>2. UNCHANGED <<clock, log, broken, to_dt, seen, chain, reports>>
    BY <1>9 DEF RecordSweep, BeginAppend
  <2>3. pc' \in [Readers -> Labels]
        /\ \A t \in Readers : pc'[t] = "recording" <=> t = s
    BY <1>9, <2>1 DEF RecordSweep, Goto, Labels
  <2> QED
    BY <2>1, <2>2, <2>3
<1>10. ASSUME NEW s \in Readers, PersistReport(s) PROVE TypeOK'
  <2>1. ComplianceReport(s) \in
          [by : Reports, total : Nat, sar_count : Nat,
           human_override_count : Nat, audit_chain_integrity : Verdicts]
    <3>1. \A types : Count(seen[s], types) \in Nat
      <4> SUFFICES ASSUME NEW types PROVE Count(seen[s], types) \in Nat
        OBVIOUS
      <4>1. Of(seen[s], types) \subseteq DOMAIN log
        BY DEF Of, SeenInLog
      <4> QED
        BY <4>1, LogIsFinite DEF Count
    <3> QED
      BY <1>10, <3>1 DEF ComplianceReport, PersistReport
  <2> QED
    BY <1>10, <2>1 DEF PersistReport, Goto, Labels, Forget, NotChecked, Verdicts
<1>11. ASSUME NEW s \in Readers, Fail(s) PROVE TypeOK'
  BY <1>11 DEF Fail, Goto, Labels, Forget, NotChecked, Verdicts
<1>12. CASE UNCHANGED vars
  BY <1>12 DEF vars
<1> QED
  BY <1>1, <1>2, <1>3, <1>4, <1>5, <1>6, <1>7, <1>8, <1>9, <1>10, <1>11,
     <1>12 DEF Next

LEMMA StepSeenInLog == TypeOK /\ SeenInLog /\ [Next]_vars => SeenInLog'
<1> SUFFICES ASSUME TypeOK, SeenInLog, [Next]_vars PROVE SeenInLog'
  OBVIOUS
<1>1. DOMAIN log \subseteq DOMAIN log'
  <2>1. CASE log' = log
    BY <2>1
  <2>2. CASE Commit
    <3>1. log' = Append(log, pending) /\ pending \in Entry /\ log \in Seq(Entry)
      BY <2>2 DEF Commit, TypeOK
    <3> QED
      BY <3>1
  <2> QED
    BY <2>1, <2>2 DEF Next, vars, Tick, Rollback, BreakChain, Append_,
       BeginAppend, Begin, Query, CheckDss, CheckInd, CheckFinal, RecordSweep,
       PersistReport, Fail
<1>2. ASSUME NEW s \in Readers
      PROVE  \/ seen'[s] = seen[s]
             \/ seen'[s] = {}
             \/ seen'[s] \subseteq DOMAIN log
  <2>1. ASSUME NEW t \in Readers, Query(t)
        PROVE  seen'[s] = seen[s] \/ seen'[s] \subseteq DOMAIN log
    BY <2>1 DEF Query, Oldest, Window, TypeOK
  <2>2. ASSUME NEW t \in Readers, Forget(t)
        PROVE  seen'[s] = seen[s] \/ seen'[s] = {}
    BY <2>2 DEF Forget, TypeOK
  <2>3. CASE Rollback
    <3>1. pending \in Entry
      BY <2>3 DEF Rollback, TypeOK
    <3>2. pending.by = Requests \/ pending.by \in Readers
      BY <3>1 DEF Entry, Readers
    <3> QED
      BY <2>2, <2>3, <3>2 DEF Rollback
  <2> QED
    BY <2>1, <2>2, <2>3 DEF Next, vars, Tick, Commit, BreakChain, Append_,
       BeginAppend, Begin, CheckDss, CheckInd, CheckFinal, RecordSweep,
       PersistReport, Fail
<1> QED
  BY <1>1, <1>2 DEF SeenInLog

LEMMA Typed == Spec => [](TypeOK /\ SeenInLog)
<1>1. Init => SeenInLog
  BY DEF Init, SeenInLog
<1> QED
  BY <1>1, InitTypeOK, StepTypeOK, StepSeenInLog, PTL DEF Spec

(* Type correctness, and that the lock is held for a sweep exactly while   *)
(* it records (storage.py:34-46).                                          *)
THEOREM SpecTypeOK == Spec => []TypeOK
BY Typed, PTL

-----------------------------------------------------------------------------
(* What a step does to the log and to a reader.                            *)

LEMMA LogStep ==
  ASSUME TypeOK, [Next]_vars
  PROVE  /\ clock' \in Nat /\ clock <= clock'
         /\ \/ /\ log' = log
               /\ \/ pending' = pending
                  \/ pending' = NoEntry
                  \/ /\ pending = NoEntry
                     /\ pending' \in Entry /\ pending'.ts = clock
                     /\ pending'.by \in Sweeps
                          => pending'.event = "system_event"
            \/ /\ pending \in Entry
               /\ log' = Append(log, pending)
               /\ pending' = NoEntry
<1> USE DEF TypeOK
<1>1. CASE Tick
  BY <1>1 DEF Tick
<1>2. CASE Commit
  BY <1>2 DEF Commit
<1>3. ASSUME NEW event \in Recorded, Append_(event)
      PROVE  /\ UNCHANGED <<clock, log>>
             /\ pending = NoEntry
             /\ pending' \in Entry /\ pending'.ts = clock
             /\ pending'.by \notin Sweeps
  <2>1. event \in EventTypes
    BY GovernanceAssumption
  <2> QED
    BY <1>3, <2>1, BeginAppendEntry, RequestsIsNoReader DEF Append_, BeginAppend
<1>4. ASSUME NEW s \in Readers, RecordSweep(s)
      PROVE  /\ UNCHANGED <<clock, log>>
             /\ pending = NoEntry
             /\ pending' \in Entry /\ pending'.ts = clock
             /\ pending'.event = "system_event"
  BY <1>4, BeginAppendEntry DEF RecordSweep, BeginAppend, EventTypes
<1> QED
  BY <1>1, <1>2, <1>3, <1>4 DEF Next, vars, Rollback, BreakChain, Begin, Query,
     CheckDss, CheckInd, CheckFinal, PersistReport, Fail

(* A reader that has read keeps what it knows until it returns.            *)
KeepsReading(s) ==
  HasRead(s)' => HasRead(s) /\ seen'[s] = seen[s] /\ to_dt'[s] = to_dt[s]

LEMMA ForgetKeepsReading ==
  ASSUME TypeOK, NEW s \in Readers, NEW t \in Readers, Forget(t),
         NEW label, Goto(t, label),
         label = "failed" \/ (label = "done" /\ t \in Reports)
  PROVE  KeepsReading(s) /\ to_dt'[s] \in {0, to_dt[s]}
<1>1. CASE s = t
  BY <1>1, GovernanceAssumption
     DEF TypeOK, Goto, Forget, KeepsReading, HasRead
<1>2. CASE s # t
  BY <1>2 DEF TypeOK, Goto, Forget, KeepsReading, HasRead
<1> QED
  BY <1>1, <1>2

LEMMA ReaderStep ==
  ASSUME TypeOK, [Next]_vars, NEW s \in Readers
  PROVE  /\ to_dt'[s] \in {0, to_dt[s], clock}
         /\ Query(s) \/ KeepsReading(s)
<1>0. ASSUME NEW t \in Readers, Forget(t), NEW label, Goto(t, label),
             label = "failed" \/ (label = "done" /\ t \in Reports)
      PROVE  KeepsReading(s) /\ to_dt'[s] \in {0, to_dt[s]}
  BY <1>0, ForgetKeepsReading
<1> USE DEF TypeOK
<1>1. CASE Commit
  <2>1. pending \in Entry /\ pending # NoEntry
    BY <1>1 DEF Commit
  <2>2. pending.by = s => pc[s] = "recording"
    BY <2>1
  <2> QED
    BY <1>1, <2>2 DEF Commit, KeepsReading, HasRead
<1>2. CASE Rollback
  <2>1. CASE pending.by = Requests
    BY <1>2, <2>1 DEF Rollback, KeepsReading, HasRead
  <2>2. CASE pending.by # Requests
    <3>1. pending.by \in Readers
      BY <1>2, <2>2 DEF Rollback, Entry, Readers
    <3>2. Forget(pending.by) /\ Goto(pending.by, "failed")
      BY <1>2, <2>2 DEF Rollback
    <3> QED
      BY ONLY <1>0, <3>1, <3>2
  <2> QED
    BY <2>1, <2>2
<1>3. ASSUME NEW t \in Readers, Begin(t)
      PROVE  to_dt'[s] \in {to_dt[s], clock} /\ KeepsReading(s)
  <2>1. CASE s = t
    BY <1>3, <2>1 DEF Begin, Goto, KeepsReading, HasRead
  <2>2. CASE s # t
    BY <1>3, <2>2 DEF Begin, Goto, KeepsReading, HasRead
  <2> QED
    BY <2>1, <2>2
<1>4. ASSUME NEW t \in Readers, Query(t)
      PROVE  to_dt'[s] = to_dt[s] /\ (Query(s) \/ KeepsReading(s))
  <2>1. CASE s = t
    BY <1>4, <2>1 DEF Query
  <2>2. CASE s # t
    BY <1>4, <2>2 DEF Query, Goto, KeepsReading, HasRead
  <2> QED
    BY <2>1, <2>2
<1>5. ASSUME NEW t \in Readers,
             CheckDss(t) \/ CheckInd(t) \/ CheckFinal(t) \/ RecordSweep(t)
      PROVE  to_dt'[s] = to_dt[s] /\ KeepsReading(s)
  <2>1. CASE s = t
    BY <1>5, <2>1 DEF CheckDss, CheckInd, CheckFinal, RecordSweep, BeginAppend,
       Goto, KeepsReading, HasRead
  <2>2. CASE s # t
    BY <1>5, <2>2 DEF CheckDss, CheckInd, CheckFinal, RecordSweep, BeginAppend,
       Goto, KeepsReading, HasRead
  <2> QED
    BY <2>1, <2>2
<1>6. ASSUME NEW t \in Readers, PersistReport(t) \/ Fail(t)
      PROVE  to_dt'[s] \in {0, to_dt[s]} /\ KeepsReading(s)
  <2>1. Forget(t) /\ (Goto(t, "failed") \/ (Goto(t, "done") /\ t \in Reports))
    BY <1>6 DEF PersistReport, Fail
  <2> QED
    BY ONLY <1>0, <2>1
<1>7. CASE Tick \/ BreakChain \/ \E event \in Recorded : Append_(event)
  BY <1>7 DEF Tick, BreakChain, Append_, BeginAppend, KeepsReading, HasRead
<1>8. CASE UNCHANGED vars
  BY <1>8 DEF vars, KeepsReading, HasRead
<1> QED
  BY <1>1, <1>2, <1>3, <1>4, <1>5, <1>6, <1>7, <1>8 DEF Next

-----------------------------------------------------------------------------
(* The windows.                                                            *)

(* A window ends in the past, and a reader that has read its window has    *)
(* waited for the lock: what is being appended now is not older.           *)
WindowsPast ==
  \A s \in Readers :
    /\ to_dt[s] <= clock
    /\ HasRead(s) /\ pending # NoEntry => to_dt[s] <= pending.ts

LEMMA StepWindowsPast == TypeOK /\ WindowsPast /\ [Next]_vars => WindowsPast'
<1> SUFFICES ASSUME TypeOK, WindowsPast, [Next]_vars, NEW s \in Readers
             PROVE  /\ to_dt'[s] <= clock'
                    /\ HasRead(s)' /\ pending' # NoEntry
                         => to_dt'[s] <= pending'.ts
  BY DEF WindowsPast
<1>1. /\ clock \in Nat /\ clock' \in Nat /\ clock <= clock'
      /\ to_dt[s] \in Nat /\ to_dt[s] <= clock
  BY LogStep DEF TypeOK, WindowsPast
<1>2. to_dt'[s] \in {0, to_dt[s], clock}
  BY ReaderStep
<1>3. ASSUME HasRead(s)', pending' # NoEntry PROVE to_dt'[s] <= pending'.ts
  <2>1. CASE Query(s)
    BY <1>3, <2>1 DEF Query
  <2>2. CASE KeepsReading(s)
    <3>1. HasRead(s) /\ to_dt'[s] = to_dt[s]
      BY <1>3, <2>2 DEF KeepsReading
    <3>2. CASE pending' = pending
      BY <1>3, <3>1, <3>2 DEF WindowsPast
    <3>3. CASE pending' # pending
      BY <1>1, <1>3, <3>1, <3>3, LogStep
    <3> QED
      BY <3>2, <3>3
  <2> QED
    BY <2>1, <2>2, ReaderStep
<1> QED
  BY <1>1, <1>2, <1>3

LEMMA InitWindowsPast == Init => WindowsPast
BY DEF Init, WindowsPast, HasRead

-----------------------------------------------------------------------------
(* The oldest entries of a window.                                         *)

LEMMA OldestCut ==
  ASSUME NEW W \in SUBSET Nat, IsFiniteSet(W), NEW i \in W \ Oldest(W)
  PROVE  /\ \A j \in Oldest(W) : j < i
         /\ Cardinality(Oldest(W)) >= Limit
<1> DEFINE Below(k) == {j \in W : j < k}
<1>1. \A k : IsFiniteSet(Below(k)) /\ Cardinality(Below(k)) \in Nat
  BY FS_Subset, FS_CardinalityType
<1>2. \A j, k \in W : j <= k => Cardinality(Below(j)) <= Cardinality(Below(k))
  <2> SUFFICES ASSUME NEW j \in W, NEW k \in W, j <= k
               PROVE  Cardinality(Below(j)) <= Cardinality(Below(k))
    OBVIOUS
  <2>1. Below(j) \subseteq Below(k)
    <3>1. \A n \in W : n < j => n < k
      BY j \in Nat, k \in Nat
    <3> QED
      BY <3>1
  <2> HIDE DEF Below
  <2> QED
    BY <1>1, <2>1, FS_Subset
<1>3. Limit \in Nat
  BY GovernanceAssumption
<1>4. \A k \in W : k \in Oldest(W) <=> Cardinality(Below(k)) < Limit
  BY DEF Oldest
<1>5. \A j \in Oldest(W) : j < i
  <2> SUFFICES ASSUME NEW j \in Oldest(W), i <= j PROVE FALSE
    BY DEF Oldest
  <2>1. j \in W /\ Cardinality(Below(j)) < Limit
    BY <1>4 DEF Oldest
  <2>2. ~(Cardinality(Below(i)) < Limit)
    BY <1>4
  <2> QED
    BY <1>1, <1>2, <1>3, <2>1, <2>2
<1>6. PICK m \in W \ Oldest(W) : \A k \in W \ Oldest(W) : m <= k
  BY LeastElement
<1>7. Below(m) \subseteq Oldest(W)
  <2> SUFFICES ASSUME NEW k \in W, k < m, k \notin Oldest(W) PROVE FALSE
    OBVIOUS
  <2>1. m <= k
    BY <1>6
  <2> QED
    BY <2>1
<1>8. Cardinality(Below(m)) <= Cardinality(Oldest(W))
      /\ Cardinality(Oldest(W)) \in Nat
  <2>1. Oldest(W) \subseteq W
    BY DEF Oldest
  <2>2. IsFiniteSet(Oldest(W))
    BY <2>1, FS_Subset
  <2> HIDE DEF Below
  <2> QED
    BY <1>7, <2>2, FS_Subset, FS_CardinalityType
<1>9. ~(Cardinality(Below(m)) < Limit)
  BY <1>4
<1> HIDE DEF Below
<1> QED
  BY <1>1, <1>3, <1>5, <1>8, <1>9

(* What the query of s has returned: the oldest entries of its window, and *)
(* all of those before its end unless the limit cut some off.              *)
SeenCut(s) ==
  /\ seen[s] \subseteq Window(s)
  /\ \A i \in Window(s) \ seen[s] :
       /\ \A j \in seen[s] : j < i
       /\ log[i].ts < to_dt[s] => Truncated(s)

Cut == \A s \in Readers : HasRead(s) => SeenCut(s)

LEMMA WindowInLog ==
  ASSUME TypeOK, NEW s \in Readers
  PROVE  /\ Window(s) \in SUBSET Nat /\ IsFiniteSet(Window(s))
         /\ Window(s) \subseteq DOMAIN log
<1>1. Window(s) \subseteq DOMAIN log
  BY DEF Window
<1>2. log \in Seq(Entry) /\ DOMAIN log \subseteq Nat
  BY DEF TypeOK
<1> QED
  BY <1>1, <1>2, LogIsFinite

LEMMA StepCut == TypeOK /\ WindowsPast /\ Cut /\ [Next]_vars => Cut'
<1> SUFFICES ASSUME TypeOK, WindowsPast, Cut, [Next]_vars,
                    NEW s \in Readers, HasRead(s)'
             PROVE  SeenCut(s)'
  BY DEF Cut
<1>1. CASE Query(s)
  <2>1. /\ seen'[s] = Oldest(Window(s))
        /\ UNCHANGED <<log, to_dt>>
    BY <1>1 DEF Query, TypeOK
  <2>2. Window(s)' = Window(s)
    BY <2>1 DEF Window
  <2>3. Oldest(Window(s)) \subseteq Window(s)
    BY DEF Oldest
  <2>4. \A i \in Window(s) \ Oldest(Window(s)) :
          /\ \A j \in Oldest(Window(s)) : j < i
          /\ Cardinality(Oldest(Window(s))) >= Limit
    BY WindowInLog, OldestCut
  <2> QED
    BY <2>1, <2>2, <2>3, <2>4 DEF SeenCut, Truncated
<1>2. CASE KeepsReading(s)
  <2>1. HasRead(s) /\ seen'[s] = seen[s] /\ to_dt'[s] = to_dt[s]
    BY <1>2 DEF KeepsReading
  <2>2. SeenCut(s) /\ Truncated(s)' = Truncated(s)
    BY <2>1 DEF Cut, Truncated
  <2>3. CASE log' = log
    <3>1. Window(s)' = Window(s)
      BY <2>1, <2>3 DEF Window
    <3> QED
      BY <2>1, <2>2, <2>3, <3>1 DEF SeenCut
  <2>4. CASE log' # log
    <3>1. /\ log \in Seq(Entry) /\ pending \in Entry
          /\ log' = Append(log, pending)
      BY <2>4, LogStep DEF TypeOK
    <3>2. to_dt[s] <= pending.ts
      BY <2>1, <3>1, NoEntryIsNone DEF WindowsPast
    <3>3. \A i \in DOMAIN log : i \in DOMAIN log' /\ log'[i] = log[i]
      BY <3>1
    <3>4. \A i \in DOMAIN log' \ DOMAIN log :
            /\ log'[i] = pending
            /\ \A j \in DOMAIN log : j < i
      BY <3>1
    <3>5. \A i \in DOMAIN log : i \in Window(s)' <=> i \in Window(s)
      BY <2>1, <3>3 DEF Window
    <3>6. seen[s] \subseteq DOMAIN log
      BY <2>2, WindowInLog DEF SeenCut
    <3>7. \A i \in Window(s)' \ DOMAIN log :
            (\A j \in seen[s] : j < i) /\ ~(log'[i].ts < to_dt[s])
      <4>1. pending.ts \in Nat /\ to_dt[s] \in Nat
        BY <3>1 DEF Entry, TypeOK
      <4> QED
        BY <3>2, <3>4, <3>6, <4>1 DEF Window
    <3>8. \A i \in (Window(s)' \ seen[s]) \cap DOMAIN log :
            /\ \A j \in seen[s] : j < i
            /\ log'[i].ts < to_dt[s] => Truncated(s)
      BY <2>2, <3>3, <3>5 DEF SeenCut
    <3>9. seen[s] \subseteq Window(s)'
      BY <2>2, <3>5, <3>6 DEF SeenCut
    <3>10. /\ seen'[s] \subseteq Window(s)'
           /\ \A i \in Window(s)' \ seen'[s] :
                /\ \A j \in seen'[s] : j < i
                /\ log'[i].ts < to_dt'[s] => Truncated(s)'
      BY <2>1, <2>2, <3>7, <3>8, <3>9
    <3> QED
      BY <3>10 DEF SeenCut
  <2> QED
    BY <2>3, <2>4
<1> QED
  BY <1>1, <1>2, ReaderStep

LEMMA CutAlways == Spec => [](TypeOK /\ WindowsPast /\ Cut)
<1>1. Init => Cut
  BY DEF Init, Cut, HasRead
<1> QED
  BY <1>1, Typed, InitWindowsPast, StepWindowsPast, StepCut, PTL DEF Spec

(* A reader has seen every entry of its window that was committed late,    *)
(* too, and only the limit of 5000 cuts anything off, the newest           *)
(* (engine.py:137, reporting/agent.py:208).                                *)
THEOREM SpecWindowComplete == Spec => []WindowComplete
<1>1. Cut => WindowComplete
  BY DEF Cut, SeenCut, WindowComplete, Past
<1> QED
  BY <1>1, CutAlways, PTL

-----------------------------------------------------------------------------
(* The verdicts on the chain.                                              *)

LEMMA LogGrows ==
  ASSUME TypeOK, [Next]_vars
  PROVE  /\ DOMAIN log \subseteq DOMAIN log'
         /\ \A i \in DOMAIN log : log'[i] = log[i]
<1>1. CASE log' = log
  BY <1>1
<1>2. CASE log' # log
  <2>1. /\ log \in Seq(Entry) /\ pending \in Entry
        /\ log' = Append(log, pending)
    BY <1>2, LogStep DEF TypeOK
  <2> QED
    BY <2>1
<1> QED
  BY <1>1, <1>2

(* The evidence for the two controls that verify the chain.                *)
HasEvidence(s) == Of(seen[s], {"system_event"}) # {}

(* How far the verification of a reader has come, and what it has found.   *)
Verified(s) ==
  /\ chain[s].dss = "broken" \/ chain[s].ind = "broken"
       \/ chain[s].final = "broken" => broken
  /\ pc[s] \in {"new", "query", "dss"} => chain[s] = NotChecked
  /\ pc[s] = "ind" => chain[s].ind = "none" /\ chain[s].final = "none"
  /\ pc[s] = "final" => chain[s].final = "none"
  /\ s \in Sweeps /\ HasEvidence(s)
       => /\ pc[s] \in {"ind", "final", "write", "recording", "done"}
               => chain[s].dss # "none"
          /\ pc[s] \in {"final", "write", "recording", "done"}
               => chain[s].ind # "none"
  /\ chain[s].ind = "ok" => chain[s].dss = "ok"
  /\ chain[s].final = "ok" => chain[s].dss # "broken" /\ chain[s].ind # "broken"
  /\ pc[s] \in {"dss", "ind"} => s \in Sweeps

AllVerified == \A s \in Readers : Verified(s)

LEMMA SameReaderVerified ==
  ASSUME TypeOK, SeenInLog, [Next]_vars, NEW s \in Readers, Verified(s),
         chain'[s] = chain[s], seen'[s] = seen[s], broken => broken',
         \/ pc'[s] = pc[s]
         \/ pc[s] = "write" /\ pc'[s] = "recording"
         \/ pc[s] = "recording" /\ pc'[s] = "done"
         \/ pc[s] = "new" /\ pc'[s] = "query"
  PROVE  Verified(s)'
<1>1. HasEvidence(s)' = HasEvidence(s)
  <2>1. seen[s] \subseteq DOMAIN log
    BY DEF SeenInLog
  <2>2. \A i \in seen[s] : log'[i] = log[i]
    BY <2>1, LogGrows
  <2> QED
    BY <2>2 DEF HasEvidence, Of
<1> QED
  BY <1>1 DEF Verified

LEMMA ForgottenVerified ==
  ASSUME TypeOK, NEW s \in Readers, Forget(s),
         pc'[s] = "failed" \/ (pc'[s] = "done" /\ s \notin Sweeps)
  PROVE  Verified(s)'
<1>1. chain'[s] = NotChecked /\ seen'[s] = {}
  BY DEF Forget, TypeOK
<1> QED
  BY <1>1 DEF Verified, NotChecked

LEMMA StepVerified ==
  TypeOK /\ SeenInLog /\ AllVerified /\ [Next]_vars => AllVerified'
<1> SUFFICES ASSUME TypeOK, SeenInLog, AllVerified, [Next]_vars,
                    NEW s \in Readers
             PROVE  Verified(s)'
  BY DEF AllVerified
<1>0. Verified(s)
  BY DEF AllVerified
<1>1. CASE \/ Tick \/ BreakChain \/ (\E event \in Recorded : Append_(event))
           \/ UNCHANGED vars
  BY <1>0, <1>1, SameReaderVerified
     DEF Tick, BreakChain, Append_, BeginAppend, vars
<1>2. CASE Commit
  <2>1. pending.by = s => pc[s] = "recording"
    BY <1>2 DEF Commit, TypeOK
  <2> QED
    BY <1>0, <1>2, <2>1, SameReaderVerified DEF Commit
<1>3. ASSUME NEW t \in Readers, Forget(t), NEW label, Goto(t, label),
             label = "failed" \/ (label = "done" /\ t \notin Sweeps),
             UNCHANGED broken
      PROVE  Verified(s)'
  <2>1. CASE s = t
    BY <1>3, <2>1, ForgottenVerified DEF Goto, TypeOK
  <2>2. CASE s # t
    BY <1>0, <1>3, <2>2, SameReaderVerified DEF Goto, Forget, TypeOK
  <2> QED
    BY <2>1, <2>2
<1>4. CASE Rollback
  <2>1. CASE pending.by = Requests
    BY <1>0, <1>4, <2>1, SameReaderVerified DEF Rollback
  <2>2. CASE pending.by # Requests
    <3>1. pending.by \in Readers
      BY <1>4, <2>2 DEF Rollback, Entry, Readers, TypeOK
    <3>2. Forget(pending.by) /\ Goto(pending.by, "failed") /\ UNCHANGED broken
      BY <1>4, <2>2 DEF Rollback
    <3> QED
      BY ONLY <1>3, <3>1, <3>2
  <2> QED
    BY <2>1, <2>2
<1>5. ASSUME NEW t \in Readers, PersistReport(t) \/ Fail(t)
      PROVE  Verified(s)'
  <2>1. PersistReport(t) => t \notin Sweeps
    BY GovernanceAssumption DEF PersistReport
  <2>2. /\ Forget(t) /\ UNCHANGED broken
        /\ Goto(t, "failed") \/ (Goto(t, "done") /\ t \notin Sweeps)
    BY <1>5, <2>1 DEF PersistReport, Fail
  <2> QED
    BY ONLY <1>3, <2>2, <1>5
<1>6. ASSUME NEW t \in Readers, Begin(t) \/ RecordSweep(t)
      PROVE  Verified(s)'
  <2>1. UNCHANGED <<chain, seen, broken>>
    BY <1>6 DEF Begin, RecordSweep, BeginAppend
  <2>2. \/ pc'[s] = pc[s]
        \/ pc[s] = "write" /\ pc'[s] = "recording"
        \/ pc[s] = "new" /\ pc'[s] = "query"
    BY <1>6 DEF Begin, RecordSweep, Goto, TypeOK
  <2> QED
    BY <1>0, <2>1, <2>2, SameReaderVerified
<1>7. ASSUME NEW t \in Readers, t # s,
             Query(t) \/ CheckDss(t) \/ CheckInd(t) \/ CheckFinal(t)
      PROVE  Verified(s)'
  <2>1. chain'[s] = chain[s] /\ seen'[s] = seen[s] /\ UNCHANGED broken
    BY <1>7 DEF Query, CheckDss, CheckInd, CheckFinal, TypeOK
  <2>2. pc'[s] = pc[s]
    BY <1>7 DEF Query, CheckDss, CheckInd, CheckFinal, Goto, TypeOK
  <2> QED
    BY <1>0, <2>1, <2>2, SameReaderVerified
<1>8. CASE Query(s)
  <2>1. chain'[s] = NotChecked /\ UNCHANGED broken
    BY <1>0, <1>8 DEF Query, Verified
  <2>2. pc'[s] = IF s \in Sweeps THEN "dss" ELSE "final"
    BY <1>8 DEF Query, Goto, TypeOK
  <2> QED
    BY <2>1, <2>2 DEF Verified, NotChecked
<1>9. ASSUME CheckDss(s) \/ CheckInd(s) \/ CheckFinal(s)
      PROVE  /\ HasEvidence(s)' = HasEvidence(s) /\ UNCHANGED broken
             /\ chain[s] \in [dss : Verdicts, ind : Verdicts, final : Verdicts]
             /\ integrity_ok = IF broken THEN "broken" ELSE "ok"
  BY <1>9 DEF CheckDss, CheckInd, CheckFinal, HasEvidence, Of, TypeOK,
     integrity_ok
<1>10. CASE CheckDss(s)
  <2>1. /\ pc[s] = "dss" /\ pc'[s] = "ind" /\ s \in Sweeps
        /\ chain[s] = NotChecked
    BY <1>0, <1>10 DEF CheckDss, Goto, TypeOK, Verified
  <2>2. /\ chain'[s].ind = "none" /\ chain'[s].final = "none"
        /\ chain'[s].dss = IF HasEvidence(s) THEN integrity_ok ELSE "none"
    <3>1. CASE HasEvidence(s)
      BY <1>9, <1>10, <2>1, <3>1 DEF CheckDss, HasEvidence, TypeOK, NotChecked
    <3>2. CASE ~HasEvidence(s)
      BY <1>10, <2>1, <3>2 DEF CheckDss, HasEvidence, NotChecked
    <3> QED
      BY <3>1, <3>2
  <2> QED
    BY <1>9, <1>10, <2>1, <2>2 DEF Verified
<1>11. CASE CheckInd(s)
  <2>1. /\ pc[s] = "ind" /\ pc'[s] = "final" /\ s \in Sweeps
        /\ chain[s].ind = "none" /\ chain[s].final = "none"
        /\ HasEvidence(s) => chain[s].dss # "none"
        /\ chain[s].dss = "broken" => broken
    BY <1>0, <1>11 DEF CheckInd, Goto, TypeOK, Verified
  <2>2. /\ chain'[s].dss = chain[s].dss /\ chain'[s].final = "none"
        /\ chain'[s].ind = IF HasEvidence(s) THEN integrity_ok ELSE "none"
    <3>1. CASE HasEvidence(s)
      BY <1>9, <1>11, <2>1, <3>1 DEF CheckInd, HasEvidence, TypeOK
    <3>2. CASE ~HasEvidence(s)
      BY <1>11, <2>1, <3>2 DEF CheckInd, HasEvidence
    <3> QED
      BY <3>1, <3>2
  <2>3. chain[s].dss \in {"none", "ok", "broken"}
    BY <1>9, <1>11 DEF Verdicts
  <2> QED
    BY <1>9, <1>11, <2>1, <2>2, <2>3 DEF Verified
<1>12. CASE CheckFinal(s)
  <2>1. /\ pc[s] = "final" /\ pc'[s] = "write"
        /\ UNCHANGED broken
    BY <1>12 DEF CheckFinal, Goto, TypeOK
  <2>2. /\ chain'[s].dss = chain[s].dss /\ chain'[s].ind = chain[s].ind
        /\ chain'[s].final = integrity_ok
    BY <1>9, <1>12 DEF CheckFinal, TypeOK
  <2> QED
    BY <1>0, <1>9, <1>12, <2>1, <2>2 DEF Verified
<1> QED
  BY <1>1, <1>2, <1>4, <1>5, <1>6, <1>7, <1>8, <1>10, <1>11, <1>12 DEF Next

LEMMA VerifiedAlways == Spec => []AllVerified
<1>1. Init => AllVerified
  <2> SUFFICES ASSUME Init, NEW s \in Readers PROVE Verified(s)
    BY DEF AllVerified
  <2>1. chain[s] = NotChecked /\ pc[s] = "new"
    BY DEF Init
  <2> QED
    BY <2>1 DEF Verified, NotChecked
<1> QED
  BY <1>1, Typed, StepVerified, PTL DEF Spec

(* A sweep never calls the chain intact in the end, or for IND.03, after   *)
(* an earlier check of its own has called it broken (engine.py:382-439).   *)
THEOREM SpecVerdictsAgree == Spec => []VerdictsAgree
<1>1. AllVerified => VerdictsAgree
  BY DEF AllVerified, Verified, VerdictsAgree, Readers
<1> QED
  BY <1>1, VerifiedAlways, PTL

-----------------------------------------------------------------------------
(* What the sweeps leave in the log.                                       *)

SweepEntries ==
  /\ \A i \in DOMAIN log :
       log[i].by \in Sweeps => log[i].event = "system_event"
  /\ pending # NoEntry /\ pending.by \in Sweeps
       => pending.event = "system_event"

LEMMA InitSweepEntries == Init => SweepEntries
<1> SUFFICES ASSUME Init, NEW i \in DOMAIN log PROVE log[i].by \notin Sweeps
  BY DEF Init, SweepEntries
<1>1. log \in Seq([event : EventTypes, ts : {0}, by : {Requests}])
  BY GovernanceAssumption DEF Init
<1>2. log[i] \in [event : EventTypes, ts : {0}, by : {Requests}]
  <2> DEFINE T == [event : EventTypes, ts : {0}, by : {Requests}]
  <2>1. log \in Seq(T)
    BY <1>1
  <2> HIDE DEF T
  <2>2. log[i] \in T
    BY <2>1
  <2> QED
    BY <2>2 DEF T
<1> QED
  BY <1>2, RequestsIsNoReader

LEMMA StepSweepEntries == TypeOK /\ SweepEntries /\ [Next]_vars => SweepEntries'
<1> SUFFICES ASSUME TypeOK, SweepEntries, [Next]_vars PROVE SweepEntries'
  OBVIOUS
<1>1. CASE log' = log
  BY <1>1, LogStep DEF SweepEntries
<1>2. CASE log' # log
  <2>1. /\ log \in Seq(Entry) /\ pending \in Entry /\ pending' = NoEntry
        /\ log' = Append(log, pending)
    BY <1>2, LogStep DEF TypeOK
  <2>2. \A i \in DOMAIN log' : i \in DOMAIN log \/ log'[i] = pending
    BY <2>1
  <2>3. pending.by \in Sweeps => pending.event = "system_event"
    BY <2>1, NoEntryIsNone DEF SweepEntries
  <2> QED
    BY <2>1, <2>2, <2>3, LogGrows DEF SweepEntries
<1> QED
  BY <1>1, <1>2

LEMMA SweepEntriesAlways == Spec => []SweepEntries
BY InitSweepEntries, Typed, StepSweepEntries, PTL DEF Spec

(* As long as the entry of an earlier sweep is in the window and not cut   *)
(* off, both controls that verify the chain are assessed                   *)
(* (engine.py:155-165).                                                    *)
THEOREM SpecNextSweepVerifies == Spec => []NextSweepVerifies
<1>1. TypeOK /\ Cut /\ SweepEntries /\ AllVerified => NextSweepVerifies
  <2> SUFFICES ASSUME TypeOK, Cut, SweepEntries, AllVerified, NEW s \in Sweeps,
                      pc[s] \in {"write", "recording", "done"},
                      NEW i \in Past(s), log[i].by \in Sweeps, ~Truncated(s)
               PROVE  chain[s].dss # "none" /\ chain[s].ind # "none"
    BY DEF NextSweepVerifies
  <2>1. s \in Readers /\ HasRead(s)
    BY DEF HasRead, Readers
  <2>2. i \in seen[s] /\ i \in DOMAIN log
    BY <2>1 DEF Cut, SeenCut, Past, Window
  <2>3. log[i].event = "system_event"
    BY <2>2 DEF SweepEntries
  <2>4. HasEvidence(s)
    BY <2>2, <2>3 DEF HasEvidence, Of
  <2> QED
    BY <2>1, <2>4 DEF AllVerified, Verified
<1> QED
  BY <1>1, CutAlways, SweepEntriesAlways, VerifiedAlways, PTL

-----------------------------------------------------------------------------
(* What a satisfied framework says of the log.                             *)

LEMMA SatisfiedControls ==
  ASSUME NEW s, _assess_framework(s, "IIA_AI_AUDITING") = "satisfied"
  PROVE  \A c \in IIA_CONTROLS : _run_control_assertion(s, c) = "satisfied"
<1>1. Framework["IIA_AI_AUDITING"] = IIA_CONTROLS
  BY DEF Framework
<1> DEFINE satisfied ==
      {c \in IIA_CONTROLS : _run_control_assertion(s, c) = "satisfied"}
<1>2. _assess_framework(s, "IIA_AI_AUDITING") =
        CASE satisfied = IIA_CONTROLS -> "satisfied"
          [] satisfied # {} /\ satisfied # IIA_CONTROLS -> "partial"
          [] satisfied = {} /\ seen[s] = {} -> "no_data"
          [] OTHER -> "unsatisfied"
  BY <1>1 DEF _assess_framework
<1>3. satisfied = IIA_CONTROLS
  <2> HIDE DEF satisfied
  <2> QED
    BY <1>2
<1> QED
  BY <1>3

LEMMA SatisfiedIndependence ==
  ASSUME NEW s,
         _run_control_assertion(s, Control("IIA-AI-IND.03", {"system_event"}))
           = "satisfied"
  PROVE  chain[s].ind = "ok"
BY DEF _run_control_assertion, Control, ChainStatus

LEMMA SatisfiedMonitoring ==
  ASSUME NEW s, NEW events,
         _run_control_assertion(s, Control("IIA-AI-CM.04", events))
           = "satisfied"
  PROVE  /\ Of(seen[s], events) # {}
         /\ Count(seen[s], Decisions) # 0
         /\ 5 * Count(seen[s], {"human_override"}) <= Count(seen[s], Decisions)
BY DEF _run_control_assertion, Control, Relevant, OverrideRate

(* A sweep that calls the IIA framework satisfied has verified the chain,  *)
(* and has seen a SAR, a decision and few enough overrides                 *)
(* (engine.py:441-457).                                                    *)
THEOREM SpecSatisfiedMeansClean == Spec => []SatisfiedMeansClean
<1>1. TypeOK /\ Cut => SatisfiedMeansClean
  <2> SUFFICES ASSUME TypeOK, Cut, NEW s \in Sweeps, pc[s] = "done",
                      _assess_framework(s, "IIA_AI_AUDITING") = "satisfied"
               PROVE  /\ chain[s].ind = "ok"
                      /\ Count(Window(s), {"sar_generated"}) > 0
                      /\ Count(Window(s), Decisions) > 0
                      /\ 5 * Count(Covered(s), {"human_override"})
                           <= Count(Covered(s), Decisions)
    BY DEF SatisfiedMeansClean
  <2> DEFINE evidence == {"compliance_report_generated", "sar_generated"}
  <2>1. /\ _run_control_assertion(s, Control("IIA-AI-IND.03", {"system_event"}))
             = "satisfied"
        /\ _run_control_assertion(s, Control("IIA-AI-CM.04", evidence))
             = "satisfied"
    BY SatisfiedControls DEF IIA_CONTROLS
  <2>2. s \in Readers /\ SeenCut(s)
    BY DEF Readers, HasRead, Cut
  <2>3. /\ Window(s) \in SUBSET Nat /\ IsFiniteSet(Window(s))
        /\ Window(s) \subseteq DOMAIN log /\ seen[s] \subseteq Window(s)
    BY <2>2, WindowInLog DEF SeenCut
  <2>4. Covered(s) = seen[s]
    <3>1. \A i \in Window(s), j \in seen[s] : i <= j => i \in seen[s]
      BY <2>2, <2>3 DEF SeenCut
    <3>2. \A j \in seen[s] : j <= j
      BY <2>3
    <3> QED
      BY <2>3, <3>1, <3>2 DEF Covered
  <2>5. \A types : Count(Window(s), types) \in Nat
    <3> SUFFICES ASSUME NEW types PROVE Count(Window(s), types) \in Nat
      OBVIOUS
    <3>1. Of(Window(s), types) \subseteq Window(s)
      BY DEF Of
    <3> QED
      BY <2>3, <3>1, FS_Subset, FS_CardinalityType DEF Count
  <2>6. ASSUME NEW types, Of(seen[s], types) # {}
        PROVE  Count(Window(s), types) > 0
    <3>1. Of(Window(s), types) \subseteq Window(s) /\ Of(Window(s), types) # {}
      BY <2>3, <2>6 DEF Of
    <3>2. IsFiniteSet(Of(Window(s), types))
      BY <2>3, <3>1, FS_Subset
    <3>3. Count(Window(s), types) # 0
      BY <3>1, <3>2, FS_EmptySet DEF Count
    <3> QED
      BY <2>5, <3>3
  <2>7. Of(seen[s], {"sar_generated"}) # {}
    <3>1. PICK i \in seen[s] : log[i].event \in evidence
      BY <2>1, SatisfiedMonitoring DEF Of
    <3>2. log[i] \in Entry
      BY <2>3, <3>1 DEF TypeOK
    <3>3. log[i].event # "compliance_report_generated"
      BY <3>2 DEF Entry, EventTypes, Decisions
    <3> QED
      BY <3>1, <3>3 DEF Of
  <2>8. Of(seen[s], Decisions) # {}
    BY <2>1, SatisfiedMonitoring, FS_EmptySet DEF Count
  <2> QED
    BY <2>1, <2>4, <2>6, <2>7, <2>8, SatisfiedIndependence, SatisfiedMonitoring
<1> QED
  BY <1>1, CutAlways, PTL
=============================================================================
