-------------------------- MODULE AuditTrailProofs --------------------------
(***************************************************************************)
(* Proofs about the audit log, for any number of threads, any MaxRows and  *)
(* external rows at any point.                                             *)
(*                                                                         *)
(* LogInv holds for any number of processes: the unique index and the row  *)
(* count alone keep the numbers dense and every returned entry stored.     *)
(* ChainInv needs a single process, so that one lock serialises _append:   *)
(* what a thread has read is then overtaken by external rows only.         *)
(***************************************************************************)
EXTENDS AuditTrail, WellFoundedInduction, SequenceTheorems, TLAPS

(* What is known of the log and of _append in flight, in any deployment.   *)
Counted == \A t \in Threads : total[t] <= Len(log)

LogInv == TypeOK /\ SeqDense /\ Counted /\ AckedDurable

(* Appending to a sequence whose elements have no common type.             *)
LEMMA AppendFacts ==
  ASSUME NEW l, NEW e, l \in Seq(Rows(l))
  PROVE  /\ Append(l, e) \in Seq(Rows(Append(l, e)))
         /\ Len(l) \in Nat
         /\ DOMAIN l = 1..Len(l)
         /\ Len(Append(l, e)) = Len(l) + 1
         /\ DOMAIN Append(l, e) = 1..(Len(l) + 1)
         /\ \A i \in 1..Len(l) : Append(l, e)[i] = l[i]
         /\ Append(l, e)[Len(l) + 1] = e
<1> DEFINE S == Rows(l) \cup {e}
           m == Append(l, e)
<1>1. l \in Seq(S)
  BY DEF Rows
<1>2. /\ m \in Seq(S)
      /\ Len(l) \in Nat
      /\ DOMAIN l = 1..Len(l)
      /\ Len(m) = Len(l) + 1
      /\ DOMAIN m = 1..(Len(l) + 1)
      /\ \A i \in 1..Len(l) : m[i] = l[i]
      /\ m[Len(l) + 1] = e
  BY <1>1
<1>3. m \in Seq(Rows(m))
  BY <1>2 DEF Rows
<1> QED
  BY <1>2, <1>3

(* A step that appends one well-shaped row keeps the log's part of LogInv. *)
LEMMA AppendKeepsLog ==
  ASSUME LogInv, NEW row, RowShape(row), row.seq = Len(log) + 1,
         log' = Append(log, row)
  PROVE  /\ LogTyped(log')
         /\ \A i \in DOMAIN log' : log'[i].seq = i
         /\ Rows(log) \subseteq Rows(log')
         /\ row \in Rows(log')
         /\ Hashes(log) \subseteq Hashes(log')
         /\ Len(log) \in Nat
         /\ Len(log') = Len(log) + 1
<1>1. log \in Seq(Rows(log)) /\ \A i \in DOMAIN log : RowShape(log[i])
  BY DEF LogInv, TypeOK, LogTyped
<1>2. /\ log' \in Seq(Rows(log'))
      /\ Len(log) \in Nat
      /\ DOMAIN log = 1..Len(log)
      /\ Len(log') = Len(log) + 1
      /\ DOMAIN log' = 1..(Len(log) + 1)
      /\ \A i \in 1..Len(log) : log'[i] = log[i]
      /\ log'[Len(log) + 1] = row
  BY <1>1, AppendFacts
<1>3. \A i \in 1..(Len(log) + 1) : i \in 1..Len(log) \/ i = Len(log) + 1
  BY <1>2
<1>4. \A i \in DOMAIN log' : RowShape(log'[i])
  BY <1>1, <1>2, <1>3
<1>5. \A i \in DOMAIN log' : log'[i].seq = i
  BY <1>2, <1>3 DEF LogInv, SeqDense
<1>6. Rows(log) \subseteq Rows(log') /\ row \in Rows(log')
  BY <1>2 DEF Rows
<1>7. Hashes(log) \subseteq Hashes(log')
  BY <1>2 DEF Hashes
<1> QED
  BY <1>2, <1>4, <1>5, <1>6, <1>7 DEF LogTyped

(* An INSERT the unique index lets through takes the number after the last *)
(* row: a lower one is in use, and COUNT gave no higher one.               *)
LEMMA InsertSeq ==
  ASSUME LogInv, NEW t \in Threads, ~SeqTaken(NextSeq(t))
  PROVE  NextSeq(t) = Len(log) + 1
<1>1. Len(log) \in Nat /\ DOMAIN log = 1..Len(log)
  BY AppendFacts DEF LogInv, TypeOK, LogTyped
<1>2. NextSeq(t) \in Nat /\ 1 <= NextSeq(t) /\ NextSeq(t) <= Len(log) + 1
  BY <1>1 DEF NextSeq, LogInv, Counted, TypeOK
<1>3. NextSeq(t) \notin 1..Len(log)
  BY <1>1 DEF SeqTaken, LogInv, SeqDense
<1> QED
  BY <1>1, <1>2, <1>3

-----------------------------------------------------------------------------
(* Type correctness, dense numbering and durability, any number of         *)
(* processes.                                                              *)

LEMMA InitLogInv == Init => LogInv
<1> SUFFICES ASSUME Init PROVE LogInv
  OBVIOUS
<1>1. DOMAIN log = {} /\ Len(log) = 0 /\ log \in Seq(Rows(log))
  BY DEF Init, Rows
<1> QED
  BY <1>1, ThreadsAssumption
     DEF Init, LogInv, TypeOK, LogTyped, SeqDense, Counted, AckedDurable, Rows

(* Leaving the cursor restores the types of the control variables.         *)
LEMMA LeaveKeepsTypes ==
  ASSUME LogInv, NEW t \in Threads, LeaveCursor(t),
         Hashes(log) \subseteq Hashes(log')
  PROVE  /\ lock' \in [Processes -> Threads \cup {NoThread}]
         /\ pc' \in [Threads -> {"idle", "counting", "inserting"}]
         /\ anchor' \in [Threads -> {NoRow} \cup Hashes(log')]
         /\ total' \in [Threads -> Nat]
         /\ \A u \in Threads : total'[u] = 0 \/ total'[u] = total[u]
BY DEF LeaveCursor, LogInv, TypeOK

(* The maximum of a non-empty bounded set of naturals exists.              *)
LEMMA LastOfFacts ==
  ASSUME NEW n \in Nat, NEW S \in SUBSET (1..n)
  PROVE  /\ LastOf(S) \in S \cup {0}
         /\ \A i \in S : i <= LastOf(S)
<1> DEFINE T == S \cup {0}
           D == {n - i : i \in T}
<1>1. D \in SUBSET Nat /\ D # {}
  OBVIOUS
<1> DEFINE Less == {ss \in Nat \X Nat : ss[1] < ss[2]}
<1>2. IsWellFoundedOn(Less, Nat)
  BY NatLessThanWellFounded, Zenon DEF OpToRel
<1> HIDE DEF D
<1>3. PICK d \in D : \A e \in D : ~ (<<e, d>> \in Less)
  BY <1>1, <1>2, WFMin, Zenon
<1>4. \A e \in D : d <= e
  <2> SUFFICES ASSUME NEW e \in D, e < d PROVE FALSE
    BY <1>1
  <2>1. <<e, d>> \in Less
    BY <1>1
  <2> QED
    BY <2>1, <1>3, Zenon
<1>5. PICK m \in T : d = n - m
  BY <1>3 DEF D
<1>6. \A i \in T : m >= i
  BY <1>4, <1>5 DEF D
<1>7. /\ Max(T) \in T
      /\ \A i \in T : Max(T) >= i
  BY <1>6, Zenon DEF Max
<1> QED
  BY <1>7 DEF LastOf

(* SELECT ... LIMIT 1 returns the last row whose hash is not zero.         *)
LEMMA LastAnchorFacts ==
  ASSUME TypeOK
  PROVE  \E k \in 0..Len(log) :
           /\ k = 0 => LastAnchor(log) = NoRow
           /\ k > 0 => LastAnchor(log) = log[k].hash /\ log[k].hash # ZERO_HASH
           /\ \A j \in (k + 1)..Len(log) : log[j].hash = ZERO_HASH
<1> DEFINE S == {i \in DOMAIN log : log[i].hash # ZERO_HASH}
           k == LastOf(S)
<1>1. Len(log) \in Nat /\ DOMAIN log = 1..Len(log)
  BY AppendFacts DEF TypeOK, LogTyped
<1>2. S \in SUBSET (1..Len(log))
  BY <1>1
<1>3. k \in S \cup {0} /\ \A i \in S : i <= k
  BY <1>1, <1>2, LastOfFacts
<1> HIDE DEF k
<1>4. k \in 0..Len(log) /\ (k > 0 => log[k].hash # ZERO_HASH)
  BY <1>1, <1>3
<1>5. \A j \in (k + 1)..Len(log) : log[j].hash = ZERO_HASH
  <2> SUFFICES ASSUME NEW j \in (k + 1)..Len(log), j \in S PROVE FALSE
    BY <1>1, <1>4
  <2> QED
    BY <1>3, <1>4, <1>1
<1>6. LastAnchor(log) = IF k = 0 THEN NoRow ELSE log[k].hash
  BY DEF LastAnchor, k
<1> QED
  BY <1>4, <1>5, <1>6, <1>1

LEMMA StepLogInv == LogInv /\ [Next]_vars => LogInv'
<1> SUFFICES ASSUME LogInv, [Next]_vars PROVE LogInv'
  OBVIOUS
<1> USE ThreadsAssumption
<1>0. /\ log \in Seq(Rows(log)) /\ Len(log) \in Nat /\ DOMAIN log = 1..Len(log)
      /\ TypeOK /\ SeqDense /\ Counted /\ AckedDurable
  BY AppendFacts DEF LogInv, TypeOK, LogTyped
<1>1. ASSUME NEW t \in Threads, ReadLast(t) PROVE LogInv'
  <2>1. LastAnchor(log) \in {NoRow} \cup Hashes(log)
    BY <1>0, LastAnchorFacts DEF Hashes
  <2>2. UNCHANGED <<log, total, acked>>
    BY <1>1 DEF ReadLast
  <2>3. TypeOK'
    BY <1>0, <1>1, <2>1, <2>2 DEF ReadLast, TypeOK
  <2> QED
    BY <1>0, <2>2, <2>3 DEF LogInv, SeqDense, Counted, AckedDurable
<1>2. ASSUME NEW t \in Threads, ReadCount(t) PROVE LogInv'
  <2>1. UNCHANGED <<log, lock, anchor, acked>>
    BY <1>2 DEF ReadCount
  <2>2. total' \in [Threads -> Nat] /\ Counted'
    BY <1>0, <1>2, <2>1 DEF ReadCount, TypeOK, Counted
  <2>3. TypeOK'
    BY <1>0, <1>2, <2>1, <2>2 DEF ReadCount, TypeOK
  <2> QED
    BY <1>0, <2>1, <2>2, <2>3 DEF LogInv, SeqDense, AckedDurable
<1>3. ASSUME NEW t \in Threads, Insert(t) PROVE LogInv'
  <2> DEFINE row == AuditEntry(NextSeq(t), PrevEntryHash(t), t)
  <2>1. LeaveCursor(t) /\ log' = Append(log, row) /\ acked' = acked \cup {row}
    BY <1>3 DEF Insert
  <2>2. NextSeq(t) = Len(log) + 1
    BY <1>3, InsertSeq DEF Insert
  <2>3. RowShape(row) /\ row.seq = Len(log) + 1
    BY <1>0, <2>2 DEF RowShape, AuditEntry
  <2> HIDE DEF row
  <2>4. /\ LogTyped(log')
        /\ \A i \in DOMAIN log' : log'[i].seq = i
        /\ Rows(log) \subseteq Rows(log') /\ row \in Rows(log')
        /\ Hashes(log) \subseteq Hashes(log')
        /\ Len(log') = Len(log) + 1
    BY <2>1, <2>3, AppendKeepsLog
  <2>5. TypeOK'
    BY <2>1, <2>4, LeaveKeepsTypes DEF TypeOK
  <2>6. \A u \in Threads : total'[u] = 0 \/ total'[u] = total[u]
    BY <2>1, <2>4, LeaveKeepsTypes
  <2>7. Counted'
    <3> SUFFICES ASSUME NEW u \in Threads PROVE total'[u] <= Len(log')
      BY DEF Counted
    <3>1. total[u] \in Nat /\ total[u] <= Len(log)
      BY <1>0 DEF Counted, TypeOK
    <3>2. Len(log') = Len(log) + 1 /\ Len(log) \in Nat
      BY <1>0, <2>4
    <3> QED
      BY <2>6, <3>1, <3>2
  <2> QED
    BY <1>0, <2>1, <2>4, <2>5, <2>7 DEF LogInv, SeqDense, AckedDurable
<1>4. ASSUME NEW t \in Threads, InsertConflict(t) \/ Abandon(t) PROVE LogInv'
  <2>1. LeaveCursor(t) /\ log' = log /\ acked' = acked
    BY <1>4 DEF InsertConflict, Abandon
  <2>2. TypeOK'
    BY <1>0, <2>1, LeaveKeepsTypes DEF TypeOK
  <2>3. \A u \in Threads : total'[u] = 0 \/ total'[u] = total[u]
    BY <2>1, LeaveKeepsTypes
  <2>4. Counted'
    <3> SUFFICES ASSUME NEW u \in Threads PROVE total'[u] <= Len(log')
      BY DEF Counted
    <3>1. total[u] \in Nat /\ total[u] <= Len(log) /\ Len(log) \in Nat
      BY <1>0 DEF Counted, TypeOK
    <3>2. Len(log') = Len(log)
      BY <2>1
    <3> QED
      BY <2>3, <3>1, <3>2
  <2> QED
    BY <1>0, <2>1, <2>2, <2>4 DEF LogInv, SeqDense, AckedDurable
<1>5. ASSUME ExternalWrite PROVE LogInv'
  <2> DEFINE row == AuditEntry(Len(log) + 1, ZERO_HASH, External)
  <2>1. PICK r \in {row, [row EXCEPT !.hash = ZERO_HASH]} : log' = Append(log, r)
    BY <1>5 DEF ExternalWrite
  <2>2. RowShape(r) /\ r.seq = Len(log) + 1
    BY <1>0 DEF RowShape, AuditEntry
  <2>3. /\ LogTyped(log')
        /\ \A i \in DOMAIN log' : log'[i].seq = i
        /\ Rows(log) \subseteq Rows(log')
        /\ Hashes(log) \subseteq Hashes(log')
        /\ Len(log') = Len(log) + 1
    BY <2>1, <2>2, AppendKeepsLog
  <2>4. UNCHANGED <<lock, pc, anchor, total, acked>>
    BY <1>5 DEF ExternalWrite
  <2>5. TypeOK' /\ Counted'
    BY <1>0, <2>3, <2>4 DEF TypeOK, Counted
  <2> QED
    BY <1>0, <2>3, <2>4, <2>5 DEF LogInv, SeqDense, AckedDurable
<1>6. CASE UNCHANGED vars
  BY <1>0, <1>6 DEF vars, LogInv, TypeOK, SeqDense, Counted, AckedDurable
<1> QED
  BY <1>1, <1>2, <1>3, <1>4, <1>5, <1>6 DEF Next

LEMMA SpecLogInv == Spec => []LogInv
BY InitLogInv, StepLogInv, PTL DEF Spec

(* The variables keep their types, however many processes share the file.  *)
THEOREM SpecTypeOK == Spec => []TypeOK
<1>1. LogInv => TypeOK
  BY DEF LogInv
<1> QED
  BY <1>1, SpecLogInv, PTL

(* Sequence numbers are dense, however many processes share the file.      *)
THEOREM SpecSeqDense == Spec => []SeqDense
<1>1. LogInv => SeqDense
  BY DEF LogInv
<1> QED
  BY <1>1, SpecLogInv, PTL

(* A returned entry is in the log, however many processes share the file.  *)
THEOREM SpecAckedDurable == Spec => []AckedDurable
<1>1. LogInv => AckedDurable
  BY DEF LogInv
<1> QED
  BY <1>1, SpecLogInv, PTL

(* _append does not fail on its own account: dense numbers leave the one   *)
(* after the last row free.                                                *)
THEOREM SpecNoSpuriousConflict == Spec => []NoSpuriousConflict
<1>1. LogInv => NoSpuriousConflict
  <2> SUFFICES ASSUME LogInv, NEW t \in Threads, anchor[t] # NoRow,
                      total[t] = Len(log), SeqTaken(NextSeq(t))
               PROVE  FALSE
    BY DEF NoSpuriousConflict
  <2>1. Len(log) \in Nat /\ DOMAIN log = 1..Len(log)
    BY AppendFacts DEF LogInv, TypeOK, LogTyped
  <2> QED
    BY <2>1 DEF NextSeq, SeqTaken, LogInv, SeqDense
<1> QED
  BY <1>1, SpecLogInv, PTL

-----------------------------------------------------------------------------
(* One process: the chain.                                                 *)

SingleProcess == \A t, u \in Threads : ProcOf[t] = ProcOf[u]

(* h is the hash of row k of l (genesis for 0) and only external rows lie  *)
(* between row k and row n.                                                *)
Links(l, h, k, n) ==
  /\ k \in 0..n
  /\ k = 0 => h = GENESIS_HASH
  /\ k > 0 => l[k].hash = h /\ h # ZERO_HASH
  /\ \A j \in (k + 1)..n : l[j].writer = External

LinkedTo(l, h, n) == \E k \in 0..n : Links(l, h, k, n)

RowHash(r) == compute_hash(r.seq, r.prev, r.writer)

RowOk(l, i) ==
  /\ l[i].hash \in {ZERO_HASH, RowHash(l[i])}
  /\ l[i].writer = External => l[i].prev = ZERO_HASH
  /\ l[i].writer # External => /\ l[i].hash = RowHash(l[i])
                               /\ LinkedTo(l, l[i].prev, i - 1)

RowsOk(l) == \A i \in 1..Len(l) : RowOk(l, i)

LockHeld == \A t \in Threads : pc[t] # "idle" => lock[ProcOf[t]] = t

(* What a thread in flight will link to is still the end of the chain.     *)
AnchorFresh ==
  \A t \in Threads :
    pc[t] # "idle" => LinkedTo(log, PrevEntryHash(t), Len(log))

ChainInv == LogInv /\ RowsOk(log) /\ LockHeld /\ AnchorFresh

LEMMA HashesDiffer ==
  ASSUME NEW a, NEW b, NEW c
  PROVE  /\ compute_hash(a, b, c) # ZERO_HASH
         /\ compute_hash(a, b, c) # GENESIS_HASH
         /\ compute_hash(a, b, c) # NoRow
         /\ GENESIS_HASH # ZERO_HASH
         /\ \A x, y, z : compute_hash(a, b, c) = compute_hash(x, y, z) => a = x
BY DEF compute_hash, ZERO_HASH, GENESIS_HASH, NoRow

(* A chain that ends with hash h is still there after one more row.        *)
LEMMA LinksFrame ==
  ASSUME NEW l, l \in Seq(Rows(l)), NEW r, NEW h, NEW n \in 0..Len(l),
         LinkedTo(l, h, n)
  PROVE  LinkedTo(Append(l, r), h, n)
BY AppendFacts DEF LinkedTo, Links

LEMMA LinksExternal ==
  ASSUME NEW l, l \in Seq(Rows(l)), NEW r, r.writer = External, NEW h,
         LinkedTo(l, h, Len(l))
  PROVE  LinkedTo(Append(l, r), h, Len(l) + 1)
BY AppendFacts DEF LinkedTo, Links

LEMMA RowsOkAppend ==
  ASSUME NEW l, l \in Seq(Rows(l)), RowsOk(l), NEW r,
         r.hash \in {ZERO_HASH, RowHash(r)},
         r.writer = External => r.prev = ZERO_HASH,
         r.writer # External => r.hash = RowHash(r) /\ LinkedTo(l, r.prev, Len(l))
  PROVE  RowsOk(Append(l, r))
<1> DEFINE m == Append(l, r)
           n == Len(l) + 1
<1>1. /\ Len(l) \in Nat /\ Len(m) = n /\ m[n] = r
      /\ \A i \in 1..Len(l) : m[i] = l[i]
  BY AppendFacts
<1> SUFFICES ASSUME NEW i \in 1..n PROVE RowOk(m, i)
  BY <1>1 DEF RowsOk
<1>2. CASE i = n
  <2>1. r.writer # External => LinkedTo(m, r.prev, i - 1)
    BY <1>1, <1>2, LinksFrame
  <2> QED
    BY <1>1, <1>2, <2>1 DEF RowOk
<1>3. CASE i # n
  <2>1. i \in 1..Len(l) /\ RowOk(l, i) /\ m[i] = l[i] /\ i - 1 \in 0..Len(l)
    BY <1>1, <1>3 DEF RowsOk
  <2>2. LinkedTo(l, l[i].prev, i - 1) => LinkedTo(m, m[i].prev, i - 1)
    BY <2>1, LinksFrame
  <2> QED
    BY <2>1, <2>2 DEF RowOk
<1> QED
  BY <1>2, <1>3

LEMMA LogFacts ==
  ASSUME LogInv
  PROVE  /\ log \in Seq(Rows(log)) /\ Len(log) \in Nat /\ DOMAIN log = 1..Len(log)
         /\ \A i \in 1..Len(log) : log[i].seq = i
BY AppendFacts DEF LogInv, TypeOK, LogTyped, SeqDense

(* What the SELECT finds is the end of the chain: only a corrupt row has   *)
(* the hash that it skips.                                                 *)
LEMMA ReadIsFresh ==
  ASSUME LogInv, RowsOk(log)
  PROVE  LinkedTo(log, IF LastAnchor(log) = NoRow THEN GENESIS_HASH
                       ELSE LastAnchor(log), Len(log))
<1>1. Len(log) \in Nat
  BY LogFacts
<1>2. PICK k \in 0..Len(log) :
        /\ k = 0 => LastAnchor(log) = NoRow
        /\ k > 0 => LastAnchor(log) = log[k].hash /\ log[k].hash # ZERO_HASH
        /\ \A j \in (k + 1)..Len(log) : log[j].hash = ZERO_HASH
  BY LastAnchorFacts DEF LogInv
<1>3. \A j \in (k + 1)..Len(log) : log[j].writer = External
  <2> SUFFICES ASSUME NEW j \in (k + 1)..Len(log), log[j].writer # External
               PROVE  FALSE
    OBVIOUS
  <2>1. RowOk(log, j) /\ log[j].hash = ZERO_HASH
    BY <1>1, <1>2 DEF RowsOk
  <2> QED
    BY <2>1, HashesDiffer DEF RowOk, RowHash
<1>4. k > 0 => LastAnchor(log) # NoRow
  <2> SUFFICES ASSUME k > 0 PROVE LastAnchor(log) # NoRow
    OBVIOUS
  <2>1. RowOk(log, k)
    BY <1>1, <1>2 DEF RowsOk
  <2> QED
    BY <1>2, <2>1, HashesDiffer DEF RowOk, RowHash
<1> QED
  BY <1>1, <1>2, <1>3, <1>4 DEF LinkedTo, Links

LEMMA InitChainInv == Init => ChainInv
<1> SUFFICES ASSUME Init PROVE ChainInv
  OBVIOUS
<1>1. LogInv
  BY InitLogInv
<1>2. Len(log) = 0
  BY DEF Init
<1> QED
  BY <1>1, <1>2 DEF Init, ChainInv, RowsOk, LockHeld, AnchorFresh

LEMMA StepChainInv ==
  ASSUME SingleProcess, ChainInv, [Next]_vars
  PROVE  ChainInv'
<1> USE ThreadsAssumption
<1>0. /\ LogInv /\ TypeOK /\ RowsOk(log) /\ LockHeld /\ AnchorFresh
      /\ log \in Seq(Rows(log)) /\ Len(log) \in Nat
  BY LogFacts DEF ChainInv, LogInv
<1>a. LogInv'
  BY <1>0, StepLogInv
<1>b. \A t, u \in Threads : pc[t] # "idle" /\ pc[u] # "idle" => t = u
  BY <1>0 DEF LockHeld, SingleProcess
<1>1. ASSUME NEW t \in Threads, ReadLast(t) PROVE ChainInv'
  <2>1. /\ log' = log /\ pc' = [pc EXCEPT ![t] = "counting"]
        /\ anchor' = [anchor EXCEPT ![t] = LastAnchor(log)]
        /\ lock' = [lock EXCEPT ![ProcOf[t]] = t]
        /\ lock[ProcOf[t]] = NoThread
    BY <1>1 DEF ReadLast
  <2>2. \A u \in Threads : pc[u] = "idle"
    BY <1>0, <2>1 DEF LockHeld, SingleProcess
  <2>3. \A u \in Threads : pc'[u] # "idle" => u = t
    BY <1>0, <2>1, <2>2 DEF TypeOK
  <2>4. lock'[ProcOf[t]] = t /\ anchor'[t] = LastAnchor(log)
    BY <1>0, <2>1 DEF TypeOK
  <2>5. LockHeld'
    BY <2>3, <2>4 DEF LockHeld
  <2>6. AnchorFresh'
    BY <1>0, <2>1, <2>3, <2>4, ReadIsFresh DEF AnchorFresh, PrevEntryHash
  <2> QED
    BY <1>0, <1>a, <2>1, <2>5, <2>6 DEF ChainInv
<1>2. ASSUME NEW t \in Threads, ReadCount(t) PROVE ChainInv'
  <2>1. /\ UNCHANGED <<log, lock, anchor>> /\ pc[t] = "counting"
        /\ pc' = [pc EXCEPT ![t] = "inserting"]
    BY <1>2 DEF ReadCount
  <2>2. \A u \in Threads : pc'[u] # "idle" => pc[u] # "idle"
    BY <1>0, <2>1 DEF TypeOK
  <2>3. LockHeld' /\ AnchorFresh'
    BY <1>0, <2>1, <2>2 DEF LockHeld, AnchorFresh, PrevEntryHash
  <2> QED
    BY <1>0, <1>a, <2>1, <2>3 DEF ChainInv
<1>3. ASSUME NEW t \in Threads, LeaveCursor(t), pc[t] # "idle"
      PROVE  LockHeld' /\ AnchorFresh'
  <2>1. \A u \in Threads : pc'[u] = "idle"
    BY <1>0, <1>3, <1>b DEF LeaveCursor, TypeOK
  <2> QED
    BY <2>1 DEF LockHeld, AnchorFresh
<1>4. ASSUME NEW t \in Threads, Insert(t) PROVE ChainInv'
  <2> DEFINE row == AuditEntry(NextSeq(t), PrevEntryHash(t), t)
  <2>1. LeaveCursor(t) /\ pc[t] # "idle" /\ log' = Append(log, row)
    BY <1>4 DEF Insert
  <2>2. LinkedTo(log, PrevEntryHash(t), Len(log))
    BY <1>0, <2>1 DEF AnchorFresh
  <2>3. /\ row.hash = RowHash(row) /\ row.writer # External
        /\ row.prev = PrevEntryHash(t)
    BY DEF AuditEntry, RowHash
  <2> HIDE DEF row
  <2>4. RowsOk(log')
    BY <1>0, <2>1, <2>2, <2>3, RowsOkAppend
  <2> QED
    BY <1>a, <1>3, <2>1, <2>4 DEF ChainInv
<1>5. ASSUME NEW t \in Threads, InsertConflict(t) \/ Abandon(t) PROVE ChainInv'
  <2>1. LeaveCursor(t) /\ pc[t] # "idle" /\ log' = log
    BY <1>5 DEF InsertConflict, Abandon
  <2> QED
    BY <1>0, <1>a, <1>3, <2>1 DEF ChainInv
<1>6. ASSUME ExternalWrite PROVE ChainInv'
  <2> DEFINE row == AuditEntry(Len(log) + 1, ZERO_HASH, External)
  <2>1. PICK r \in {row, [row EXCEPT !.hash = ZERO_HASH]} : log' = Append(log, r)
    BY <1>6 DEF ExternalWrite
  <2>2. /\ r.hash \in {ZERO_HASH, RowHash(r)} /\ r.writer = External
        /\ r.prev = ZERO_HASH
    BY DEF AuditEntry, RowHash
  <2>3. UNCHANGED <<lock, pc, anchor>>
    BY <1>6 DEF ExternalWrite
  <2>4. RowsOk(log')
    BY <1>0, <2>1, <2>2, RowsOkAppend
  <2>5. Len(log') = Len(log) + 1
    BY <1>0, <2>1, AppendFacts
  <2>6. LockHeld'
    BY <1>0, <2>3 DEF LockHeld
  <2>7. AnchorFresh'
    <3> SUFFICES ASSUME NEW t \in Threads, pc'[t] # "idle"
                 PROVE  LinkedTo(log', PrevEntryHash(t)', Len(log'))
      BY DEF AnchorFresh
    <3>1. LinkedTo(log, PrevEntryHash(t), Len(log)) /\ PrevEntryHash(t)' = PrevEntryHash(t)
      BY <1>0, <2>3 DEF AnchorFresh, PrevEntryHash
    <3> QED
      BY <1>0, <2>1, <2>2, <2>5, <3>1, LinksExternal
  <2> QED
    BY <1>a, <2>4, <2>6, <2>7 DEF ChainInv
<1>7. CASE UNCHANGED vars
  BY <1>0, <1>a, <1>7 DEF vars, ChainInv, LockHeld, AnchorFresh, PrevEntryHash
<1> QED
  BY <1>1, <1>2, <1>4, <1>5, <1>6, <1>7 DEF Next

LEMMA SpecChainInv == ASSUME SingleProcess PROVE Spec => []ChainInv
<1>1. ChainInv /\ [Next]_vars => ChainInv'
  BY StepChainInv
<1> QED
  BY InitChainInv, <1>1, PTL DEF Spec

(* The verifier quarantines exactly the rows _append did not write.        *)
LEMMA QuarantinedIsExternal ==
  ASSUME ChainInv, NEW i \in 1..Len(log)
  PROVE  Quarantined(log, i) <=> log[i].writer = External
<1>1. RowOk(log, i)
  BY DEF ChainInv, RowsOk
<1>2. CASE log[i].writer = External
  BY <1>1, <1>2 DEF RowOk, Quarantined
<1>3. CASE log[i].writer # External
  <2>1. PICK k \in 0..(i - 1) : Links(log, log[i].prev, k, i - 1)
    BY <1>1, <1>3 DEF RowOk, LinkedTo
  <2>2. log[i].prev # ZERO_HASH
    BY <2>1, HashesDiffer DEF Links
  <2>3. log[i].hash # ZERO_HASH
    BY <1>1, <1>3, HashesDiffer DEF RowOk, RowHash
  <2> QED
    BY <1>3, <2>2, <2>3 DEF Quarantined
<1> QED
  BY <1>2, <1>3

LEMMA ChainIntegrity == ASSUME ChainInv PROVE IntegrityOk
<1>1. /\ Len(log) \in Nat /\ DOMAIN log = 1..Len(log)
      /\ \A i \in 1..Len(log) : log[i].seq = i
  BY LogFacts DEF ChainInv
<1> SUFFICES ASSUME NEW i \in 1..Len(log), ~Quarantined(log, i)
             PROVE  ~SequenceGap(log, i) /\ ~LinkMismatch(log, i) /\ ~HashMismatch(log, i)
  BY <1>1 DEF IntegrityOk, BrokenLinks
<1>2. log[i].writer # External /\ RowOk(log, i)
  BY QuarantinedIsExternal DEF ChainInv, RowsOk
<1>3. PICK k \in 0..(i - 1) : Links(log, log[i].prev, k, i - 1)
  BY <1>2 DEF RowOk, LinkedTo
<1>4. ~SequenceGap(log, i)
  BY <1>1 DEF SequenceGap, PrevSeq
<1>5. ~HashMismatch(log, i)
  BY <1>2 DEF HashMismatch, RowOk, RowHash
<1>6. ~LinkMismatch(log, i)
  <2> DEFINE S == {j \in 1..(i - 1) : ~Quarantined(log, j)}
  <2>1. S \in SUBSET (1..(i - 1)) /\ i - 1 \in Nat
    OBVIOUS
  <2>2. LastOf(S) \in S \cup {0} /\ \A j \in S : j <= LastOf(S)
    BY <2>1, LastOfFacts
  <2>3. CASE i = 1
    <3>1. LastOf(S) = 0
      BY <2>2, <2>3
    <3>2. log[i].prev = GENESIS_HASH
      BY <1>3, <2>3 DEF Links
    <3> QED
      BY <3>1, <3>2 DEF LinkMismatch, PrevHash
  <2>4. CASE i # 1 /\ Quarantined(log, i - 1)
    BY <2>4 DEF LinkMismatch
  <2>5. CASE i # 1 /\ ~Quarantined(log, i - 1)
    <3>1. i - 1 \in 1..Len(log) /\ i - 1 \in S
      BY <1>1, <2>5
    <3>2. log[i - 1].writer # External
      BY <2>5, <3>1, QuarantinedIsExternal
    <3>3. k = i - 1
      BY <1>3, <3>1, <3>2 DEF Links
    <3>4. log[i].prev = log[i - 1].hash
      BY <1>3, <2>5, <3>3 DEF Links
    <3>5. LastOf(S) = i - 1
      BY <2>2, <3>1
    <3>6. PrevHash(log, i) = log[i - 1].hash
      BY <2>5, <3>5 DEF PrevHash
    <3> QED
      BY <3>4, <3>6 DEF LinkMismatch
  <2> QED
    BY <2>3, <2>4, <2>5
<1> QED
  BY <1>4, <1>5, <1>6

(* Of two recorded entries the later one links past nothing but external   *)
(* rows, so to the earlier one or to a row after it.                       *)
LEMMA ChainForkFree == ASSUME ChainInv PROVE ForkFree
<1>1. /\ Len(log) \in Nat /\ DOMAIN log = 1..Len(log)
      /\ \A i \in 1..Len(log) : log[i].seq = i
  BY LogFacts DEF ChainInv
<1>2. ASSUME NEW i \in 1..Len(log), NEW j \in 1..Len(log), i < j,
             log[i].writer # External, log[j].writer # External,
             log[i].prev = log[j].prev
      PROVE  FALSE
  <2>1. PICK a \in 0..(i - 1) : Links(log, log[i].prev, a, i - 1)
    BY <1>2 DEF ChainInv, RowsOk, RowOk, LinkedTo
  <2>2. PICK b \in 0..(j - 1) : Links(log, log[j].prev, b, j - 1)
    BY <1>2 DEF ChainInv, RowsOk, RowOk, LinkedTo
  <2>3. i <= b
    BY <1>2, <2>2 DEF Links
  <2>4. /\ b \in 1..Len(log) /\ log[b].hash = log[j].prev /\ log[b].hash # ZERO_HASH
        /\ RowOk(log, b)
    BY <1>1, <1>2, <2>2, <2>3 DEF Links, ChainInv, RowsOk
  <2>5. log[b].hash = RowHash(log[b])
    BY <2>4 DEF RowOk
  <2>6. CASE a = 0
    BY <1>2, <2>1, <2>4, <2>5, <2>6, HashesDiffer DEF Links, RowHash
  <2>7. CASE a > 0
    <3>1. /\ a \in 1..Len(log) /\ log[a].hash = log[i].prev /\ log[a].hash # ZERO_HASH
          /\ RowOk(log, a)
      BY <1>1, <1>2, <2>1, <2>7 DEF Links, ChainInv, RowsOk
    <3>2. log[a].hash = RowHash(log[a])
      BY <3>1 DEF RowOk
    <3>3. log[a].seq = log[b].seq
      BY <1>2, <2>4, <2>5, <3>1, <3>2, HashesDiffer DEF RowHash
    <3> QED
      BY <1>1, <2>1, <2>3, <2>4, <3>1, <3>3
  <2> QED
    BY <2>1, <2>6, <2>7
<1>3. ASSUME NEW i \in 1..Len(log), NEW j \in 1..Len(log), ~Quarantined(log, i),
             ~Quarantined(log, j), log[i].prev = log[j].prev
      PROVE  i = j
  <2>1. log[i].writer # External /\ log[j].writer # External
    BY <1>3, QuarantinedIsExternal
  <2>2. ~(i < j) /\ ~(j < i)
    BY <1>2, <1>3, <2>1
  <2> QED
    BY <2>2
<1> QED
  BY <1>1, <1>3 DEF ForkFree

(* A log written by one process always verifies, whatever corrupt rows     *)
(* external runs leave in it and whatever appends fail half-way.           *)
THEOREM SpecIntegrityOk == ASSUME SingleProcess PROVE Spec => []IntegrityOk
<1>1. ChainInv => IntegrityOk
  BY ChainIntegrity
<1> QED
  BY <1>1, SpecChainInv, PTL

(* With one process no two entries chain from the same predecessor, also   *)
(* where the verifier does not look.                                       *)
THEOREM SpecForkFree == ASSUME SingleProcess PROVE Spec => []ForkFree
<1>1. ChainInv => ForkFree
  BY ChainForkFree
<1> QED
  BY <1>1, SpecChainInv, PTL

-----------------------------------------------------------------------------
(* Refinement: the rows the log shows are the ledger's.  A recorded row is  *)
(* linked to the only row whose hash it carries, because the hash of a     *)
(* recorded row contains its number.                                       *)

RowLink(l, i) ==
  IF \E k \in 1..(i - 1) : l[k].hash = l[i].prev
  THEN CHOOSE k \in 1..(i - 1) : l[k].hash = l[i].prev
  ELSE 0

LedgerRow(l, i) ==
  [writer |-> l[i].writer,
   back   |-> IF l[i].writer = External THEN 0 ELSE RowLink(l, i)]

LedgerOf(l) == [i \in DOMAIN l |-> LedgerRow(l, i)]

ReceiptsOf(l, a) == {i \in DOMAIN l : l[i] \in a}

(* Logs in which each number and each link is in order.                    *)
GoodLog(l) ==
  /\ l \in Seq(Rows(l))
  /\ \A i \in 1..Len(l) : l[i].seq = i
  /\ RowsOk(l)

LEMMA RowLinkFacts ==
  ASSUME NEW l, NEW i \in Nat \ {0}
  PROVE  /\ RowLink(l, i) \in 0..(i - 1)
         /\ RowLink(l, i) = 0 => \A k \in 1..(i - 1) : l[k].hash # l[i].prev
         /\ RowLink(l, i) # 0 => l[RowLink(l, i)].hash = l[i].prev
<1>1. CASE \E k \in 1..(i - 1) : l[k].hash = l[i].prev
  <2>1. RowLink(l, i) = CHOOSE k \in 1..(i - 1) : l[k].hash = l[i].prev
    BY <1>1 DEF RowLink
  <2>2. RowLink(l, i) \in 1..(i - 1) /\ l[RowLink(l, i)].hash = l[i].prev
    BY <1>1, <2>1
  <2> QED
    BY <2>2
<1>2. CASE ~ \E k \in 1..(i - 1) : l[k].hash = l[i].prev
  <2>1. RowLink(l, i) = 0
    BY <1>2 DEF RowLink
  <2> QED
    BY <1>2, <2>1
<1> QED
  BY <1>1, <1>2

(* A hash that is not the zero hash is the hash of one row only.           *)
LEMMA HashUnique ==
  ASSUME NEW l, GoodLog(l), NEW j \in 1..Len(l), NEW k \in 1..Len(l),
         l[j].hash = l[k].hash, l[j].hash # ZERO_HASH
  PROVE  j = k
<1>1. RowOk(l, j) /\ RowOk(l, k) /\ l[j].seq = j /\ l[k].seq = k
  BY DEF GoodLog, RowsOk
<1>2. l[j].hash = RowHash(l[j]) /\ l[k].hash = RowHash(l[k])
  BY <1>1 DEF RowOk
<1>3. RowHash(l[j]) = RowHash(l[k])
  BY <1>2
<1>4. l[j].seq = l[k].seq
  BY <1>3, HashesDiffer DEF RowHash
<1> QED
  BY <1>1, <1>4

(* The row a recorded one is linked to is the one its link determines.     *)
LEMMA RowLinkIs ==
  ASSUME NEW l, GoodLog(l), NEW i \in 1..Len(l), l[i].writer # External,
         NEW k \in 0..(i - 1), Links(l, l[i].prev, k, i - 1)
  PROVE  RowLink(l, i) = k
<1> DEFINE b == RowLink(l, i)
<1>1. Len(l) \in Nat
  BY AppendFacts DEF GoodLog
<1>2. /\ b \in 0..(i - 1)
      /\ b = 0 => \A j \in 1..(i - 1) : l[j].hash # l[i].prev
      /\ b # 0 => l[b].hash = l[i].prev
  BY RowLinkFacts
<1> HIDE DEF b
<1>3. CASE k = 0
  <2>1. l[i].prev = GENESIS_HASH
    BY <1>3 DEF Links
  <2>2. ASSUME b # 0 PROVE FALSE
    <3>1. b \in 1..Len(l) /\ RowOk(l, b) /\ l[b].hash = GENESIS_HASH
      BY <1>1, <1>2, <2>1, <2>2 DEF GoodLog, RowsOk
    <3> QED
      BY <3>1, HashesDiffer DEF RowOk, RowHash
  <2> QED
    BY <1>3, <2>2 DEF b
<1>4. CASE k # 0
  <2>1. k \in 1..(i - 1) /\ l[k].hash = l[i].prev /\ l[i].prev # ZERO_HASH
    BY <1>4 DEF Links
  <2>2. b # 0 /\ l[b].hash = l[k].hash
    BY <1>2, <2>1
  <2>3. b \in 1..Len(l) /\ k \in 1..Len(l)
    BY <1>1, <1>2, <2>1, <2>2
  <2>4. b = k
    BY <2>1, <2>2, <2>3, HashUnique
  <2> QED
    BY <2>4 DEF b
<1> QED
  BY <1>3, <1>4

LEMMA LedgerTyped ==
  ASSUME NEW l, GoodLog(l), \A i \in 1..Len(l) : l[i].writer \in Threads \cup {External}
  PROVE  /\ LedgerOf(l) \in Seq([writer : Threads \cup {External}, back : Nat])
         /\ Len(LedgerOf(l)) = Len(l)
         /\ \A i \in 1..Len(l) : LedgerOf(l)[i] = LedgerRow(l, i)
<1> DEFINE T == [writer : Threads \cup {External}, back : Nat]
<1>1. Len(l) \in Nat /\ DOMAIN l = 1..Len(l)
  BY AppendFacts DEF GoodLog
<1>2. \A i \in 1..Len(l) : LedgerRow(l, i) \in T
  <2> SUFFICES ASSUME NEW i \in 1..Len(l) PROVE LedgerRow(l, i) \in T
    OBVIOUS
  <2>1. RowLink(l, i) \in Nat
    BY <1>1, RowLinkFacts
  <2> QED
    BY <2>1 DEF LedgerRow
<1>3. LedgerOf(l) = [i \in 1..Len(l) |-> LedgerRow(l, i)]
  BY <1>1 DEF LedgerOf
<1> HIDE DEF T
<1>4. LedgerOf(l) \in [1..Len(l) -> T]
  BY <1>2, <1>3
<1>5. LedgerOf(l) \in Seq(T)
  BY <1>1, <1>4
<1> QED
  BY <1>1, <1>3, <1>5 DEF T

(* One more row in the log is one more row in the ledger.                  *)
LEMMA LedgerGrows ==
  ASSUME NEW l, GoodLog(l), NEW r, GoodLog(Append(l, r)),
         r.writer \in Threads \cup {External},
         \A i \in 1..Len(l) : l[i].writer \in Threads \cup {External}
  PROVE  LedgerOf(Append(l, r))
           = Append(LedgerOf(l), LedgerRow(Append(l, r), Len(l) + 1))
<1> DEFINE m == Append(l, r)
           n == Len(l) + 1
           T == [writer : Threads \cup {External}, back : Nat]
<1>1. /\ Len(l) \in Nat /\ Len(m) = n /\ m[n] = r
      /\ \A i \in 1..Len(l) : m[i] = l[i]
  BY AppendFacts DEF GoodLog
<1> HIDE DEF m
<1>2. \A i \in 1..n : m[i].writer \in Threads \cup {External}
  BY <1>1
<1>3. \A i \in 1..Len(l) : LedgerRow(m, i) = LedgerRow(l, i)
  <2> SUFFICES ASSUME NEW i \in 1..Len(l), l[i].writer # External
               PROVE  RowLink(m, i) = RowLink(l, i)
    BY <1>1 DEF LedgerRow
  <2>1. PICK k \in 0..(i - 1) : Links(l, l[i].prev, k, i - 1)
    BY DEF GoodLog, RowsOk, RowOk, LinkedTo
  <2>2. RowLink(l, i) = k
    BY <2>1, RowLinkIs
  <2>3. Links(m, m[i].prev, k, i - 1) /\ m[i].writer # External /\ i \in 1..Len(m)
    BY <1>1, <2>1 DEF Links
  <2>4. RowLink(m, i) = k
    BY <2>3, RowLinkIs DEF m
  <2> QED
    BY <2>2, <2>4
<1>4. /\ LedgerOf(l) \in Seq(T) /\ Len(LedgerOf(l)) = Len(l)
      /\ \A i \in 1..Len(l) : LedgerOf(l)[i] = LedgerRow(l, i)
  BY LedgerTyped
<1>5. /\ LedgerOf(m) \in Seq(T) /\ Len(LedgerOf(m)) = n
      /\ \A i \in 1..n : LedgerOf(m)[i] = LedgerRow(m, i)
  BY <1>1, <1>2, LedgerTyped DEF m
<1> HIDE DEF T
<1>6. LedgerRow(m, n) \in T
  <2>1. n \in 1..n
    BY <1>1
  <2>2. LedgerOf(m)[n] \in T
    BY <1>5, <2>1, ElementOfSeq
  <2> QED
    BY <1>5, <2>1, <2>2
<1>7. LET s == Append(LedgerOf(l), LedgerRow(m, n))
      IN  /\ s \in Seq(T) /\ Len(s) = n
          /\ \A i \in 1..n : s[i] = LedgerOf(m)[i]
  BY <1>1, <1>3, <1>4, <1>5, <1>6
<1> QED
  BY <1>5, <1>7, SeqEqual DEF m

LEMMA ChainIsGood ==
  ASSUME ChainInv, ChainInv'
  PROVE  /\ GoodLog(log) /\ GoodLog(log')
         /\ \A i \in 1..Len(log) : log[i].writer \in Threads \cup {External}
         /\ \A i \in 1..Len(log') : log'[i].writer \in Threads \cup {External}
<1>1. /\ log \in Seq(Rows(log)) /\ log' \in Seq(Rows(log'))
      /\ \A i \in DOMAIN log : RowShape(log[i]) /\ log[i].seq = i
      /\ \A i \in DOMAIN log' : RowShape(log'[i]) /\ log'[i].seq = i
      /\ RowsOk(log) /\ RowsOk(log')
  BY DEF ChainInv, LogInv, TypeOK, LogTyped, SeqDense
<1>2. DOMAIN log = 1..Len(log) /\ DOMAIN log' = 1..Len(log')
  BY <1>1, AppendFacts
<1> QED
  BY <1>1, <1>2 DEF GoodLog, RowShape

(* A new row is received by whoever recorded it, and by nobody else.       *)
LEMMA ReceiptsGrow ==
  ASSUME LogInv, LogInv', NEW r, log' = Append(log, r)
  PROVE  /\ acked' = acked \cup {r}
              => ReceiptsOf(log', acked') = ReceiptsOf(log, acked) \cup {Len(log) + 1}
         /\ acked' = acked => ReceiptsOf(log', acked') = ReceiptsOf(log, acked)
<1> DEFINE n == Len(log) + 1
<1>1. /\ Len(log) \in Nat /\ DOMAIN log = 1..Len(log) /\ DOMAIN log' = 1..n
      /\ \A i \in 1..Len(log) : log'[i] = log[i]
      /\ log'[n] = r
  BY LogFacts, AppendFacts
<1>2. \A i \in 1..n : log'[i].seq = i
  BY <1>1 DEF LogInv, SeqDense
<1>3. \A i \in 1..Len(log) : log[i] # r
  <2> SUFFICES ASSUME NEW i \in 1..Len(log), log[i] = r PROVE FALSE
    OBVIOUS
  <2>1. i \in 1..n /\ n \in 1..n /\ log'[i] = log'[n]
    BY <1>1
  <2>2. i = n
    BY <1>2, <2>1
  <2> QED
    BY <1>1, <2>2
<1>4. r \notin acked
  BY <1>1, <1>3 DEF LogInv, AckedDurable, Rows
<1> HIDE DEF n
<1>5. 1..n = 1..Len(log) \cup {n} /\ n \notin 1..Len(log)
  BY <1>1 DEF n
<1>6. ASSUME acked' = acked \cup {r}
      PROVE  \A i : i \in ReceiptsOf(log', acked')
                      <=> i \in ReceiptsOf(log, acked) \cup {n}
  BY <1>1, <1>3, <1>5, <1>6 DEF ReceiptsOf
<1>7. ASSUME acked' = acked
      PROVE  \A i : i \in ReceiptsOf(log', acked') <=> i \in ReceiptsOf(log, acked)
  BY <1>1, <1>4, <1>5, <1>7 DEF ReceiptsOf
<1> QED
  BY <1>6, <1>7 DEF n

(* The ledger's variables, initial state and steps, in these terms.        *)
LEMMA LedgerIs ==
  /\ Ledger!ledgerVars = <<LedgerOf(log), ReceiptsOf(log, acked)>>
  /\ Ledger!ledgerVars' = <<LedgerOf(log'), ReceiptsOf(log', acked')>>
  /\ Ledger!Init <=> LedgerOf(log) = << >> /\ ReceiptsOf(log, acked) = {}
BY DEF Ledger!ledgerVars, Ledger!Init, LedgerOf, LedgerRow, RowLink, LinkedRow,
       ReceiptsOf

LEMMA LedgerRecordIs ==
  ASSUME NEW w
  PROVE  Ledger!Record(w) <=>
           /\ \E k \in 0..Len(LedgerOf(log)) :
                /\ \A i \in (k + 1)..Len(LedgerOf(log)) :
                     LedgerOf(log)[i].writer = External
                /\ LedgerOf(log') = Append(LedgerOf(log), [writer |-> w, back |-> k])
           /\ ReceiptsOf(log', acked')
                = ReceiptsOf(log, acked) \cup {Len(LedgerOf(log)) + 1}
BY DEF Ledger!Record, Ledger!Linkable, Ledger!Recorded, LedgerOf, LedgerRow,
       RowLink, LinkedRow, ReceiptsOf

LEMMA LedgerCorruptIs ==
  Ledger!Corrupt <=>
    /\ LedgerOf(log') = Append(LedgerOf(log), [writer |-> External, back |-> 0])
    /\ ReceiptsOf(log', acked') = ReceiptsOf(log, acked)
BY DEF Ledger!Corrupt, LedgerOf, LedgerRow, RowLink, LinkedRow, ReceiptsOf

LEMMA InitLedger == Init => Ledger!Init
<1> SUFFICES ASSUME Init PROVE LedgerOf(log) = << >> /\ ReceiptsOf(log, acked) = {}
  BY LedgerIs
<1>1. log = << >>
  BY DEF Init
<1> QED
  BY <1>1 DEF LedgerOf, ReceiptsOf

LEMMA StepLedger ==
  ASSUME ChainInv, ChainInv', [Next]_vars
  PROVE  [Ledger!Next]_(Ledger!ledgerVars)
<1>0. LogInv /\ LogInv' /\ Len(log) \in Nat /\ log \in Seq(Rows(log))
  BY LogFacts DEF ChainInv
<1>g. /\ GoodLog(log) /\ GoodLog(log')
      /\ \A i \in 1..Len(log) : log[i].writer \in Threads \cup {External}
      /\ \A i \in 1..Len(log') : log'[i].writer \in Threads \cup {External}
  BY ChainIsGood
<1>l. /\ Len(LedgerOf(log)) = Len(log)
      /\ \A i \in 1..Len(log) : LedgerOf(log)[i].writer = log[i].writer
  <2>1. /\ Len(LedgerOf(log)) = Len(log)
        /\ \A i \in 1..Len(log) : LedgerOf(log)[i] = LedgerRow(log, i)
    BY <1>g, LedgerTyped
  <2>2. \A i : LedgerRow(log, i).writer = log[i].writer
    BY DEF LedgerRow
  <2> QED
    BY <2>1, <2>2
<1>1. ASSUME NEW r, log' = Append(log, r)
      PROVE  /\ LedgerOf(log') = Append(LedgerOf(log), LedgerRow(log', Len(log) + 1))
             /\ Len(log') = Len(log) + 1 /\ log'[Len(log) + 1] = r
             /\ \A i \in 1..Len(log) : log'[i] = log[i]
  <2>1. /\ Len(log') = Len(log) + 1 /\ log'[Len(log) + 1] = r
        /\ \A i \in 1..Len(log) : log'[i] = log[i]
    BY <1>0, <1>1, AppendFacts
  <2>2. r.writer \in Threads \cup {External} /\ GoodLog(Append(log, r))
    BY <1>0, <1>1, <1>g, <2>1
  <2> QED
    BY <1>1, <1>g, <2>1, <2>2, LedgerGrows
<1>2. ASSUME NEW t \in Threads, Insert(t) PROVE Ledger!Record(t)
  <2> DEFINE row == AuditEntry(NextSeq(t), PrevEntryHash(t), t)
             n == Len(log) + 1
  <2>1. log' = Append(log, row) /\ acked' = acked \cup {row}
    BY <1>2 DEF Insert
  <2>2. row.writer = t /\ t # External
    BY ThreadsAssumption DEF AuditEntry
  <2> HIDE DEF row
  <2>3. /\ LedgerOf(log') = Append(LedgerOf(log), LedgerRow(log', n))
        /\ Len(log') = n /\ log'[n] = row
        /\ \A i \in 1..Len(log) : log'[i] = log[i]
    BY <1>1, <2>1
  <2>4. RowOk(log', n) /\ n \in 1..Len(log')
    BY <1>0, <1>g, <2>3 DEF GoodLog, RowsOk
  <2>5. PICK k \in 0..Len(log) : Links(log', row.prev, k, Len(log))
    BY <1>0, <2>2, <2>3, <2>4 DEF RowOk, LinkedTo
  <2>6. RowLink(log', n) = k
    BY <1>0, <1>g, <2>2, <2>3, <2>4, <2>5, RowLinkIs
  <2>7. LedgerRow(log', n) = [writer |-> t, back |-> k]
    BY <2>2, <2>3, <2>6 DEF LedgerRow
  <2>8. \A i \in (k + 1)..Len(log) : LedgerOf(log)[i].writer = External
    BY <1>0, <1>l, <2>3, <2>5 DEF Links
  <2>9. ReceiptsOf(log', acked') = ReceiptsOf(log, acked) \cup {n}
    BY <1>0, <2>1, ReceiptsGrow
  <2> QED
    BY <1>l, <2>3, <2>5, <2>7, <2>8, <2>9, LedgerRecordIs
<1>3. ASSUME ExternalWrite PROVE Ledger!Corrupt
  <2> DEFINE row == AuditEntry(Len(log) + 1, ZERO_HASH, External)
  <2>1. PICK r \in {row, [row EXCEPT !.hash = ZERO_HASH]} : log' = Append(log, r)
    BY <1>3 DEF ExternalWrite
  <2>2. r.writer = External /\ acked' = acked
    BY <1>3 DEF AuditEntry, ExternalWrite
  <2>3. LedgerRow(log', Len(log) + 1) = [writer |-> External, back |-> 0]
    BY <1>1, <2>1, <2>2 DEF LedgerRow
  <2> QED
    BY <1>0, <1>1, <2>1, <2>2, <2>3, ReceiptsGrow, LedgerCorruptIs
<1>4. ASSUME UNCHANGED <<log, acked>> PROVE UNCHANGED Ledger!ledgerVars
  BY <1>4, LedgerIs
<1>5. \/ \E t \in Threads : Insert(t)
      \/ ExternalWrite
      \/ UNCHANGED <<log, acked>>
  BY DEF Next, vars, ReadLast, ReadCount, InsertConflict, Abandon
<1> QED
  BY <1>2, <1>3, <1>4, <1>5 DEF Ledger!Next

(* Three statements under the lock and a unique index amount to the atomic *)
(* append the docstring promises: with one process every behaviour of the  *)
(* log is one of AuditLedger (agent.py:448-524).                           *)
THEOREM SpecImplementsLedger == ASSUME SingleProcess PROVE Spec => ImplementsLedger
<1>1. ChainInv /\ ChainInv' /\ [Next]_vars => [Ledger!Next]_(Ledger!ledgerVars)
  BY StepLedger
<1> QED
  BY <1>1, InitLedger, SpecChainInv, PTL DEF Spec, ImplementsLedger, Ledger!Spec

=============================================================================
