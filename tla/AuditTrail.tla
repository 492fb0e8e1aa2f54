------------------------------ MODULE AuditTrail ------------------------------
(***************************************************************************)
(* The append-only, hash-chained audit log of the compliance service:      *)
(* AuditTrailAgent._append, its database cursor, and the verifier          *)
(* verify_chain_integrity (compliance_agents/audit_trail/agent.py and      *)
(* compliance_agents/shared/storage.py).                                   *)
(*                                                                         *)
(* _append runs three SQL statements under one db_cursor.  The cursor      *)
(* holds a lock of its own PROCESS, and the two SELECTs run before the     *)
(* INSERT opens the SQLite transaction, so each statement is a step here.  *)
(* Rows with an all-zero hash ("null write from failed run") come from     *)
(* writers outside this code; agent.py only tells how it copes with them.  *)
(***************************************************************************)
EXTENDS Naturals, Sequences, FiniteSetsExt

CONSTANTS
  Threads,     \* request threads that append to the log
  Processes,   \* service processes that share the database file
  ProcOf,      \* the process each thread runs in
  NoThread,    \* "nobody holds the lock"
  External,    \* the writer of the zero-hash rows
  MaxRows      \* bound: no append or external write starts on a log this long

ASSUME ThreadsAssumption ==
  /\ ProcOf \in [Threads -> Processes]
  /\ NoThread \notin Threads
  /\ External \notin Threads
  /\ MaxRows \in Nat

VARIABLES
  log,      \* audit_log in INSERT order (= sequence_number order, SeqDense)
  lock,     \* lock[p]: the thread inside db_cursor in process p
  pc,       \* pc[t]: the next statement of t's _append
  anchor,   \* anchor[t]: entry_hash of the "last" row t has read
  total,    \* total[t]: the row count t has read
  acked     \* history: the entries _append has returned to its callers

vars == <<log, lock, pc, anchor, total, acked>>

-----------------------------------------------------------------------------
(***************************************************************************)
(* Hashes.  SHA-256 is injective here: the digest of an entry is its       *)
(* content.  An entry's payload, timestamp and fresh entry_id are stood    *)
(* for by its writer: a sequence number is used once, so (seq, writer)     *)
(* identifies a stored row.                                                *)
(***************************************************************************)
GENESIS_HASH == <<"genesis">>
ZERO_HASH    == <<"zero">>
NoRow        == << >>          \* cur.fetchone() returned None

compute_hash(seq, prev, writer) == <<seq, prev, writer>>

AuditEntry(seq, prev, writer) ==
  [seq |-> seq, prev |-> prev, writer |-> writer,
   hash |-> compute_hash(seq, prev, writer)]

Rows(l) == {l[i] : i \in DOMAIN l}

(* The greatest of a set of row numbers, 0 if there is none.               *)
LastOf(S) == Max(S \cup {0})

(* Variants of LastAnchor: the wrong column; the order of rows reversed.   *)
LastAnchor_PrevColumn(l) ==
  LET last == LastOf({i \in DOMAIN l : l[i].hash # ZERO_HASH})
  IN  IF last = 0 THEN NoRow ELSE l[last].prev

LastAnchor_OldestRow(l) ==
  LET good == {i \in DOMAIN l : l[i].hash # ZERO_HASH}
  IN  IF good = {} THEN NoRow ELSE l[Min(good)].hash

(* SELECT ... WHERE entry_hash != ZERO ORDER BY sequence_number DESC LIMIT 1 *)
LastAnchor(l) ==
  LET last == LastOf({i \in DOMAIN l : l[i].hash # ZERO_HASH})
  IN  IF last = 0 THEN NoRow ELSE l[last].hash

-----------------------------------------------------------------------------
(* The verifier: a row's verdict depends on the rows before it.            *)

Quarantined(l, i) == l[i].hash = ZERO_HASH \/ l[i].prev = ZERO_HASH

PrevSeq(l, i) == IF i = 1 THEN 0 ELSE l[i - 1].seq

PrevHash(l, i) ==
  LET good == LastOf({j \in 1..(i - 1) : ~Quarantined(l, j)})
  IN  IF good = 0 THEN GENESIS_HASH ELSE l[good].hash

SequenceGap(l, i) ==
  /\ l[i].seq # PrevSeq(l, i) + 1
  /\ ~ ((PrevSeq(l, i) + 1)..(l[i].seq - 1)
          \subseteq {l[j].seq : j \in {k \in 1..(i - 1) : Quarantined(l, k)}})

(* The link of the row right after a quarantined one is not checked.       *)
LinkMismatch(l, i) ==
  /\ i = 1 \/ ~Quarantined(l, i - 1)
  /\ l[i].prev # PrevHash(l, i)

HashMismatch(l, i) ==
  l[i].hash # compute_hash(l[i].seq, l[i].prev, l[i].writer)

BrokenLinks(l) ==
  {i \in DOMAIN l :
     /\ ~Quarantined(l, i)
     /\ SequenceGap(l, i) \/ LinkMismatch(l, i) \/ HashMismatch(l, i)}

-----------------------------------------------------------------------------
Init ==
  /\ log    = << >>
  /\ lock   = [p \in Processes |-> NoThread]
  /\ pc     = [t \in Threads |-> "idle"]
  /\ anchor = [t \in Threads |-> NoRow]
  /\ total  = [t \in Threads |-> 0]
  /\ acked  = {}

(* Leaving db_cursor, by commit or by exception: its locals are dropped    *)
(* and the lock of the process is released.                                *)
LeaveCursor(t) ==
  /\ lock'   = [lock EXCEPT ![ProcOf[t]] = NoThread]
  /\ pc'     = [pc EXCEPT ![t] = "idle"]
  /\ anchor' = [anchor EXCEPT ![t] = NoRow]
  /\ total'  = [total EXCEPT ![t] = 0]

(* Variant of ReadLast: db_cursor without its lock.                        *)
ReadLast_NoLock(t) ==
  /\ pc[t] = "idle"
  /\ Len(log) < MaxRows
  /\ lock'   = [lock EXCEPT ![ProcOf[t]] = t]
  /\ pc'     = [pc EXCEPT ![t] = "counting"]
  /\ anchor' = [anchor EXCEPT ![t] = LastAnchor(log)]
  /\ UNCHANGED <<log, total, acked>>

(* with db_cursor(): take the lock, then SELECT the row to chain from.     *)
ReadLast(t) ==
  /\ pc[t] = "idle"
  /\ lock[ProcOf[t]] = NoThread
  /\ Len(log) < MaxRows
  /\ lock'   = [lock EXCEPT ![ProcOf[t]] = t]
  /\ pc'     = [pc EXCEPT ![t] = "counting"]
  /\ anchor' = [anchor EXCEPT ![t] = LastAnchor(log)]
  /\ UNCHANGED <<log, total, acked>>

(* SELECT COUNT of all rows, corrupt ones included.                        *)
ReadCount(t) ==
  /\ pc[t] = "counting"
  /\ pc'    = [pc EXCEPT ![t] = "inserting"]
  /\ total' = [total EXCEPT ![t] = Len(log)]
  /\ UNCHANGED <<log, lock, anchor, acked>>

(* Variants of NextSeq: counted from 0; one after the last good row.       *)
NextSeq_ZeroBased(t) == IF anchor[t] = NoRow THEN 0 ELSE total[t]

NextSeq_AfterLastGood(t) == IF anchor[t] = NoRow THEN 1 ELSE anchor[t][1] + 1

NextSeq(t) == IF anchor[t] = NoRow THEN 1 ELSE total[t] + 1

PrevEntryHash(t) == IF anchor[t] = NoRow THEN GENESIS_HASH ELSE anchor[t]

SeqTaken(s) == \E i \in DOMAIN log : log[i].seq = s

(* INSERT and COMMIT: the entry is returned to the caller.                 *)
Insert(t) ==
  /\ pc[t] = "inserting"
  /\ ~SeqTaken(NextSeq(t))
  /\ LET entry == AuditEntry(NextSeq(t), PrevEntryHash(t), t)
     IN  /\ log'   = Append(log, entry)
         /\ acked' = acked \cup {entry}
  /\ LeaveCursor(t)

(* Variants of InsertConflict: INSERT OR IGNORE, so that the caller is told *)
(* the entry was written; an error path that leaves without unlocking.     *)
InsertConflict_Ignored(t) ==
  /\ pc[t] = "inserting"
  /\ SeqTaken(NextSeq(t))
  /\ acked' = acked \cup {AuditEntry(NextSeq(t), PrevEntryHash(t), t)}
  /\ LeaveCursor(t)
  /\ UNCHANGED log

InsertConflict_KeepsLock(t) ==
  /\ pc[t] = "inserting"
  /\ SeqTaken(NextSeq(t))
  /\ pc' = [pc EXCEPT ![t] = "idle"]
  /\ UNCHANGED <<log, lock, anchor, total, acked>>

(* INSERT refused by the unique index on sequence_number: rollback, raise. *)
InsertConflict(t) ==
  /\ pc[t] = "inserting"
  /\ SeqTaken(NextSeq(t))
  /\ LeaveCursor(t)
  /\ UNCHANGED <<log, acked>>

(* Any other database error, or the death of the process, before COMMIT.   *)
Abandon(t) ==
  /\ pc[t] \in {"counting", "inserting"}
  /\ LeaveCursor(t)
  /\ UNCHANGED <<log, acked>>

(* A failed run outside this code leaves a row with a zero entry_hash, or  *)
(* with a zero prev_entry_hash only: the two cases the verifier names.     *)
ExternalWrite ==
  /\ Len(log) < MaxRows
  /\ LET row == AuditEntry(Len(log) + 1, ZERO_HASH, External)
     IN  \/ log' = Append(log, [row EXCEPT !.hash = ZERO_HASH])
         \/ log' = Append(log, row)
  /\ UNCHANGED <<lock, pc, anchor, total, acked>>

Next ==
  \/ \E t \in Threads : \/ ReadLast(t) \/ ReadCount(t) \/ Insert(t)
                        \/ InsertConflict(t) \/ Abandon(t)
  \/ ExternalWrite

Spec == Init /\ [][Next]_vars

(* A thread inside db_cursor keeps running; nobody has to call _append.    *)
FairSpec ==
  /\ Spec
  /\ \A t \in Threads : /\ WF_vars(ReadCount(t))
                        /\ WF_vars(Insert(t) \/ InsertConflict(t))

-----------------------------------------------------------------------------
(* Types.  A hash is a nested tuple with no smaller description than the   *)
(* rows that carry it, so the hashes a thread holds are hashes of the log. *)
RowShape(r) ==
  /\ DOMAIN r = {"seq", "prev", "writer", "hash"}
  /\ r.seq \in Nat
  /\ r.writer \in Threads \cup {External}

LogTyped(l) == l \in Seq(Rows(l)) /\ \A i \in DOMAIN l : RowShape(l[i])

Hashes(l) == {l[i].hash : i \in DOMAIN l}

(* Every variable has the type the code gives it (_append's locals, the    *)
(* columns of audit_log, the lock of storage.py).                          *)
TypeOK ==
  /\ LogTyped(log)
  /\ lock \in [Processes -> Threads \cup {NoThread}]
  /\ pc \in [Threads -> {"idle", "counting", "inserting"}]
  /\ anchor \in [Threads -> {NoRow} \cup Hashes(log)]
  /\ total \in [Threads -> Nat]

(* Sequence numbers are dense: the n-th row of audit_log has number n,     *)
(* whatever appends failed and whatever external rows came in between.     *)
(* It is what lets the row count + 1 be the next number (agent.py:473).    *)
SeqDense == \A i \in DOMAIN log : log[i].seq = i

(* verify_chain_integrity never cries wolf: a log written by _append, with *)
(* corrupt external rows in any place, has no broken link (agent.py:364).  *)
IntegrityOk == BrokenLinks(log) = {}

(* No two recorded entries chain from the same predecessor - also behind a *)
(* quarantined row, where the verifier does not look (agent.py:409).       *)
ForkFree ==
  \A i, j \in DOMAIN log :
    /\ ~Quarantined(log, i)
    /\ ~Quarantined(log, j)
    /\ log[i].prev = log[j].prev
    => i = j

(* An AuditEntry that _append has returned is in the log for ever with the *)
(* number and the link the caller was told (agent.py:495-524).             *)
AckedDurable == acked \subseteq Rows(log)

(* _append does not fail on its own account: if nothing was written since  *)
(* it counted the rows, its number is free (agent.py:472-477), whether the *)
(* newest rows are corrupt or not.                                         *)
NoSpuriousConflict ==
  \A t \in Threads :
    /\ pc[t] = "inserting"
    /\ anchor[t] # NoRow
    /\ total[t] = Len(log)
    => ~SeqTaken(NextSeq(t))

(* Whoever enters db_cursor leaves it: no exit path, the refused INSERT    *)
(* included, keeps the lock of the process (storage.py:34-46).             *)
LockReleased ==
  \A p \in Processes : lock[p] # NoThread ~> lock[p] = NoThread

(* Refinement: the log implements the one-step ledger of AuditLedger.      *)
LinkedRow(i) ==
  IF \E k \in 1..(i - 1) : log[k].hash = log[i].prev
  THEN CHOOSE k \in 1..(i - 1) : log[k].hash = log[i].prev
  ELSE 0

Ledger ==
  INSTANCE AuditLedger WITH
    Writers  <- Threads,
    ledger   <- [i \in DOMAIN log |->
                   [writer |-> log[i].writer,
                    back   |-> IF log[i].writer = External THEN 0
                               ELSE LinkedRow(i)]],
    receipts <- {i \in DOMAIN log : log[i] \in acked}

(* Every behaviour of the log is one of the ledger: three statements and a *)
(* unique index amount to the atomic append the docstring promises.        *)
ImplementsLedger == Ledger!Spec

=============================================================================
