------------------------------ MODULE Governance ------------------------------
(***************************************************************************)
(* The readers of the audit log: the governance sweep (governance/         *)
(* engine.py) and the periodic compliance report (reporting/agent.py),     *)
(* while requests go on appending entries.                                 *)
(*                                                                         *)
(* Every read and every append takes the process-wide lock of db_cursor    *)
(* for itself; the timestamp of an entry is drawn under that lock, the     *)
(* window of a reader before its first read.  Only the fields of an entry  *)
(* that decide a control are kept.                                         *)
(***************************************************************************)
EXTENDS Naturals, Sequences, FiniteSets

CONSTANTS
  Sweeps,      \* calls of run_full_sweep
  Reports,     \* calls of generate_compliance_report
  Recorded,    \* the kinds of entries requests append
  Period,      \* period_hours, in ticks of the clock
  Limit,       \* limit=5000 of both queries
  BiasMinimum, \* decisions below which a block rate says nothing
  Histories,   \* what the log may hold already: entries of time 0
  MaxEntries,  \* bound on the log
  MaxClock,    \* bound on the clock
  Requests,    \* "by": appended by a request, not by a reader
  NoEntry      \* nobody holds the lock for an append

Readers == Sweeps \cup Reports

Decisions ==
  {"transaction_approved", "transaction_flagged", "transaction_blocked"}

(* The events the code records; watchlist_versioned, risk_score_assigned   *)
(* and compliance_report_generated are declared and never recorded.        *)
EventTypes ==
  Decisions \cup
  {"data_ingested", "data_deduplicated", "rule_screening_complete",
   "llm_analysis_complete", "human_override", "sar_generated",
   "system_event"}

ASSUME GovernanceAssumption ==
  /\ Sweeps \cap Reports = {}
  /\ Requests \notin Readers
  /\ Recorded \subseteq EventTypes
  /\ Histories \subseteq Seq([event : EventTypes, ts : {0}, by : {Requests}])
  /\ {Period, Limit, BiasMinimum, MaxEntries, MaxClock} \subseteq Nat
  /\ NoEntry \notin [event : EventTypes, ts : Nat, by : Readers \cup {Requests}]

VARIABLES
  clock,    \* datetime.now
  log,      \* audit_log: a sequence of [event, ts, by]
  broken,   \* a link of the chain is broken, whoever did it
  pending,  \* the entry being appended under the lock: [event, ts, by]
  pc,       \* pc[s]: the next read of reader s
  to_dt,    \* to_dt[s]: the end of its window
  seen,     \* seen[s]: the positions its query returned
  chain,    \* chain[s][c]: what verify_chain_integrity said at check c
  reports   \* table compliance_reports

vars == <<clock, log, broken, pending, pc, to_dt, seen, chain, reports>>

-----------------------------------------------------------------------------
(* frameworks.py: the controls, and the events that are evidence for them. *)
Control(id, events) == [control_id |-> id, mapped_audit_events |-> events]

COBIT_CONTROLS ==
  { Control("COBIT-APO12.01", {"data_ingested", "watchlist_versioned"}),
    Control("COBIT-DSS06.03", {"system_event"}),
    Control("COBIT-DSS06.06", Decisions \cup {"llm_analysis_complete"}),
    Control("COBIT-MEA01.03", {"compliance_report_generated",
                               "sar_generated"}) }

COSO_CONTROLS ==
  { Control("COSO-GOV.02", {"data_ingested", "risk_score_assigned",
                            "transaction_blocked"}),
    Control("COSO-RC.05", {"transaction_flagged", "transaction_blocked",
                           "human_override"}),
    Control("COSO-CA.03", {"rule_screening_complete",
                           "llm_analysis_complete", "human_override"}),
    Control("COSO-INFO.04", {"data_ingested", "watchlist_versioned"}) }

GAO_CONTROLS ==
  { Control("GAO-AI-ACC.01", Decisions \cup {"human_override"}),
    Control("GAO-AI-DI.02", {"data_ingested", "watchlist_versioned"}),
    Control("GAO-AI-EX.03", {"transaction_flagged", "transaction_blocked",
                             "llm_analysis_complete"}),
    Control("GAO-AI-TR.04", {"llm_analysis_complete",
                             "risk_score_assigned"}) }

IIA_CONTROLS ==
  { Control("IIA-AI-ETH.01", Decisions),
    Control("IIA-AI-LC.02", {"system_event", "compliance_report_generated"}),
    Control("IIA-AI-IND.03", {"system_event"}),
    Control("IIA-AI-CM.04", {"compliance_report_generated",
                             "sar_generated"}) }

Framework ==
  [COBIT_2019            |-> COBIT_CONTROLS,
   COSO_ERM              |-> COSO_CONTROLS,
   GAO_AI_ACCOUNTABILITY |-> GAO_CONTROLS,
   IIA_AI_AUDITING       |-> IIA_CONTROLS]

-----------------------------------------------------------------------------
(* The assessment of a set S of positions of the log.                      *)
Of(S, types) == {i \in S : log[i].event \in types}

Count(S, types) == Cardinality(Of(S, types))

Relevant(S, ctrl) == Of(S, ctrl.mapped_audit_events)

(* _run_bias_analysis, for one country and one KYC tier.                   *)
BiasFlags(S) ==
  /\ Count(S, Decisions) >= BiasMinimum
  /\ 2 * Count(S, {"transaction_blocked"}) > Count(S, Decisions)

(* Variant of OverrideRate: overrides among the control's own evidence.    *)
OverrideRate_Relevant(S) ==
  IF Count(S, Decisions) = 0 THEN "no_data" ELSE "satisfied"

(* IIA-AI-CM.04: at most 20% of the decisions were overridden.             *)
OverrideRate(S) ==
  IF Count(S, Decisions) = 0 THEN "no_data"
  ELSE IF 5 * Count(S, {"human_override"}) <= Count(S, Decisions)
  THEN "satisfied" ELSE "partial"

ChainStatus(verdict) == IF verdict = "ok" THEN "satisfied" ELSE "unsatisfied"

(* A control without evidence is not assessed.  Every ingestion has its    *)
(* checksum, every decision and override its rationale.                    *)
_run_control_assertion(s, ctrl) ==
  IF Relevant(seen[s], ctrl) = {} THEN "no_data"
  ELSE CASE ctrl.control_id = "COBIT-DSS06.03" -> ChainStatus(chain[s].dss)
         [] ctrl.control_id = "IIA-AI-IND.03"  -> ChainStatus(chain[s].ind)
         [] ctrl.control_id = "COBIT-DSS06.06" ->
              IF BiasFlags(seen[s]) THEN "partial" ELSE "satisfied"
         [] ctrl.control_id = "GAO-AI-ACC.01"  ->
              IF Count(seen[s], Decisions) = 0 THEN "no_data" ELSE "satisfied"
         [] ctrl.control_id = "IIA-AI-CM.04"   -> OverrideRate(seen[s])
         [] OTHER -> "satisfied"

(* overall_status of a framework's report.                                 *)
_assess_framework(s, f) ==
  LET satisfied == {c \in Framework[f] :
                      _run_control_assertion(s, c) = "satisfied"}
  IN  CASE satisfied = Framework[f] -> "satisfied"
        [] satisfied # {} /\ satisfied # Framework[f] -> "partial"
        [] satisfied = {} /\ seen[s] = {} -> "no_data"
        [] OTHER -> "unsatisfied"

-----------------------------------------------------------------------------
NotChecked == [dss |-> "none", ind |-> "none", final |-> "none"]

Init ==
  /\ clock   = 1
  /\ log     \in Histories
  /\ broken  = FALSE
  /\ pending = NoEntry
  /\ pc      = [s \in Readers |-> "new"]
  /\ to_dt   = [s \in Readers |-> 0]
  /\ seen    = [s \in Readers |-> {}]
  /\ chain   = [s \in Readers |-> NotChecked]
  /\ reports = {}

Goto(s, label) == pc' = [pc EXCEPT ![s] = label]

(* What s holds in local variables is gone when it returns.                *)
Forget(s) ==
  /\ to_dt'  = [to_dt EXCEPT ![s] = 0]
  /\ seen'   = [seen EXCEPT ![s] = {}]
  /\ chain'  = [chain EXCEPT ![s] = NotChecked]

Tick ==
  /\ clock < MaxClock
  /\ clock' = clock + 1
  /\ UNCHANGED <<log, broken, pending, pc, to_dt, seen, chain, reports>>

(* _append enters db_cursor and builds its entry ...                       *)
BeginAppend(event, by) ==
  /\ pending = NoEntry
  /\ Len(log) < MaxEntries
  /\ pending' = [event |-> event, ts |-> clock, by |-> by]
  /\ UNCHANGED <<clock, log, broken, to_dt, seen, chain, reports>>

Append_(event) ==
  /\ BeginAppend(event, Requests)
  /\ UNCHANGED pc

(* ... and commits it, or rolls back.  A sweep ends with its own entry.    *)
Commit ==
  /\ pending # NoEntry
  /\ log' = Append(log, pending)
  /\ pending' = NoEntry
  /\ pc' = [s \in Readers |-> IF s = pending.by THEN "done" ELSE pc[s]]
  /\ UNCHANGED <<clock, broken, to_dt, seen, chain, reports>>

(* Variant of Rollback: the caller is not told.                            *)
Rollback_Silent ==
  /\ pending # NoEntry
  /\ pending' = NoEntry
  /\ UNCHANGED <<clock, log, broken, pc, to_dt, seen, chain, reports>>

Rollback ==
  /\ pending # NoEntry
  /\ pending' = NoEntry
  /\ IF pending.by = Requests
     THEN UNCHANGED <<pc, to_dt, seen, chain>>
     ELSE Goto(pending.by, "failed") /\ Forget(pending.by)
  /\ UNCHANGED <<clock, log, broken, reports>>

(* Somebody breaks the chain: what the integrity check is there for.       *)
BreakChain ==
  /\ ~broken
  /\ log # << >>
  /\ pending = NoEntry
  /\ broken' = TRUE
  /\ UNCHANGED <<clock, log, pending, pc, to_dt, seen, chain, reports>>

-----------------------------------------------------------------------------
(* to_dt = now, before anything is read.                                   *)
Begin(s) ==
  /\ pc[s] = "new"
  /\ to_dt' = [to_dt EXCEPT ![s] = clock]
  /\ Goto(s, "query")
  /\ UNCHANGED <<clock, log, broken, pending, seen, chain, reports>>

(* timestamp >= from_dt AND timestamp <= to_dt                             *)
Window(s) ==
  {i \in DOMAIN log : log[i].ts + Period >= to_dt[s] /\ log[i].ts <= to_dt[s]}

(* ORDER BY sequence_number ASC LIMIT: the oldest.                         *)
Oldest(S) == {i \in S : Cardinality({j \in S : j < i}) < Limit}

(* Variant of Query: reads without the lock of db_cursor.                  *)
Query_NoLock(s) ==
  /\ pc[s] = "query"
  /\ seen' = [seen EXCEPT ![s] = Oldest(Window(s))]
  /\ Goto(s, IF s \in Sweeps THEN "dss" ELSE "final")
  /\ UNCHANGED <<clock, log, broken, pending, to_dt, chain, reports>>

Query(s) ==
  /\ pc[s] = "query"
  /\ pending = NoEntry
  /\ seen' = [seen EXCEPT ![s] = Oldest(Window(s))]
  /\ Goto(s, IF s \in Sweeps THEN "dss" ELSE "final")
  /\ UNCHANGED <<clock, log, broken, pending, to_dt, chain, reports>>

integrity_ok == IF broken THEN "broken" ELSE "ok"

(* The controls DSS06.03 and IND.03 each verify the chain, if assessed.    *)
CheckDss(s) ==
  /\ pc[s] = "dss"
  /\ pending = NoEntry
  /\ chain' = IF Of(seen[s], {"system_event"}) = {} THEN chain
              ELSE [chain EXCEPT ![s].dss = integrity_ok]
  /\ Goto(s, "ind")
  /\ UNCHANGED <<clock, log, broken, pending, to_dt, seen, reports>>

CheckInd(s) ==
  /\ pc[s] = "ind"
  /\ pending = NoEntry
  /\ chain' = IF Of(seen[s], {"system_event"}) = {} THEN chain
              ELSE [chain EXCEPT ![s].ind = integrity_ok]
  /\ Goto(s, "final")
  /\ UNCHANGED <<clock, log, broken, pending, to_dt, seen, reports>>

(* Variant of CheckFinal: integrity_ok is taken as true if missing.        *)
CheckFinal_Default(s) ==
  /\ pc[s] = "final"
  /\ pending = NoEntry
  /\ chain' = [chain EXCEPT ![s].final = "ok"]
  /\ Goto(s, "write")
  /\ UNCHANGED <<clock, log, broken, pending, to_dt, seen, reports>>

CheckFinal(s) ==
  /\ pc[s] = "final"
  /\ pending = NoEntry
  /\ chain' = [chain EXCEPT ![s].final = integrity_ok]
  /\ Goto(s, "write")
  /\ UNCHANGED <<clock, log, broken, pending, to_dt, seen, reports>>

(* Variant of RecordSweep: another event type.                             *)
RecordSweep_AsReport(s) ==
  /\ pc[s] = "write"
  /\ s \in Sweeps
  /\ BeginAppend("data_ingested", s)
  /\ Goto(s, "recording")

(* record_system_event of the sweep itself.                                *)
RecordSweep(s) ==
  /\ pc[s] = "write"
  /\ s \in Sweeps
  /\ BeginAppend("system_event", s)
  /\ Goto(s, "recording")

(* What generate_compliance_report counts in what it has read.             *)
ComplianceReport(s) ==
  [by |-> s, total |-> Count(seen[s], Decisions),
   sar_count |-> Count(seen[s], {"sar_generated"}),
   human_override_count |-> Count(seen[s], {"human_override"}),
   audit_chain_integrity |-> chain[s].final]

(* _persist_report: a row of its own; nothing is appended to the log.      *)
PersistReport(s) ==
  /\ pc[s] = "write"
  /\ s \in Reports
  /\ pending = NoEntry
  /\ reports' = reports \cup {ComplianceReport(s)}
  /\ Goto(s, "done")
  /\ Forget(s)
  /\ UNCHANGED <<clock, log, broken, pending>>

(* An error at any read or write: HTTP 500.                                *)
Fail(s) ==
  /\ pc[s] \in {"query", "dss", "ind", "final", "write"}
  /\ Goto(s, "failed")
  /\ Forget(s)
  /\ UNCHANGED <<clock, log, broken, pending, reports>>

Next ==
  \/ Tick \/ Commit \/ Rollback \/ BreakChain
  \/ \E event \in Recorded : Append_(event)
  \/ \E s \in Readers :
       \/ Begin(s) \/ Query(s) \/ CheckDss(s) \/ CheckInd(s) \/ CheckFinal(s)
       \/ RecordSweep(s) \/ PersistReport(s) \/ Fail(s)

Spec == Init /\ [][Next]_vars

-----------------------------------------------------------------------------
Labels ==
  {"new", "query", "dss", "ind", "final", "write", "recording", "done",
   "failed"}

Verdicts == {"none", "ok", "broken"}

Entry == [event : EventTypes, ts : Nat, by : Sweeps \cup {Requests}]

(* Types, and that the lock is held for a sweep exactly while it records.  *)
TypeOK ==
  /\ clock \in Nat
  /\ log \in Seq(Entry)
  /\ broken \in BOOLEAN
  /\ pending \in Entry \cup {NoEntry}
  /\ pc \in [Readers -> Labels]
  /\ \A s \in Readers :
       pc[s] = "recording" <=> pending # NoEntry /\ pending.by = s
  /\ to_dt \in [Readers -> Nat]
  /\ seen \in [Readers -> SUBSET Nat]
  /\ chain \in [Readers -> [dss : Verdicts, ind : Verdicts, final : Verdicts]]
  /\ reports \subseteq
       [by : Reports, total : Nat, sar_count : Nat, human_override_count : Nat,
        audit_chain_integrity : Verdicts]

-----------------------------------------------------------------------------
HasRead(s) ==
  \/ pc[s] \in {"dss", "ind", "final", "write", "recording"}
  \/ pc[s] = "done" /\ s \in Sweeps

Truncated(s) == Cardinality(seen[s]) >= Limit

(* The entries of the window of s that are older than its end, whenever    *)
(* they were committed.                                                    *)
Past(s) == {i \in Window(s) : log[i].ts < to_dt[s]}

(* A reader has seen every entry of its window, also the one that was      *)
(* being appended when the window was drawn; if the limit cuts something   *)
(* off, it is the newest (engine.py:137, reporting/agent.py:208).          *)
WindowComplete ==
  \A s \in Readers :
    HasRead(s) =>
      /\ seen[s] \subseteq Window(s)
      /\ \A i \in Past(s) \ seen[s] :
           Truncated(s) /\ \A j \in seen[s] : j < i

(* A sweep never contradicts itself on the safe side: a chain that it      *)
(* calls intact in the end was called intact by the controls before, and a *)
(* sound IND.03 never follows a violated DSS06.03 (engine.py:382-439).     *)
VerdictsAgree ==
  \A s \in Sweeps :
    /\ chain[s].final = "ok" => chain[s].dss # "broken"
                              /\ chain[s].ind # "broken"
    /\ chain[s].ind = "ok" => chain[s].dss = "ok"

(* A sweep leaves the evidence on which the next one verifies the chain:   *)
(* as long as its entry is in the window and not cut off, DSS06.03 and     *)
(* IND.03 are assessed by every later sweep (engine.py:155-165).           *)
NextSweepVerifies ==
  \A s \in Sweeps :
    /\ pc[s] \in {"write", "recording", "done"}
    /\ \E i \in Past(s) : log[i].by \in Sweeps
    /\ ~Truncated(s)
    => chain[s].dss # "none" /\ chain[s].ind # "none"

(* The entries of the window of s that precede the newest it has seen.     *)
Covered(s) == {i \in Window(s) : \E j \in seen[s] : i <= j}

(* A framework that a sweep calls satisfied is: for IIA the log has, in    *)
(* the window, a decision, a SAR and, as far as the sweep looked, at most  *)
(* one override in five decisions, and the chain was intact                *)
(* (engine.py:441-457).                                                    *)
SatisfiedMeansClean ==
  \A s \in Sweeps :
    /\ pc[s] = "done"
    /\ _assess_framework(s, "IIA_AI_AUDITING") = "satisfied"
    => /\ chain[s].ind = "ok"
       /\ Count(Window(s), {"sar_generated"}) > 0
       /\ Count(Window(s), Decisions) > 0
       /\ 5 * Count(Covered(s), {"human_override"})
            <= Count(Covered(s), Decisions)

=============================================================================
