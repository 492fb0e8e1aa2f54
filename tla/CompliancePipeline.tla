-------------------------- MODULE CompliancePipeline --------------------------
(***************************************************************************)
(* The life of a compliance request, from POST to response:                *)
(*   POST /compliance/screen    orchestrator.process_transaction           *)
(*   POST /compliance/ingest    main.ingest_record                         *)
(*   POST /compliance/override  orchestrator.apply_human_override          *)
(*   POST /compliance/report/sar  main.generate_sar                        *)
(* The endpoints are plain functions, so FastAPI runs them concurrently on *)
(* a thread pool.  Every database call takes db_cursor for itself only,    *)
(* so one database call is one step here.  An audit entry is one step too: *)
(* with one service process that is what AuditTrail!ImplementsLedger says. *)
(*                                                                         *)
(* A request stores at most one record, screening, and automatic SAR, so   *)
(* the request itself stands for their random identifiers.                 *)
(***************************************************************************)
EXTENDS ScreeningRules, Sequences

CONSTANTS
  Requests,      \* the requests clients send, retries included
  Workloads,     \* bound: the sets of requests explored together
  Contents,      \* normalised payloads, stream type included
  ContentOf,     \* the payload each request carries
  Stamped,       \* the payloads sent with a timestamp of their own
  Users,         \* user ids
  UserOf,        \* the payload's user_id, or NoUser
  NoUser,        \* payload.get("user_id") is None
  Ingests,       \* the requests to /compliance/ingest
  Inquiries,     \* the requests to /compliance/report/sar: they name a user
  LlmForced,     \* requests with force_llm, or of stream type user_profile
  RuleOutcomes,  \* the rule decisions explored
  Cascades,      \* the replies of the configured providers explored
  QueryLimit,    \* limit=1000 of generate_sar's audit query
  NoRequest      \* "no record", "no such row"

ASSUME PipelineAssumption ==
  /\ Workloads \subseteq SUBSET Requests
  /\ ContentOf \in [Requests -> Contents]
  /\ Stamped \subseteq Contents
  /\ UserOf \in [Contents -> Users \cup {NoUser}]
  /\ NoUser \notin Users
  /\ Ingests \cup Inquiries \subseteq Requests
  /\ Ingests \cap Inquiries = {}
  /\ \A r \in Inquiries : UserOf[ContentOf[r]] # NoUser
  /\ LlmForced \subseteq Requests
  /\ RuleOutcomes \subseteq Decisions
  /\ QueryLimit \in Nat
  /\ NoRequest \notin Requests

VARIABLES
  pc,          \* pc[r]: the next database call of request r
  records,     \* table ingested_records: [id, of], of = NoRequest: original
  screenings,  \* the requests whose row is in table screening_results
  audit,       \* audit_log: a sequence of [event, rec, risk, decision]
  sars,        \* table sar_reports
  dup_of,      \* dup_of[r]: what _check_duplicate returned
  since,       \* since[r]: length of audit at the start of the SAR's window
  verdict,     \* verdict[r]: [rule, llm] once screened
  sar,         \* sar[r]: the SAR under construction or generated
  response,    \* response[r]: what the client has been told
  overrides,   \* overrides[r]: the answer to an analyst's override of r
  answered     \* history: the requests answered before r was received

tables == <<records, screenings, audit, sars>>
locals == <<dup_of, since, verdict, sar>>
vars   == <<pc, tables, locals, response, overrides, answered>>

-----------------------------------------------------------------------------
NoVerdict == [rule |-> "pass", llm |-> NoLlm]

NoSar == [by |-> NoRequest, risk |-> "low", supporting |-> {}]

Risk(r)     == final_risk(verdict[r].rule, verdict[r].llm)
Decision(r) == final_decision(verdict[r].rule, verdict[r].llm)

IsDuplicate(r) == dup_of[r] # NoRequest

User(r) == UserOf[ContentOf[r]]

(* Variant of version_id: every payload gets the time of its arrival.      *)
version_id_Arrival(r) == <<ContentOf[r], r>>

(* The hash of the normalised payload; _normalise adds the time of arrival *)
(* to a payload without timestamp, and no two requests share that time.    *)
version_id(r) ==
  IF ContentOf[r] \in Stamped THEN <<ContentOf[r]>> ELSE <<ContentOf[r], r>>

(* The audit events of the pipeline; a decision event carries the risk.    *)
DECISION_EVENT ==
  [pass  |-> "transaction_approved", flag |-> "transaction_flagged",
   block |-> "transaction_blocked"]

DecisionEvents == {DECISION_EVENT[d] : d \in Decisions}

Entry(event, r) ==
  [event |-> event, rec |-> r, risk |-> "low", decision |-> "pass"]

(* Variant of DecisionEntry: the event map has no FLAG.                    *)
DecisionEntry_NoFlag(r) ==
  [event |-> IF Decision(r) = "flag" THEN "risk_score_assigned"
                                     ELSE DECISION_EVENT[Decision(r)],
   rec |-> r, risk |-> Risk(r), decision |-> Decision(r)]

DecisionEntry(r) ==
  [event |-> DECISION_EVENT[Decision(r)], rec |-> r,
   risk |-> Risk(r), decision |-> Decision(r)]

InFlight(r) == pc[r] \notin {"new", "answered", "failed", "lost"}

(* INSERT OR IGNORE stores a row only if every NOT NULL column is given.   *)
NotNullColumns ==
  {"screening_id", "record_id", "watchlist_version_id", "screened_at",
   "rule_results", "final_risk_score", "final_decision",
   "decision_rationale"}

InsertedColumns ==
  {"screening_id", "record_id", "watchlist_version_id", "screened_at",
   "final_risk_score", "final_decision", "decision_rationale", "llm_model",
   "llm_prompt_version", "has_llm_analysis"}

-----------------------------------------------------------------------------
Init ==
  /\ pc         = [r \in Requests |-> "new"]
  /\ records    = {}
  /\ screenings = {}
  /\ audit      = << >>
  /\ sars       = {}
  /\ dup_of     = [r \in Requests |-> NoRequest]
  /\ since      = [r \in Requests |-> 0]
  /\ verdict    = [r \in Requests |-> NoVerdict]
  /\ sar        = [r \in Requests |-> NoSar]
  /\ response   = [r \in Requests |-> "none"]
  /\ overrides  = [r \in Requests |-> "none"]
  /\ answered   = [r \in Requests |-> {}]

Goto(r, label) == pc' = [pc EXCEPT ![r] = label]

Received == {r \in Requests : pc[r] # "new"}

Arrive(r) ==
  /\ pc[r] = "new"
  /\ \E W \in Workloads : Received \cup {r} \subseteq W
  /\ answered' = [answered EXCEPT ![r] = {q \in Requests : pc[q] = "answered"}]
  /\ UNCHANGED <<tables, dup_of, verdict, sar, response, overrides>>

Receive(r) ==
  /\ r \notin Inquiries
  /\ Arrive(r)
  /\ Goto(r, "check")
  /\ UNCHANGED since

(* POST /compliance/report/sar goes straight to generate_sar, with a       *)
(* window that reaches back as far as the client asks.                     *)
ReceiveInquiry(r) ==
  /\ r \in Inquiries
  /\ Arrive(r)
  /\ \E n \in 0..Len(audit) : since' = [since EXCEPT ![r] = n]
  /\ Goto(r, "sar_query")

(* Variant of Originals: without "AND is_duplicate = 0".                   *)
Originals_AnyRow(v) == {x \in records : version_id(x.id) = v}

(* WHERE version_id = ? AND is_duplicate = 0                               *)
Originals(v) ==
  {x \in records : version_id(x.id) = v /\ x.of = NoRequest}

(* _check_duplicate; the record is then built, with its ingested_at.       *)
CheckDuplicate(r) ==
  /\ pc[r] = "check"
  /\ \/ /\ Originals(version_id(r)) = {}
        /\ dup_of' = [dup_of EXCEPT ![r] = NoRequest]
     \/ \E x \in Originals(version_id(r)) :
          dup_of' = [dup_of EXCEPT ![r] = x.id]
  /\ since' = [since EXCEPT ![r] = Len(audit)]
  /\ Goto(r, "persist")
  /\ UNCHANGED <<tables, verdict, sar, response, overrides, answered>>

PersistRecord(r) ==
  /\ pc[r] = "persist"
  /\ records' = records \cup {[id |-> r, of |-> dup_of[r]]}
  /\ Goto(r, "audit_ingestion")
  /\ UNCHANGED <<screenings, audit, sars, locals, response, overrides,
                 answered>>

Log(entry) ==
  /\ audit' = Append(audit, entry)
  /\ UNCHANGED <<records, screenings, sars, locals, response, overrides,
                 answered>>

(* Variant of AuditIngestion: a duplicate is screened again.               *)
AuditIngestion_NoReturn(r) ==
  /\ pc[r] = "audit_ingestion"
  /\ Log(Entry(IF IsDuplicate(r) THEN "data_deduplicated"
                                 ELSE "data_ingested", r))
  /\ Goto(r, IF r \in Ingests THEN "respond" ELSE "screen")

(* record_ingestion; only an original sent to /screen goes on.             *)
AuditIngestion(r) ==
  /\ pc[r] = "audit_ingestion"
  /\ Log(Entry(IF IsDuplicate(r) THEN "data_deduplicated"
                                 ELSE "data_ingested", r))
  /\ Goto(r, IF IsDuplicate(r) \/ r \in Ingests THEN "respond" ELSE "screen")

should_run_llm(r, rule) == r \in LlmForced \/ rule # "pass"

(* ScreeningAgent.screen: rules, model cascade, _persist.  The rules' own  *)
(* verdicts are an input here; DailyLimit models the ones that read tables.*)
Screen(r) ==
  /\ pc[r] = "screen"
  /\ \E rule \in RuleOutcomes, replies \in Cascades :
       verdict' = [verdict EXCEPT ![r] =
         [rule |-> rule,
          llm  |-> IF should_run_llm(r, rule)
                   THEN _run_llm_cascade(replies) ELSE NoLlm]]
  /\ screenings' = IF NotNullColumns \subseteq InsertedColumns
                   THEN screenings \cup {r} ELSE screenings
  /\ Goto(r, "audit_rules")
  /\ UNCHANGED <<records, audit, sars, dup_of, since, sar, response,
                 overrides, answered>>

(* record_screening_decision: two or three entries, the decision last.     *)
AuditRules(r) ==
  /\ pc[r] = "audit_rules"
  /\ Log([Entry("rule_screening_complete", r) EXCEPT !.decision = Decision(r)])
  /\ Goto(r, IF verdict[r].llm # NoLlm THEN "audit_llm" ELSE "audit_decision")

AuditLlm(r) ==
  /\ pc[r] = "audit_llm"
  /\ Log(Entry("llm_analysis_complete", r))
  /\ Goto(r, "audit_decision")

AuditDecision(r) ==
  /\ pc[r] = "audit_decision"
  /\ Log(DecisionEntry(r))
  /\ Goto(r, IF Risk(r) \in {"high", "critical"} THEN "sar_query"
                                                 ELSE "respond")

-----------------------------------------------------------------------------
(* ReportingAgent.generate_sar, for the user of a HIGH or CRITICAL result  *)
(* or the subject of an inquiry.                                           *)

(* audit.query(from_dt, to_dt, limit): the oldest entries of the window.   *)
(* It ends with the query: to_dt is taken a moment before, which leaves    *)
(* out only entries younger than all that a SAR has to rest on.            *)
Window(r) ==
  {i \in DOMAIN audit : since[r] < i /\ i <= since[r] + QueryLimit}

(* Variant of UserDecisions: any user's.                                   *)
UserDecisions_AnyUser(r) ==
  {i \in Window(r) : audit[i].event \in DecisionEvents}

(* A snapshot without user_id does not equal the default "unknown".        *)
UserDecisions(r) ==
  {i \in Window(r) : /\ audit[i].event \in DecisionEvents
                     /\ User(r) # NoUser
                     /\ User(audit[i].rec) = User(r)}

(* The worst final_risk_score of the entries, "low" if there is none.      *)
HighestRisk(S) ==
  CHOOSE k \in Risks :
    /\ k = "low" \/ \E i \in S : audit[i].risk = k
    /\ \A i \in S : RISK_ORDER[audit[i].risk] <= RISK_ORDER[k]

SarQuery(r) ==
  /\ pc[r] = "sar_query"
  /\ sar' = [sar EXCEPT ![r] =
               [by |-> r, risk |-> HighestRisk(UserDecisions(r)),
                supporting |-> UserDecisions(r)]]
  /\ Goto(r, "sar_persist")
  /\ UNCHANGED <<tables, dup_of, since, verdict, response, overrides,
                 answered>>

SarPersist(r) ==
  /\ pc[r] = "sar_persist"
  /\ sars' = sars \cup {sar[r]}
  /\ Goto(r, "sar_audit")
  /\ UNCHANGED <<records, screenings, audit, locals, response, overrides,
                 answered>>

SarAudit(r) ==
  /\ pc[r] = "sar_audit"
  /\ Log(Entry("sar_generated", r))
  /\ Goto(r, "respond")

(* "Auto-SAR generation failed": logged, and the response has no SAR.      *)
SarFail(r) ==
  /\ r \notin Inquiries
  /\ pc[r] \in {"sar_query", "sar_persist", "sar_audit"}
  /\ sar' = [sar EXCEPT ![r] = NoSar]
  /\ Goto(r, "respond")
  /\ UNCHANGED <<tables, dup_of, since, verdict, response, overrides,
                 answered>>

-----------------------------------------------------------------------------
(* Variant of Respond: nothing is returned for a duplicate.                *)
Respond_NotDuplicate(r) ==
  /\ pc[r] = "respond"
  /\ ~IsDuplicate(r)
  /\ response' = [response EXCEPT ![r] =
       IF r \in Ingests THEN "ingested" ELSE "processed"]
  /\ Goto(r, "answered")
  /\ UNCHANGED <<tables, locals, overrides, answered>>

Respond(r) ==
  /\ pc[r] = "respond"
  /\ response' = [response EXCEPT ![r] =
       CASE r \in Ingests   -> "ingested"
         [] r \in Inquiries -> "reported"
         [] OTHER -> IF IsDuplicate(r) THEN "duplicate" ELSE "processed"]
  /\ Goto(r, "answered")
  /\ UNCHANGED <<tables, locals, overrides, answered>>

(* An exception outside the SAR block, anywhere in an inquiry: HTTP 500.   *)
Fail(r) ==
  /\ \/ pc[r] \in {"check", "persist", "audit_ingestion", "screen",
                   "audit_rules", "audit_llm", "audit_decision"}
     \/ r \in Inquiries /\ pc[r] \in {"sar_query", "sar_persist", "sar_audit"}
  /\ response' = [response EXCEPT ![r] = "error"]
  /\ Goto(r, "failed")
  /\ UNCHANGED <<tables, locals, overrides, answered>>

(* The process dies and is restarted: the tables stay, the threads do not. *)
Crash ==
  /\ \E r \in Requests : InFlight(r)
  /\ pc' = [r \in Requests |-> IF InFlight(r) THEN "lost" ELSE pc[r]]
  /\ UNCHANGED <<tables, locals, response, overrides, answered>>

(* An analyst overrides the screening a response has named.                *)
Override(r) ==
  /\ response[r] = "processed"
  /\ overrides[r] = "none"
  /\ IF r \in screenings
     THEN /\ overrides' = [overrides EXCEPT ![r] = "recorded"]
          /\ audit' = Append(audit, Entry("human_override", r))
     ELSE /\ overrides' = [overrides EXCEPT ![r] = "not_found"]
          /\ UNCHANGED audit
  /\ UNCHANGED <<pc, records, screenings, sars, locals, response, answered>>

Step(r) ==
  \/ CheckDuplicate(r) \/ PersistRecord(r) \/ AuditIngestion(r)
  \/ Screen(r) \/ AuditRules(r) \/ AuditLlm(r) \/ AuditDecision(r)
  \/ SarQuery(r) \/ SarPersist(r) \/ SarAudit(r) \/ Respond(r)

Next ==
  \/ \E r \in Requests :
       \/ Receive(r) \/ ReceiveInquiry(r) \/ Step(r)
       \/ SarFail(r) \/ Fail(r) \/ Override(r)
  \/ Crash

Spec == Init /\ [][Next]_vars

(* A thread that serves a request keeps running; nobody has to send one.   *)
FairSpec == Spec /\ \A r \in Requests : WF_vars(Step(r))

-----------------------------------------------------------------------------
Labels ==
  {"new", "check", "persist", "audit_ingestion", "screen", "audit_rules",
   "audit_llm", "audit_decision", "sar_query", "sar_persist", "sar_audit",
   "respond", "answered", "failed", "lost"}

Events ==
  {"data_ingested", "data_deduplicated", "rule_screening_complete",
   "llm_analysis_complete", "sar_generated", "human_override"}
  \cup DecisionEvents

EntryType ==
  [event : Events, rec : Requests, risk : Risks, decision : Decisions]

SarType ==
  [by : Requests \cup {NoRequest}, risk : Risks, supporting : SUBSET Nat]

InquiryLabels ==
  {"new", "sar_query", "sar_persist", "sar_audit", "respond", "answered",
   "failed", "lost"}

(* The tables, locals and responses have the types models.py gives them,   *)
(* and an inquiry does nothing but make its report.                        *)
TypeOK ==
  /\ pc \in [Requests -> Labels]
  /\ \A r \in Inquiries : pc[r] \in InquiryLabels
  /\ records \subseteq [id : Requests, of : Requests \cup {NoRequest}]
  /\ screenings \subseteq Requests
  /\ audit \in Seq(EntryType)
  /\ sars \subseteq SarType
  /\ dup_of \in [Requests -> Requests \cup {NoRequest}]
  /\ since \in [Requests -> Nat]
  /\ verdict \in [Requests -> [rule : Decisions, llm : Risks \cup {NoLlm}]]
  /\ sar \in [Requests -> SarType]
  /\ response \in
       [Requests -> {"none", "ingested", "duplicate", "processed", "reported",
                     "error"}]
  /\ overrides \in [Requests -> {"none", "recorded", "not_found"}]
  /\ answered \in [Requests -> SUBSET Requests]

-----------------------------------------------------------------------------
(* The audit trail of one record, an analyst's override of it aside.       *)
Trail(r) ==
  {i \in DOMAIN audit :
     audit[i].rec = r /\ audit[i].event # "human_override"}

FullTrail(r) ==
  IF r \in Inquiries THEN <<"sar_generated">>
  ELSE IF IsDuplicate(r) THEN <<"data_deduplicated">>
  ELSE IF verdict[r].llm = NoLlm
  THEN <<"data_ingested", "rule_screening_complete",
         DECISION_EVENT[Decision(r)], "sar_generated">>
  ELSE <<"data_ingested", "rule_screening_complete", "llm_analysis_complete",
         DECISION_EVENT[Decision(r)], "sar_generated">>

(* Entry i is the k-th step of a full trail, alone in the entries T and    *)
(* after all steps before it.                                              *)
IsStep(T, full, i, k) ==
  /\ audit[i].event = full[k]
  /\ \A j \in T \ {i} : audit[j].event # full[k]
  /\ \A m \in 1..(k - 1) : \E j \in T : j < i /\ audit[j].event = full[m]

InOrder(T, full) == \A i \in T : \E k \in DOMAIN full : IsStep(T, full, i, k)

(* Whatever fails or crashes, and however the requests interleave, the     *)
(* trail of a record grows in the order of the pipeline, every step at     *)
(* most once, and a duplicate leaves nothing but its deduplication         *)
(* (orchestrator.py:85-118, audit_trail/agent.py:114-118).                 *)
EvidenceOrder ==
  \A r \in Requests : InOrder(Trail(r), FullTrail(r))

(* A client told "processed" can rely on the audit log: it holds the       *)
(* decision it was told, with the risk it was told, and that decision is   *)
(* not milder than the rules' own (screening/agent.py:346).                *)
ProcessedIsEvidenced ==
  \A r \in Requests :
    response[r] = "processed" =>
      \E i \in DOMAIN audit :
        /\ audit[i] = DecisionEntry(r)
        /\ Severity[Decision(r)] >= Severity[verdict[r].rule]
        /\ verdict[r].llm # NoLlm =>
             RISK_ORDER[audit[i].risk] >= RISK_ORDER[verdict[r].llm]

(* A duplicate names a stored original of the same content, never another  *)
(* duplicate and never itself (data_ingestion/agent.py:246-259).           *)
DuplicateNamesOriginal ==
  \A x \in records :
    x.of # NoRequest =>
      /\ x.of # x.id
      /\ ContentOf[x.of] = ContentOf[x.id]
      /\ [id |-> x.of, of |-> NoRequest] \in records

(* A client that got its answer and sends the payload again is recognised, *)
(* if the payload has a timestamp: only requests that overlap in time can  *)
(* both be taken for originals (data_ingestion/agent.py:72-79).            *)
ReplayIsDuplicate ==
  \A x, y \in records :
    /\ x.of = NoRequest
    /\ y.of = NoRequest
    /\ ContentOf[x.id] = ContentOf[y.id]
    /\ ContentOf[y.id] \in Stamped
    => x.id \notin answered[y.id]

(* What a SAR has to rest on: the decision that raised it; or, for an      *)
(* inquiry, the decisions about its user that clients had been told before.*)
Causes(r) ==
  IF r \in Inquiries
  THEN {q \in answered[r] : response[q] = "processed" /\ User(q) = User(r)}
  ELSE {r}

(* The decision of q lies behind the QueryLimit oldest entries of the      *)
(* window of r, crowded out by other requests' entries, or, in an inquiry, *)
(* before the window.                                                      *)
OutOfReach(r, q) ==
  \E i \in DOMAIN audit :
    /\ audit[i] = DecisionEntry(q)
    /\ i > since[r] + QueryLimit \/ (r \in Inquiries /\ i <= since[r])

Covers(s, q) ==
  \/ /\ \E i \in s.supporting : audit[i] = DecisionEntry(q)
     /\ RISK_ORDER[s.risk] >= RISK_ORDER[Risk(q)]
  \/ OutOfReach(s.by, q)

(* A SAR about a known user rests on decisions about that user only.  Of   *)
(* the decisions it has to rest on none is missing, and it is at least as  *)
(* grave as each, unless they are out of reach of the query.  An audited   *)
(* SAR is in the table (reporting/agent.py:85-165, main.py:301-314).       *)
SarGrounded ==
  /\ \A s \in sars :
       User(s.by) # NoUser =>
         /\ \A i \in s.supporting : User(audit[i].rec) = User(s.by)
         /\ \A q \in Causes(s.by) : Covers(s, q)
  /\ \A i \in DOMAIN audit :
       audit[i].event = "sar_generated" =>
         \E s \in sars : s.by = audit[i].rec

(* The service comes to rest again and again: every request received is   *)
(* answered, fails, or is lost in a crash.                                 *)
EveryRequestEnds == []<>(\A r \in Requests : ~InFlight(r))

(* What the repository says of the pipeline, not met by the code:          *)

(* orchestrator.py:102, "Record already processed": a client told so can   *)
(* rely on a decision about the original record in the audit log.          *)
DuplicateWasProcessed ==
  \A r \in Requests :
    response[r] = "duplicate" =>
      \E i \in DOMAIN audit : /\ audit[i].rec = dup_of[r]
                              /\ audit[i].event \in DecisionEvents

(* foundry/agents/AuditTrailAgent.md:69, "Record a human override": the    *)
(* override of a screening that was answered is recorded.                  *)
OverrideRecorded ==
  \A r \in Requests : overrides[r] # "not_found"

=============================================================================
