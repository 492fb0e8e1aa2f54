----------------------- MODULE CompliancePipelineProofs -----------------------
(***************************************************************************)
(* The compliance pipeline for any number of requests, payloads and users, *)
(* any outcomes of rules and model, and failures and crashes anywhere.     *)
(***************************************************************************)
EXTENDS CompliancePipeline, TLAPS

(* The combination of rule and model verdicts is monotone in both: the     *)
(* model can escalate, never downgrade (screening/agent.py:346).           *)
THEOREM CombinationEscalates == EscalationOnly
<1> SUFFICES ASSUME NEW rule \in Decisions, NEW llm \in Risks \cup {NoLlm}
             PROVE
    /\ Severity[final_decision(rule, llm)] >= Severity[rule]
    /\ RISK_ORDER[final_risk(rule, llm)]
         >= RISK_ORDER[RULE_DECISION_TO_RISK[rule]]
    /\ llm # NoLlm => RISK_ORDER[final_risk(rule, llm)] >= RISK_ORDER[llm]
    /\ final_decision(rule, llm) = RISK_TO_DEC[final_risk(rule, llm)]
  BY DEF EscalationOnly
<1> USE DEF final_decision, final_risk, HigherRisk, Severity, RISK_ORDER,
            RULE_DECISION_TO_RISK, RISK_TO_DEC
<1>1. CASE llm = NoLlm
  BY <1>1 DEF Decisions
<1>2. CASE llm # NoLlm
  <2>1. llm \in Risks
    BY <1>2
  <2>2. CASE rule = "pass"
    BY <1>2, <2>1, <2>2 DEF Risks
  <2>3. CASE rule = "flag"
    BY <1>2, <2>1, <2>3 DEF Risks
  <2>4. CASE rule = "block"
    BY <1>2, <2>1, <2>4 DEF Risks
  <2> QED
    BY <2>2, <2>3, <2>4 DEF Decisions
<1> QED
  BY <1>1, <1>2

(* The types of the combined verdicts.                                     *)
LEMMA CombinationTypes ==
  ASSUME NEW rule \in Decisions, NEW llm \in Risks \cup {NoLlm}
  PROVE  final_risk(rule, llm) \in Risks /\ final_decision(rule, llm) \in Decisions
BY DEF final_risk, final_decision, HigherRisk, RULE_DECISION_TO_RISK,
       RISK_TO_DEC, Risks, Decisions

(* The worst risk of a set of entries exists.                              *)
LEMMA HighestRiskFacts ==
  ASSUME NEW S, \A i \in S : audit[i].risk \in Risks
  PROVE  /\ HighestRisk(S) \in Risks
         /\ \A i \in S : RISK_ORDER[audit[i].risk] <= RISK_ORDER[HighestRisk(S)]
<1> DEFINE P(k) == /\ k = "low" \/ \E i \in S : audit[i].risk = k
                   /\ \A i \in S : RISK_ORDER[audit[i].risk] <= RISK_ORDER[k]
<1>1. \E k \in Risks : P(k)
  <2>1. CASE \E i \in S : audit[i].risk = "critical"
    <3>1. P("critical")
      BY <2>1 DEF Risks, RISK_ORDER
    <3> QED
      BY <3>1 DEF Risks
  <2>2. CASE /\ ~ \E i \in S : audit[i].risk = "critical"
             /\ \E i \in S : audit[i].risk = "high"
    <3>1. P("high")
      BY <2>2 DEF Risks, RISK_ORDER
    <3> QED
      BY <3>1 DEF Risks
  <2>3. CASE /\ ~ \E i \in S : audit[i].risk \in {"high", "critical"}
             /\ \E i \in S : audit[i].risk = "medium"
    <3>1. P("medium")
      BY <2>3 DEF Risks, RISK_ORDER
    <3> QED
      BY <3>1 DEF Risks
  <2>4. CASE ~ \E i \in S : audit[i].risk \in {"medium", "high", "critical"}
    <3>1. P("low")
      BY <2>4 DEF Risks, RISK_ORDER
    <3> QED
      BY <3>1 DEF Risks
  <2> QED
    BY <2>1, <2>2, <2>3, <2>4
<1>2. HighestRisk(S) = CHOOSE k \in Risks : P(k)
  BY DEF HighestRisk
<1> HIDE DEF P
<1>3. HighestRisk(S) \in Risks /\ P(HighestRisk(S))
  BY <1>1, <1>2
<1> QED
  BY <1>3 DEF P

-----------------------------------------------------------------------------
(* Type correctness.                                                       *)

LEMMA VerdictTypes ==
  ASSUME TypeOK, NEW r \in Requests
  PROVE  /\ Risk(r) \in Risks
         /\ Decision(r) \in Decisions
         /\ DecisionEntry(r) \in EntryType
<1>1. verdict[r].rule \in Decisions /\ verdict[r].llm \in Risks \cup {NoLlm}
  BY DEF TypeOK
<1>2. Risk(r) \in Risks /\ Decision(r) \in Decisions
  BY <1>1, CombinationTypes DEF Risk, Decision
<1>3. DECISION_EVENT[Decision(r)] \in Events
  BY <1>2 DEF Events, DecisionEvents
<1> QED
  BY <1>2, <1>3 DEF DecisionEntry, EntryType

LEMMA EntryTypes ==
  ASSUME NEW r \in Requests,
         NEW event \in {"data_ingested", "data_deduplicated",
           "rule_screening_complete", "llm_analysis_complete",
           "sar_generated", "human_override"}
  PROVE  Entry(event, r) \in EntryType
BY DEF Entry, EntryType, Events, Risks, Decisions

LEMMA NoSarType == NoSar \in SarType
<1>1. {} \in SUBSET Nat
  OBVIOUS
<1> QED
  BY <1>1 DEF NoSar, SarType, Risks

LEMMA InitTypeOK == Init => TypeOK
<1> SUFFICES ASSUME Init PROVE TypeOK
  OBVIOUS
<1>1. audit \in Seq(EntryType)
  BY DEF Init
<1>2. NoVerdict \in [rule : Decisions, llm : Risks \cup {NoLlm}]
  BY DEF NoVerdict, Decisions
<1>3. sar \in [Requests -> SarType]
  BY NoSarType DEF Init
<1>4. verdict \in [Requests -> [rule : Decisions, llm : Risks \cup {NoLlm}]]
  BY <1>2 DEF Init
<1>5. answered \in [Requests -> SUBSET Requests]
  BY DEF Init
<1>6. /\ pc \in [Requests -> Labels]
      /\ \A r \in Inquiries : pc[r] \in InquiryLabels
      /\ dup_of \in [Requests -> Requests \cup {NoRequest}]
      /\ since \in [Requests -> Nat]
  BY PipelineAssumption DEF Init, Labels, InquiryLabels
<1>7. /\ response \in
           [Requests -> {"none", "ingested", "duplicate", "processed",
                         "reported", "error"}]
      /\ overrides \in [Requests -> {"none", "recorded", "not_found"}]
  BY DEF Init
<1>8. /\ records \subseteq [id : Requests, of : Requests \cup {NoRequest}]
      /\ screenings \subseteq Requests
      /\ sars \subseteq SarType
  BY DEF Init
<1> QED
  BY <1>1, <1>3, <1>4, <1>5, <1>6, <1>7, <1>8 DEF TypeOK

(* Only the labels of the report are for inquiries.                        *)
LEMMA GotoTypes ==
  ASSUME TypeOK, NEW r \in Requests, NEW label \in Labels, Goto(r, label),
         pc[r] \notin InquiryLabels \/ label \in InquiryLabels
  PROVE  /\ pc' \in [Requests -> Labels]
         /\ \A q \in Inquiries : pc'[q] \in InquiryLabels
BY PipelineAssumption DEF TypeOK, Goto

(* An audit step changes the log and the program counter only.             *)
LEMMA LogKeepsTypes ==
  ASSUME TypeOK, NEW r \in Requests, NEW e \in EntryType, Log(e),
         NEW label \in Labels, Goto(r, label),
         pc[r] \notin InquiryLabels \/ label \in InquiryLabels
  PROVE  TypeOK'
<1>1. /\ pc' \in [Requests -> Labels]
      /\ \A q \in Inquiries : pc'[q] \in InquiryLabels
  BY GotoTypes
<1> QED
  BY <1>1 DEF TypeOK, Log, locals

(* Whatever the providers reply, the cascade yields a risk or nothing.     *)
LEMMA CascadeType ==
  ASSUME NEW replies
  PROVE  _run_llm_cascade(replies) \in Risks \cup {NoLlm}
BY DEF _run_llm_cascade, _call_provider

LEMMA StepTypeOK == TypeOK /\ [Next]_vars => TypeOK'
<1> SUFFICES ASSUME TypeOK, [Next]_vars PROVE TypeOK'
  OBVIOUS
<1> USE DEF tables, locals
<1>0. ASSUME NEW r \in Requests, NEW label, Goto(r, label), label \in Labels,
             pc[r] \notin InquiryLabels \/ label \in InquiryLabels
      PROVE  /\ pc' \in [Requests -> Labels]
             /\ \A q \in Inquiries : pc'[q] \in InquiryLabels
  BY <1>0, GotoTypes
<1>1. ASSUME NEW r \in Requests, Receive(r) PROVE TypeOK'
  <2>1. /\ pc' \in [Requests -> Labels]
        /\ \A q \in Inquiries : pc'[q] \in InquiryLabels
    BY <1>1 DEF Receive, Goto, Labels, TypeOK
  <2> QED
    BY <1>1, <2>1 DEF Receive, Arrive, TypeOK
<1>1a. ASSUME NEW r \in Requests, ReceiveInquiry(r) PROVE TypeOK'
  <2>1. Goto(r, "sar_query")
    BY <1>1a DEF ReceiveInquiry
  <2>2. /\ pc' \in [Requests -> Labels]
        /\ \A q \in Inquiries : pc'[q] \in InquiryLabels
    BY <2>1, <1>0 DEF Labels, InquiryLabels
  <2>3. Len(audit) \in Nat
    BY DEF TypeOK
  <2>4. since' \in [Requests -> Nat]
    BY <1>1a, <2>3 DEF ReceiveInquiry, TypeOK
  <2> QED
    BY <1>1a, <2>2, <2>4 DEF ReceiveInquiry, Arrive, TypeOK
<1>2. ASSUME NEW r \in Requests, CheckDuplicate(r) PROVE TypeOK'
  <2>1. \E q \in Requests \cup {NoRequest} : dup_of' = [dup_of EXCEPT ![r] = q]
    BY <1>2 DEF CheckDuplicate, Originals, TypeOK
  <2>2. Len(audit) \in Nat
    BY DEF TypeOK
  <2>3. /\ pc' \in [Requests -> Labels]
        /\ \A q \in Inquiries : pc'[q] \in InquiryLabels
    BY <1>0, <1>2 DEF CheckDuplicate, Labels, InquiryLabels
  <2> QED
    BY <1>2, <2>1, <2>2, <2>3 DEF CheckDuplicate, TypeOK
<1>3. ASSUME NEW r \in Requests, PersistRecord(r) PROVE TypeOK'
  <2>1. /\ pc' \in [Requests -> Labels]
        /\ \A q \in Inquiries : pc'[q] \in InquiryLabels
    BY <1>0, <1>3 DEF PersistRecord, Labels, InquiryLabels
  <2> QED
    BY <1>3, <2>1 DEF PersistRecord, TypeOK
<1>4. ASSUME NEW r \in Requests, AuditIngestion(r) PROVE TypeOK'
  BY <1>4, EntryTypes, LogKeepsTypes DEF AuditIngestion, Labels, InquiryLabels
<1>5. ASSUME NEW r \in Requests, Screen(r) PROVE TypeOK'
  <2>1. PICK rule \in RuleOutcomes, llm \in Risks \cup {NoLlm} :
          verdict' = [verdict EXCEPT ![r] = [rule |-> rule, llm |-> llm]]
    BY <1>5, CascadeType DEF Screen
  <2>2. rule \in Decisions
    BY PipelineAssumption
  <2>3. screenings' \subseteq Requests
    BY <1>5 DEF Screen, TypeOK
  <2>4. verdict' \in
          [Requests -> [rule : Decisions, llm : Risks \cup {NoLlm}]]
    BY <2>1, <2>2 DEF TypeOK
  <2>5. /\ pc' \in [Requests -> Labels]
        /\ \A q \in Inquiries : pc'[q] \in InquiryLabels
    BY <1>0, <1>5 DEF Screen, Labels, InquiryLabels
  <2> QED
    BY <1>5, <2>3, <2>4, <2>5 DEF Screen, TypeOK
<1>6. ASSUME NEW r \in Requests, AuditRules(r) PROVE TypeOK'
  <2> DEFINE e == [Entry("rule_screening_complete", r)
                     EXCEPT !.decision = Decision(r)]
  <2>1. e \in EntryType
    BY EntryTypes, VerdictTypes DEF EntryType
  <2> QED
    BY <1>6, <2>1, LogKeepsTypes DEF AuditRules, Labels, InquiryLabels
<1>7. ASSUME NEW r \in Requests, AuditLlm(r) PROVE TypeOK'
  BY <1>7, EntryTypes, LogKeepsTypes DEF AuditLlm, Labels, InquiryLabels
<1>8. ASSUME NEW r \in Requests, AuditDecision(r) PROVE TypeOK'
  BY <1>8, VerdictTypes, LogKeepsTypes
     DEF AuditDecision, Labels, InquiryLabels
<1>9. ASSUME NEW r \in Requests, SarQuery(r) PROVE TypeOK'
  <2>1. \A i \in UserDecisions(r) : i \in Nat /\ audit[i].risk \in Risks
    <3>1. audit \in Seq(EntryType)
      BY DEF TypeOK
    <3>2. \A i \in DOMAIN audit : i \in Nat /\ audit[i] \in EntryType
      BY <3>1
    <3>3. UserDecisions(r) \subseteq DOMAIN audit
      BY DEF UserDecisions, Window
    <3> QED
      BY <3>2, <3>3 DEF EntryType
  <2>2. HighestRisk(UserDecisions(r)) \in Risks
    BY <2>1, HighestRiskFacts
  <2>3. [by |-> r, risk |-> HighestRisk(UserDecisions(r)),
         supporting |-> UserDecisions(r)] \in SarType
    <3>1. UserDecisions(r) \in SUBSET Nat
      BY <2>1
    <3> HIDE DEF UserDecisions
    <3> QED
      BY <2>2, <3>1 DEF SarType
  <2>4. sar' \in [Requests -> SarType]
    BY <1>9, <2>3 DEF SarQuery, TypeOK
  <2>5. /\ pc' \in [Requests -> Labels]
        /\ \A q \in Inquiries : pc'[q] \in InquiryLabels
    BY <1>0, <1>9 DEF SarQuery, Labels, InquiryLabels
  <2> QED
    BY <1>9, <2>4, <2>5 DEF SarQuery, TypeOK
<1>10. ASSUME NEW r \in Requests, SarPersist(r) PROVE TypeOK'
  <2>1. /\ pc' \in [Requests -> Labels]
        /\ \A q \in Inquiries : pc'[q] \in InquiryLabels
    BY <1>0, <1>10 DEF SarPersist, Labels, InquiryLabels
  <2> QED
    BY <1>10, <2>1 DEF SarPersist, TypeOK
<1>11. ASSUME NEW r \in Requests, SarAudit(r) PROVE TypeOK'
  BY <1>11, EntryTypes, LogKeepsTypes DEF SarAudit, Labels, InquiryLabels
<1>12. ASSUME NEW r \in Requests, SarFail(r) PROVE TypeOK'
  <2>1. /\ pc' \in [Requests -> Labels]
        /\ \A q \in Inquiries : pc'[q] \in InquiryLabels
    BY <1>0, <1>12 DEF SarFail, Labels, InquiryLabels
  <2> QED
    BY <1>12, <2>1, NoSarType DEF SarFail, TypeOK
<1>13. ASSUME NEW r \in Requests, Respond(r) PROVE TypeOK'
  <2>1. /\ pc' \in [Requests -> Labels]
        /\ \A q \in Inquiries : pc'[q] \in InquiryLabels
    BY <1>0, <1>13 DEF Respond, Labels, InquiryLabels
  <2> QED
    BY <1>13, <2>1 DEF Respond, TypeOK
<1>14. ASSUME NEW r \in Requests, Fail(r) PROVE TypeOK'
  <2>1. /\ pc' \in [Requests -> Labels]
        /\ \A q \in Inquiries : pc'[q] \in InquiryLabels
    BY <1>0, <1>14 DEF Fail, Labels, InquiryLabels
  <2> QED
    BY <1>14, <2>1 DEF Fail, TypeOK
<1>15. CASE Crash
  <2>1. /\ pc' \in [Requests -> Labels]
        /\ \A q \in Inquiries : pc'[q] \in InquiryLabels
    BY <1>15, PipelineAssumption DEF Crash, Labels, InquiryLabels, TypeOK
  <2> QED
    BY <1>15, <2>1 DEF Crash, TypeOK
<1>16. ASSUME NEW r \in Requests, Override(r) PROVE TypeOK'
  <2>1. audit' \in Seq(EntryType)
    <3>1. Entry("human_override", r) \in EntryType
      BY EntryTypes
    <3>2. audit' = audit \/ audit' = Append(audit, Entry("human_override", r))
      BY <1>16 DEF Override
    <3>3. audit \in Seq(EntryType)
      BY DEF TypeOK
    <3>4. \A e \in EntryType : Append(audit, e) \in Seq(EntryType)
      BY <3>3
    <3> QED
      BY <3>1, <3>2, <3>3, <3>4
  <2> QED
    BY <1>16, <2>1 DEF Override, TypeOK
<1>17. CASE UNCHANGED vars
  BY <1>17 DEF vars, TypeOK
<1> QED
  BY <1>1, <1>1a, <1>2, <1>3, <1>4, <1>5, <1>6, <1>7, <1>8, <1>9, <1>10,
     <1>11, <1>12, <1>13, <1>14, <1>15, <1>16, <1>17 DEF Next, Step

(* Type correctness of the tables, the requests' locals and the responses, *)
(* for any number of requests, payloads and users.                         *)
THEOREM SpecTypeOK == Spec => []TypeOK
BY InitTypeOK, StepTypeOK, PTL DEF Spec

-----------------------------------------------------------------------------
(* Duplicates.  What is looked up in one step is stored in a later one: the*)
(* invariant carries the answer of _check_duplicate over that gap.         *)

SameContent(q, r) == version_id(q) = version_id(r)

(* The hash tells contents apart; equal stamped contents have one hash.    *)
LEMMA VersionIsContent ==
  ASSUME NEW q, NEW r
  PROVE  /\ SameContent(q, r) => ContentOf[q] = ContentOf[r]
         /\ ContentOf[q] = ContentOf[r] /\ ContentOf[r] \in Stamped
              => SameContent(q, r)
BY DEF SameContent, version_id

(* A record is stored after the lookup of its request.                     *)
StoredIsChecked ==
  \A x \in records : pc[x.id] \notin {"new", "check", "persist"}

AnsweredStays ==
  \A r \in Requests : \A q \in answered[r] : pc[q] = "answered"

(* The lookup's "duplicate" is still true when the record is stored.       *)
PendingDuplicate ==
  \A r \in Requests :
    pc[r] = "persist" /\ dup_of[r] # NoRequest =>
      /\ dup_of[r] # r
      /\ SameContent(dup_of[r], r)
      /\ [id |-> dup_of[r], of |-> NoRequest] \in records

(* The lookup's "original" may be stale, but not about answered requests.  *)
PendingOriginal ==
  \A r \in Requests :
    pc[r] = "persist" /\ dup_of[r] = NoRequest =>
      \A x \in records :
        x.of = NoRequest /\ SameContent(x.id, r) => x.id \notin answered[r]

DupInv ==
  /\ StoredIsChecked
  /\ AnsweredStays
  /\ PendingDuplicate
  /\ PendingOriginal
  /\ DuplicateNamesOriginal
  /\ ReplayIsDuplicate

LEMMA InitDupInv == Init => DupInv
BY DEF Init, DupInv, StoredIsChecked, AnsweredStays, PendingDuplicate,
       PendingOriginal, DuplicateNamesOriginal, ReplayIsDuplicate

(* After the record is stored, a request only moves on.                    *)
LaterPc ==
  \A q \in Requests :
    \/ pc'[q] = pc[q]
    \/ /\ pc[q] # "answered"
       /\ pc'[q] \notin {"new", "check", "persist"}

LEMMA LaterKeepsDupInv ==
  ASSUME TypeOK, DupInv, LaterPc, UNCHANGED <<records, dup_of, answered>>
  PROVE  DupInv'
<1>1. \A x \in records : x.id \in Requests
  BY DEF TypeOK
<1>2. StoredIsChecked'
  BY <1>1 DEF DupInv, StoredIsChecked, LaterPc
<1>3. AnsweredStays'
  BY DEF DupInv, AnsweredStays, LaterPc, TypeOK
<1>4. PendingDuplicate' /\ PendingOriginal'
  BY DEF DupInv, PendingDuplicate, PendingOriginal, LaterPc, SameContent
<1>5. DuplicateNamesOriginal' /\ ReplayIsDuplicate'
  BY DEF DupInv, DuplicateNamesOriginal, ReplayIsDuplicate
<1> QED
  BY <1>2, <1>3, <1>4, <1>5 DEF DupInv

LEMMA ReceiveKeepsDupInv ==
  ASSUME TypeOK, DupInv, NEW r \in Requests, Receive(r) \/ ReceiveInquiry(r)
  PROVE  DupInv'
<1>0. PICK label \in {"check", "sar_query"} : Goto(r, label)
  BY DEF Receive, ReceiveInquiry
<1>1. /\ pc[r] = "new" /\ pc' = [pc EXCEPT ![r] = label]
      /\ answered' = [answered EXCEPT ![r] =
                        {q \in Requests : pc[q] = "answered"}]
      /\ UNCHANGED <<records, dup_of>>
  BY <1>0 DEF Receive, ReceiveInquiry, Arrive, Goto, tables
<1>2. \A x \in records : x.id \in Requests /\ x.id # r
  BY <1>1 DEF TypeOK, DupInv, StoredIsChecked
<1>3. \A q \in Requests \ {r} : pc'[q] = pc[q] /\ answered'[q] = answered[q]
  BY <1>1 DEF TypeOK
<1>4. /\ pc'[r] = label /\ label # "persist"
      /\ answered'[r] = {q \in Requests : pc[q] = "answered"}
  BY <1>1 DEF TypeOK
<1>5. StoredIsChecked'
  BY <1>1, <1>2, <1>3 DEF DupInv, StoredIsChecked
<1>6. AnsweredStays'
  <2> SUFFICES ASSUME NEW s \in Requests, NEW q \in answered'[s]
               PROVE  pc'[q] = "answered"
    BY DEF AnsweredStays
  <2>1. q \in Requests /\ pc[q] = "answered"
    BY <1>3, <1>4 DEF TypeOK, DupInv, AnsweredStays
  <2> QED
    BY <1>1, <1>3, <2>1
<1>7. PendingDuplicate' /\ PendingOriginal'
  BY <1>1, <1>3, <1>4
     DEF DupInv, PendingDuplicate, PendingOriginal, SameContent
<1>8. DuplicateNamesOriginal' /\ ReplayIsDuplicate'
  BY <1>1, <1>2, <1>3 DEF DupInv, DuplicateNamesOriginal, ReplayIsDuplicate
<1> QED
  BY <1>5, <1>6, <1>7, <1>8 DEF DupInv

LEMMA CheckKeepsDupInv ==
  ASSUME TypeOK, DupInv, NEW r \in Requests, CheckDuplicate(r)
  PROVE  DupInv'
<1>1. /\ pc[r] = "check" /\ pc' = [pc EXCEPT ![r] = "persist"]
      /\ UNCHANGED <<records, answered>>
  BY DEF CheckDuplicate, Goto, tables
<1>2. \A x \in records : x.id \in Requests /\ x.id # r
  BY <1>1 DEF TypeOK, DupInv, StoredIsChecked
<1>3. \A q \in Requests \ {r} : pc'[q] = pc[q] /\ dup_of'[q] = dup_of[q]
  BY <1>1 DEF CheckDuplicate, TypeOK
<1>4. \/ dup_of'[r] = NoRequest /\ Originals(version_id(r)) = {}
      \/ \E x \in Originals(version_id(r)) : dup_of'[r] = x.id
  BY DEF CheckDuplicate, TypeOK
<1>5. StoredIsChecked'
  BY <1>1, <1>2, <1>3 DEF DupInv, StoredIsChecked
<1>6. AnsweredStays'
  BY <1>1, <1>3 DEF TypeOK, DupInv, AnsweredStays
<1>7. PendingDuplicate'
  <2> SUFFICES ASSUME NEW s \in Requests,
                      pc'[s] = "persist", dup_of'[s] # NoRequest
               PROVE  /\ dup_of'[s] # s
                      /\ SameContent(dup_of'[s], s)
                      /\ [id |-> dup_of'[s], of |-> NoRequest] \in records
    BY <1>1 DEF PendingDuplicate, SameContent
  <2>1. CASE s = r
    <3>1. PICK x \in Originals(version_id(r)) : dup_of'[r] = x.id
      BY <1>4, <2>1
    <3>2. x \in records /\ version_id(x.id) = version_id(r) /\ x.of = NoRequest
      BY DEF Originals
    <3>3. x = [id |-> x.id, of |-> NoRequest]
      BY <3>2 DEF TypeOK
    <3> QED
      BY <1>2, <2>1, <3>1, <3>2, <3>3 DEF SameContent
  <2>2. CASE s # r
    BY <1>3, <2>2 DEF DupInv, PendingDuplicate
  <2> QED
    BY <2>1, <2>2
<1>8. PendingOriginal'
  <2> SUFFICES ASSUME NEW s \in Requests,
                      pc'[s] = "persist", dup_of'[s] = NoRequest,
                      NEW x \in records, x.of = NoRequest,
                      SameContent(x.id, s)
               PROVE  x.id \notin answered[s]
    BY <1>1 DEF PendingOriginal, SameContent
  <2>1. CASE s = r
    BY <1>2, <1>4, <2>1, PipelineAssumption DEF Originals, SameContent
  <2>2. CASE s # r
    BY <1>3, <2>2 DEF DupInv, PendingOriginal
  <2> QED
    BY <2>1, <2>2
<1>9. DuplicateNamesOriginal' /\ ReplayIsDuplicate'
  BY <1>1 DEF DupInv, DuplicateNamesOriginal, ReplayIsDuplicate
<1> QED
  BY <1>5, <1>6, <1>7, <1>8, <1>9 DEF DupInv

LEMMA PersistKeepsDupInv ==
  ASSUME TypeOK, DupInv, NEW r \in Requests, PersistRecord(r)
  PROVE  DupInv'
<1> DEFINE new == [id |-> r, of |-> dup_of[r]]
<1>1. /\ pc[r] = "persist" /\ pc' = [pc EXCEPT ![r] = "audit_ingestion"]
      /\ records' = records \cup {new}
      /\ UNCHANGED <<dup_of, answered>>
  BY DEF PersistRecord, Goto, locals
<1>2. \A q \in Requests \ {r} : pc'[q] = pc[q]
  BY <1>1 DEF TypeOK
<1>3. pc'[r] = "audit_ingestion"
  BY <1>1 DEF TypeOK
<1>4. \A q \in Requests : r \notin answered[q]
  BY <1>1 DEF DupInv, AnsweredStays
<1>5. new.id = r /\ new.of = dup_of[r]
  OBVIOUS
<1> HIDE DEF new
<1>6. StoredIsChecked'
  BY <1>1, <1>2, <1>3, <1>5 DEF TypeOK, DupInv, StoredIsChecked
<1>7. AnsweredStays'
  BY <1>1, <1>2, <1>4 DEF TypeOK, DupInv, AnsweredStays
<1>8. PendingDuplicate'
  BY <1>1, <1>2, <1>3 DEF DupInv, PendingDuplicate, SameContent
<1>9. PendingOriginal'
  BY <1>1, <1>2, <1>3, <1>4, <1>5 DEF DupInv, PendingOriginal, SameContent
<1>10. DuplicateNamesOriginal'
  BY <1>1, <1>5, VersionIsContent
     DEF DupInv, DuplicateNamesOriginal, PendingDuplicate
<1>11. ReplayIsDuplicate'
  <2> SUFFICES ASSUME NEW x \in records', NEW y \in records',
                      x.of = NoRequest, y.of = NoRequest,
                      ContentOf[x.id] = ContentOf[y.id],
                      ContentOf[y.id] \in Stamped
               PROVE  x.id \notin answered[y.id]
    BY <1>1 DEF ReplayIsDuplicate
  <2>1. CASE x \in records /\ y \in records
    BY <2>1 DEF DupInv, ReplayIsDuplicate
  <2>2. CASE x = new
    <3>1. y.id \in Requests
      BY <1>1, <1>5 DEF TypeOK
    <3> QED
      BY <1>4, <1>5, <2>2, <3>1
  <2>3. CASE x \in records /\ y = new
    <3>1. SameContent(x.id, r)
      BY <1>5, <2>3, VersionIsContent
    <3> QED
      BY <1>1, <1>5, <2>3, <3>1 DEF DupInv, PendingOriginal
  <2> QED
    BY <1>1, <2>1, <2>2, <2>3
<1> QED
  BY <1>6, <1>7, <1>8, <1>9, <1>10, <1>11 DEF DupInv

LEMMA StepDupInv == TypeOK /\ DupInv /\ [Next]_vars => DupInv'
<1> SUFFICES ASSUME TypeOK, DupInv, [Next]_vars PROVE DupInv'
  OBVIOUS
<1> USE DEF tables, locals
<1>1. ASSUME NEW r \in Requests, Receive(r) \/ ReceiveInquiry(r)
      PROVE  DupInv'
  BY <1>1, ReceiveKeepsDupInv
<1>2. ASSUME NEW r \in Requests, CheckDuplicate(r) PROVE DupInv'
  BY <1>2, CheckKeepsDupInv
<1>3. ASSUME NEW r \in Requests, PersistRecord(r) PROVE DupInv'
  BY <1>3, PersistKeepsDupInv
<1>4. ASSUME NEW r \in Requests,
             AuditIngestion(r) \/ AuditRules(r) \/ AuditLlm(r)
               \/ AuditDecision(r) \/ SarAudit(r)
      PROVE  DupInv'
  <2>1. LaterPc
    BY <1>4 DEF AuditIngestion, AuditRules, AuditLlm, AuditDecision, SarAudit,
                Goto, LaterPc, TypeOK
  <2>2. UNCHANGED <<records, dup_of, answered>>
    BY <1>4 DEF AuditIngestion, AuditRules, AuditLlm, AuditDecision, SarAudit,
                Log
  <2> QED
    BY <2>1, <2>2, LaterKeepsDupInv
<1>5. ASSUME NEW r \in Requests,
             Screen(r) \/ SarQuery(r) \/ SarPersist(r) \/ SarFail(r)
               \/ Respond(r) \/ Fail(r)
      PROVE  DupInv'
  <2>1. LaterPc
    BY <1>5 DEF Screen, SarQuery, SarPersist, SarFail, Respond, Fail,
                Goto, LaterPc, TypeOK
  <2>2. UNCHANGED <<records, dup_of, answered>>
    BY <1>5 DEF Screen, SarQuery, SarPersist, SarFail, Respond, Fail
  <2> QED
    BY <2>1, <2>2, LaterKeepsDupInv
<1>6. CASE Crash
  <2>1. LaterPc
    BY <1>6 DEF Crash, InFlight, LaterPc, TypeOK
  <2> QED
    BY <1>6, <2>1, LaterKeepsDupInv DEF Crash
<1>7. ASSUME NEW r \in Requests, Override(r) PROVE DupInv'
  <2>1. UNCHANGED <<pc, records, dup_of, answered>>
    BY <1>7 DEF Override
  <2> QED
    BY <2>1, LaterKeepsDupInv DEF LaterPc
<1>8. CASE UNCHANGED vars
  <2>1. UNCHANGED <<pc, records, dup_of, answered>>
    BY <1>8 DEF vars
  <2> QED
    BY <2>1, LaterKeepsDupInv DEF LaterPc
<1> QED
  BY <1>1, <1>2, <1>3, <1>4, <1>5, <1>6, <1>7, <1>8 DEF Next, Step

LEMMA SpecDupInv == Spec => []DupInv
<1>1. Spec => []TypeOK
  BY SpecTypeOK
<1> QED
  BY <1>1, InitDupInv, StepDupInv, PTL DEF Spec

(* Every duplicate names a stored original of its content, itself never    *)
(* and another duplicate never, however the requests interleave and        *)
(* whatever fails (data_ingestion/agent.py:246-259).                       *)
THEOREM SpecDuplicateNamesOriginal == Spec => []DuplicateNamesOriginal
<1>1. DupInv => DuplicateNamesOriginal
  BY DEF DupInv
<1> QED
  BY <1>1, SpecDupInv, PTL

(* A payload sent again after its first answer is recognised: only requests*)
(* that overlap in time can both be stored as originals.                   *)
THEOREM SpecReplayIsDuplicate == Spec => []ReplayIsDuplicate
<1>1. DupInv => ReplayIsDuplicate
  BY DEF DupInv
<1> QED
  BY <1>1, SpecDupInv, PTL

-----------------------------------------------------------------------------
(* Evidence.  A client is told "processed" some steps after its decision   *)
(* was logged; the invariant says what is in the log all that while.       *)

Decided(r) ==
  \/ pc[r] \in {"sar_query", "sar_persist", "sar_audit"} /\ r \notin Inquiries
  \/ /\ pc[r] = "respond" /\ ~IsDuplicate(r)
     /\ r \notin Ingests /\ r \notin Inquiries
  \/ response[r] = "processed"

Evidenced(r) == \E i \in DOMAIN audit : audit[i] = DecisionEntry(r)

EvidenceInv ==
  \A r \in Requests :
    /\ Decided(r) => Evidenced(r)
    /\ response[r] = "processed" => pc[r] = "answered"

LEMMA InitEvidenceInv == Init => EvidenceInv
BY DEF Init, EvidenceInv, Decided

(* The log is only ever appended to.                                       *)
Grows == \A i \in DOMAIN audit : i \in DOMAIN audit' /\ audit'[i] = audit[i]

LEMMA LogGrows ==
  ASSUME TypeOK, NEW e, audit' = Append(audit, e)
  PROVE  Grows /\ Len(audit') \in DOMAIN audit' /\ audit'[Len(audit')] = e
BY DEF TypeOK, Grows

LEMMA SameGrows ==
  ASSUME UNCHANGED audit
  PROVE  Grows
BY DEF Grows

LEMMA EvidenceStays ==
  ASSUME Grows, NEW r, Evidenced(r), verdict'[r] = verdict[r]
  PROVE  Evidenced(r)'
<1>1. DecisionEntry(r)' = DecisionEntry(r)
  BY DEF DecisionEntry, Decision, Risk
<1>2. PICK i \in DOMAIN audit : audit[i] = DecisionEntry(r)
  BY DEF Evidenced
<1> QED
  BY <1>1, <1>2 DEF Evidenced, Grows

(* A step that decides no request and answers none it has not decided.     *)
LEMMA NoNewDecision ==
  ASSUME EvidenceInv, Grows,
         \A q \in Requests :
           /\ Decided(q)' => Decided(q) /\ verdict'[q] = verdict[q]
           /\ response'[q] = "processed" => pc'[q] = "answered"
  PROVE  EvidenceInv'
<1> SUFFICES ASSUME NEW q \in Requests, Decided(q)' PROVE Evidenced(q)'
  BY DEF EvidenceInv
<1>1. Decided(q) /\ verdict'[q] = verdict[q]
  OBVIOUS
<1> QED
  BY <1>1, EvidenceStays DEF EvidenceInv

LEMMA StepEvidenceInv == TypeOK /\ EvidenceInv /\ [Next]_vars => EvidenceInv'
<1> SUFFICES ASSUME TypeOK, EvidenceInv, [Next]_vars PROVE EvidenceInv'
  OBVIOUS
<1> USE DEF tables, locals
<1>1. ASSUME NEW r \in Requests, Receive(r) \/ ReceiveInquiry(r)
      PROVE  EvidenceInv'
  <2>1. Grows
    BY <1>1, SameGrows DEF Receive, ReceiveInquiry, Arrive
  <2>2. /\ UNCHANGED <<dup_of, verdict, response>> /\ pc[r] = "new"
        /\ \/ pc' = [pc EXCEPT ![r] = "check"]
           \/ r \in Inquiries /\ pc' = [pc EXCEPT ![r] = "sar_query"]
    BY <1>1 DEF Receive, ReceiveInquiry, Arrive, Goto
  <2> QED
    BY <2>1, <2>2, NoNewDecision
       DEF EvidenceInv, Decided, IsDuplicate, TypeOK
<1>2. ASSUME NEW r \in Requests, CheckDuplicate(r) PROVE EvidenceInv'
  <2>1. Grows
    BY <1>2, SameGrows DEF CheckDuplicate
  <2>2. /\ UNCHANGED <<verdict, response>> /\ pc[r] = "check"
        /\ pc' = [pc EXCEPT ![r] = "persist"]
        /\ \A q \in Requests \ {r} : dup_of'[q] = dup_of[q]
    BY <1>2 DEF CheckDuplicate, Goto, TypeOK
  <2> QED
    BY <2>1, <2>2, NoNewDecision
       DEF EvidenceInv, Decided, IsDuplicate, TypeOK
<1>3. ASSUME NEW r \in Requests, PersistRecord(r) PROVE EvidenceInv'
  <2>1. Grows
    BY <1>3, SameGrows DEF PersistRecord
  <2>2. UNCHANGED <<dup_of, verdict, response>> /\ pc[r] = "persist"
        /\ pc' = [pc EXCEPT ![r] = "audit_ingestion"]
    BY <1>3 DEF PersistRecord, Goto
  <2> QED
    BY <2>1, <2>2, NoNewDecision
       DEF EvidenceInv, Decided, IsDuplicate, TypeOK
<1>4. ASSUME NEW r \in Requests, AuditIngestion(r) PROVE EvidenceInv'
  <2>1. Grows
    BY <1>4, LogGrows DEF AuditIngestion, Log
  <2>2. /\ UNCHANGED <<dup_of, verdict, response>> /\ pc[r] = "audit_ingestion"
        /\ pc' = [pc EXCEPT ![r] = IF IsDuplicate(r) \/ r \in Ingests
                                   THEN "respond" ELSE "screen"]
    BY <1>4 DEF AuditIngestion, Log, Goto
  <2> QED
    BY <2>1, <2>2, NoNewDecision
       DEF EvidenceInv, Decided, IsDuplicate, TypeOK
<1>5. ASSUME NEW r \in Requests, Screen(r) PROVE EvidenceInv'
  <2>1. Grows
    BY <1>5, SameGrows DEF Screen
  <2>2. /\ UNCHANGED <<dup_of, response>> /\ pc[r] = "screen"
        /\ pc' = [pc EXCEPT ![r] = "audit_rules"]
        /\ \A q \in Requests \ {r} : verdict'[q] = verdict[q]
    BY <1>5 DEF Screen, Goto, TypeOK
  <2> QED
    BY <2>1, <2>2, NoNewDecision
       DEF EvidenceInv, Decided, IsDuplicate, TypeOK
<1>6. ASSUME NEW r \in Requests, AuditRules(r) \/ AuditLlm(r)
      PROVE  EvidenceInv'
  <2>1. Grows
    BY <1>6, LogGrows DEF AuditRules, AuditLlm, Log
  <2>2. /\ UNCHANGED <<dup_of, verdict, response>>
        /\ pc[r] \in {"audit_rules", "audit_llm"}
        /\ \E label \in {"audit_llm", "audit_decision"} :
             pc' = [pc EXCEPT ![r] = label]
    BY <1>6 DEF AuditRules, AuditLlm, Log, Goto
  <2> QED
    BY <2>1, <2>2, NoNewDecision
       DEF EvidenceInv, Decided, IsDuplicate, TypeOK
<1>7. ASSUME NEW r \in Requests, AuditDecision(r) PROVE EvidenceInv'
  <2>1. /\ UNCHANGED <<dup_of, verdict, response>>
        /\ pc[r] = "audit_decision"
        /\ \E label \in {"sar_query", "respond"} :
             pc' = [pc EXCEPT ![r] = label]
        /\ audit' = Append(audit, DecisionEntry(r))
    BY <1>7 DEF AuditDecision, Log, Goto
  <2>2. Grows /\ Len(audit') \in DOMAIN audit'
        /\ audit'[Len(audit')] = DecisionEntry(r)
    BY <2>1, LogGrows
  <2>3. DecisionEntry(r)' = DecisionEntry(r)
    BY <2>1 DEF DecisionEntry, Decision, Risk
  <2>4. Evidenced(r)'
    BY <2>2, <2>3 DEF Evidenced
  <2>5. \A q \in Requests : Decided(q)' => q = r \/ Decided(q)
    BY <2>1 DEF Decided, IsDuplicate, TypeOK
  <2>6. \A q \in Requests : Decided(q)' => Evidenced(q)'
    BY <2>1, <2>2, <2>4, <2>5, EvidenceStays DEF EvidenceInv
  <2>7. \A q \in Requests : response'[q] = "processed" => pc'[q] = "answered"
    BY <2>1 DEF EvidenceInv, TypeOK
  <2> QED
    BY <2>6, <2>7 DEF EvidenceInv
<1>8. ASSUME NEW r \in Requests, SarQuery(r) \/ SarPersist(r) \/ SarFail(r)
      PROVE  EvidenceInv'
  <2>1. Grows
    BY <1>8, SameGrows DEF SarQuery, SarPersist, SarFail
  <2>2. /\ UNCHANGED <<dup_of, verdict, response>>
        /\ pc[r] \in {"sar_query", "sar_persist", "sar_audit"}
        /\ \E label \in {"sar_persist", "sar_audit", "respond"} :
             pc' = [pc EXCEPT ![r] = label]
    BY <1>8 DEF SarQuery, SarPersist, SarFail, Goto
  <2> QED
    BY <2>1, <2>2, NoNewDecision
       DEF EvidenceInv, Decided, IsDuplicate, TypeOK
<1>9. ASSUME NEW r \in Requests, SarAudit(r) PROVE EvidenceInv'
  <2>1. Grows
    BY <1>9, LogGrows DEF SarAudit, Log
  <2>2. /\ UNCHANGED <<dup_of, verdict, response>> /\ pc[r] = "sar_audit"
        /\ pc' = [pc EXCEPT ![r] = "respond"]
    BY <1>9 DEF SarAudit, Log, Goto
  <2> QED
    BY <2>1, <2>2, NoNewDecision
       DEF EvidenceInv, Decided, IsDuplicate, TypeOK
<1>10. ASSUME NEW r \in Requests, Respond(r) PROVE EvidenceInv'
  <2>1. Grows
    BY <1>10, SameGrows DEF Respond
  <2>2. /\ UNCHANGED <<dup_of, verdict>> /\ pc[r] = "respond"
        /\ pc' = [pc EXCEPT ![r] = "answered"]
        /\ \A q \in Requests \ {r} : response'[q] = response[q]
        /\ response'[r] = "processed" =>
             r \notin Ingests /\ r \notin Inquiries /\ ~IsDuplicate(r)
    BY <1>10 DEF Respond, Goto, TypeOK
  <2> QED
    BY <2>1, <2>2, NoNewDecision
       DEF EvidenceInv, Decided, IsDuplicate, TypeOK
<1>11. ASSUME NEW r \in Requests, Fail(r) PROVE EvidenceInv'
  <2>1. Grows
    BY <1>11, SameGrows DEF Fail
  <2>2. /\ UNCHANGED <<dup_of, verdict>>
        /\ pc[r] # "answered"
        /\ pc' = [pc EXCEPT ![r] = "failed"]
        /\ response' = [response EXCEPT ![r] = "error"]
    BY <1>11 DEF Fail, Goto
  <2> QED
    BY <2>1, <2>2, NoNewDecision
       DEF EvidenceInv, Decided, IsDuplicate, TypeOK
<1>12. CASE Crash
  <2>1. Grows
    BY <1>12, SameGrows DEF Crash
  <2>2. /\ UNCHANGED <<dup_of, verdict, response>>
        /\ \A q \in Requests :
             \/ pc'[q] = pc[q]
             \/ pc[q] # "answered" /\ pc'[q] = "lost"
    BY <1>12 DEF Crash, InFlight
  <2> QED
    BY <2>1, <2>2, NoNewDecision DEF EvidenceInv, Decided, IsDuplicate
<1>13. ASSUME NEW r \in Requests, Override(r) PROVE EvidenceInv'
  <2>1. Grows
    BY <1>13, LogGrows, SameGrows DEF Override
  <2>2. UNCHANGED <<pc, dup_of, verdict, response>>
    BY <1>13 DEF Override
  <2> QED
    BY <2>1, <2>2, NoNewDecision DEF EvidenceInv, Decided, IsDuplicate
<1>14. CASE UNCHANGED vars
  <2>1. Grows
    BY <1>14, SameGrows DEF vars
  <2>2. UNCHANGED <<pc, dup_of, verdict, response>>
    BY <1>14 DEF vars
  <2> QED
    BY <2>1, <2>2, NoNewDecision DEF EvidenceInv, Decided, IsDuplicate
<1> QED
  BY <1>1, <1>2, <1>3, <1>4, <1>5, <1>6, <1>7, <1>8, <1>9, <1>10, <1>11,
     <1>12, <1>13, <1>14 DEF Next, Step

LEMMA SpecEvidenceInv == Spec => []EvidenceInv
<1>1. Spec => []TypeOK
  BY SpecTypeOK
<1> QED
  BY <1>1, InitEvidenceInv, StepEvidenceInv, PTL DEF Spec

LEMMA EvidenceSuffices == TypeOK /\ EvidenceInv => ProcessedIsEvidenced
<1> SUFFICES ASSUME TypeOK, EvidenceInv,
                    NEW r \in Requests, response[r] = "processed"
    PROVE \E i \in DOMAIN audit :
            /\ audit[i] = DecisionEntry(r)
            /\ Severity[Decision(r)] >= Severity[verdict[r].rule]
            /\ verdict[r].llm # NoLlm =>
                 RISK_ORDER[audit[i].risk] >= RISK_ORDER[verdict[r].llm]
  BY DEF ProcessedIsEvidenced
<1>1. PICK i \in DOMAIN audit : audit[i] = DecisionEntry(r)
  BY DEF EvidenceInv, Decided, Evidenced
<1>2. audit[i].risk = Risk(r)
  BY <1>1 DEF DecisionEntry
<1>3. verdict[r].rule \in Decisions /\ verdict[r].llm \in Risks \cup {NoLlm}
  BY DEF TypeOK
<1>4. /\ Severity[Decision(r)] >= Severity[verdict[r].rule]
      /\ verdict[r].llm # NoLlm =>
           RISK_ORDER[Risk(r)] >= RISK_ORDER[verdict[r].llm]
  BY <1>3, CombinationEscalates DEF EscalationOnly, Decision, Risk
<1> QED
  BY <1>1, <1>2, <1>4

(* A client told "processed" finds the decision it was told in the audit   *)
(* log, never milder than the rules or than the model, for any number of   *)
(* requests and with failures and crashes anywhere (orchestrator.py:85-118)*)
THEOREM SpecProcessedIsEvidenced == Spec => []ProcessedIsEvidenced
BY SpecTypeOK, SpecEvidenceInv, EvidenceSuffices, PTL

-----------------------------------------------------------------------------
(* Suspicious activity reports.  The query, the INSERT and the audit entry *)
(* of a report are three steps: the invariant carries what the query found *)
(* until the report is stored, and what a stored report rests on for ever. *)

InSar == {"sar_query", "sar_persist", "sar_audit"}

(* Where a request can be once its report is stored.                       *)
Reported == {"sar_audit", "respond", "answered", "failed", "lost"}

DecidedSince(r) ==
  \E i \in DOMAIN audit : audit[i] = DecisionEntry(r) /\ since[r] < i

(* What the query of a report has to find is in the log.                   *)
CausesLogged(r) ==
  \A q \in Causes(r) :
    /\ q \in Requests
    /\ User(q) = User(r)
    /\ \E i \in DOMAIN audit : /\ audit[i] = DecisionEntry(q)
                               /\ since[r] < i \/ r \in Inquiries

(* SarGrounded of one report; what supports it is in the log.              *)
Grounded(s) ==
  /\ s.by \in Requests
  /\ s.supporting \subseteq DOMAIN audit
  /\ User(s.by) # NoUser =>
       /\ \A i \in s.supporting : User(audit[i].rec) = User(s.by)
       /\ \A q \in Causes(s.by) : Covers(s, q)

GroundedSars == {s \in SarType : Grounded(s)}

(* An audited report is in the table.                                      *)
AuditedIsStored ==
  \A i \in DOMAIN audit :
    audit[i].event = "sar_generated" => \E s \in sars : s.by = audit[i].rec

(* What holds of a request on its way to its report.                       *)
SarLocals(r) ==
  /\ since[r] <= Len(audit)
  /\ pc[r] = "sar_query" /\ r \notin Inquiries => DecidedSince(r)
  /\ pc[r] \in {"sar_persist", "sar_audit"} =>
       sar[r].by = r /\ sar[r] \in GroundedSars
  /\ pc[r] = "sar_audit" => sar[r] \in sars

StoredSars == \A s \in sars : s \in GroundedSars /\ pc[s.by] \in Reported

SarInv ==
  /\ \A r \in Requests : SarLocals(r)
  /\ StoredSars
  /\ AuditedIsStored

LEMMA InitSarInv == Init => SarInv
<1> SUFFICES ASSUME Init PROVE SarInv
  OBVIOUS
<1>1. audit = << >> /\ Len(audit) = 0 /\ DOMAIN audit = {} /\ sars = {}
  BY DEF Init
<1>2. \A r \in Requests : since[r] = 0 /\ pc[r] = "new"
  BY DEF Init
<1> QED
  BY <1>1, <1>2 DEF SarInv, SarLocals, StoredSars, AuditedIsStored

(* The window and the causes of a report on its way do not change any more.*)
Kept(r) ==
  /\ since'[r] = since[r]
  /\ Causes(r)' \subseteq Causes(r)
  /\ \A q \in Causes(r) : verdict'[q] = verdict[q]

Settled == \A r \in Requests : pc[r] \in InSar \cup Reported => Kept(r)

(* What each step leaves alone of the requests that are past their         *)
(* decision, and of those that are answered.                               *)
LEMMA NextLeavesDecided ==
  ASSUME TypeOK, [Next]_vars, NEW q \in Requests
  PROVE  /\ pc[q] \in InSar \cup Reported =>
              /\ since'[q] = since[q]
              /\ answered'[q] = answered[q]
              /\ verdict'[q] = verdict[q]
         /\ pc[q] = "answered" => response'[q] = response[q]
<1> USE DEF tables, locals, InSar, Reported, TypeOK
<1>1. ASSUME NEW r \in Requests, Receive(r) \/ ReceiveInquiry(r)
      PROVE  /\ pc[r] = "new" /\ UNCHANGED <<verdict, response>>
             /\ q # r => since'[q] = since[q] /\ answered'[q] = answered[q]
  BY <1>1 DEF Receive, ReceiveInquiry, Arrive
<1>2. ASSUME NEW r \in Requests, CheckDuplicate(r)
      PROVE  /\ pc[r] = "check" /\ UNCHANGED <<verdict, response, answered>>
             /\ q # r => since'[q] = since[q]
  BY <1>2 DEF CheckDuplicate
<1>3. ASSUME NEW r \in Requests, Screen(r)
      PROVE  /\ pc[r] = "screen" /\ UNCHANGED <<since, response, answered>>
             /\ q # r => verdict'[q] = verdict[q]
  BY <1>3 DEF Screen
<1>4. ASSUME NEW r \in Requests, Respond(r) \/ Fail(r)
      PROVE  /\ pc[r] # "answered" /\ UNCHANGED <<since, verdict, answered>>
             /\ q # r => response'[q] = response[q]
  BY <1>4 DEF Respond, Fail
<1>5. ASSUME NEW r \in Requests,
             AuditIngestion(r) \/ AuditRules(r) \/ AuditLlm(r)
               \/ AuditDecision(r) \/ SarAudit(r)
      PROVE  UNCHANGED <<since, verdict, response, answered>>
  BY <1>5 DEF AuditIngestion, AuditRules, AuditLlm, AuditDecision, SarAudit,
              Log
<1>6. ASSUME NEW r \in Requests,
             PersistRecord(r) \/ SarQuery(r) \/ SarPersist(r) \/ SarFail(r)
               \/ Override(r)
      PROVE  UNCHANGED <<since, verdict, response, answered>>
  BY <1>6 DEF PersistRecord, SarQuery, SarPersist, SarFail, Override
<1>7. Crash \/ UNCHANGED vars =>
        UNCHANGED <<since, verdict, response, answered>>
  BY DEF Crash, vars
<1> QED
  BY <1>1, <1>2, <1>3, <1>4, <1>5, <1>6, <1>7 DEF Next, Step

LEMMA StepSettled ==
  TypeOK /\ AnsweredStays /\ [Next]_vars => Settled
<1> SUFFICES ASSUME TypeOK, AnsweredStays, [Next]_vars,
                    NEW r \in Requests, pc[r] \in InSar \cup Reported
             PROVE  Kept(r)
  BY DEF Settled
<1>1. /\ since'[r] = since[r] /\ answered'[r] = answered[r]
      /\ verdict'[r] = verdict[r]
  BY NextLeavesDecided
<1>2. CASE r \notin Inquiries
  BY <1>1, <1>2 DEF Kept, Causes
<1>3. CASE r \in Inquiries
  <2>1. ASSUME NEW q \in answered[r]
        PROVE  verdict'[q] = verdict[q] /\ response'[q] = response[q]
    <3>1. q \in Requests /\ pc[q] = "answered"
      BY DEF AnsweredStays, TypeOK
    <3>2. pc[q] \in InSar \cup Reported
      BY <3>1 DEF Reported
    <3> QED
      BY <3>1, <3>2, NextLeavesDecided
  <2> QED
    BY <1>1, <1>3, <2>1 DEF Kept, Causes, User
<1> QED
  BY <1>2, <1>3

(* What a report rests on stays.                                           *)
LEMMA GroundedStays ==
  ASSUME Grows, NEW s \in GroundedSars, Kept(s.by)
  PROVE  s \in GroundedSars'
<1>1. \A i \in s.supporting : i \in DOMAIN audit' /\ audit'[i] = audit[i]
  BY DEF GroundedSars, Grounded, Grows
<1>2. ASSUME NEW q, verdict'[q] = verdict[q], Covers(s, q)
      PROVE  Covers(s, q)'
  <2>1. Risk(q)' = Risk(q) /\ DecisionEntry(q)' = DecisionEntry(q)
    BY <1>2 DEF Risk, DecisionEntry, Decision
  <2>2. OutOfReach(s.by, q) => OutOfReach(s.by, q)'
    BY <2>1 DEF OutOfReach, Grows, Kept
  <2> QED
    BY <1>1, <1>2, <2>1, <2>2 DEF Covers
<1>3. Grounded(s)'
  BY <1>1, <1>2 DEF GroundedSars, Grounded, Kept, User
<1> QED
  BY <1>3 DEF GroundedSars

LEMMA DecidedSinceStays ==
  ASSUME Grows, NEW r, r \notin Inquiries, DecidedSince(r), Kept(r)
  PROVE  DecidedSince(r)'
<1>1. verdict'[r] = verdict[r] /\ since'[r] = since[r]
  BY DEF Kept, Causes
<1>2. DecisionEntry(r)' = DecisionEntry(r)
  BY <1>1 DEF Risk, DecisionEntry, Decision
<1> QED
  BY <1>1, <1>2 DEF DecidedSince, Grows

(* No request comes closer to a report, and none on its way is disturbed.  *)
Undisturbed(q) ==
  /\ since'[q] <= Len(audit')
  /\ \/ /\ pc'[q] \notin InSar
        /\ pc[q] \in Reported => pc'[q] \in Reported
     \/ pc'[q] = pc[q] /\ sar'[q] = sar[q]

LEMMA LocalsStay ==
  ASSUME Grows, Settled, sars \subseteq sars', NEW r \in Requests,
         SarLocals(r), Undisturbed(r)
  PROVE  SarLocals(r)'
<1>1. CASE pc'[r] \notin InSar
  BY <1>1 DEF SarLocals, Undisturbed, InSar
<1>2. CASE pc'[r] \in InSar
  <2>1. /\ pc'[r] = pc[r] /\ sar'[r] = sar[r] /\ Kept(r)
        /\ since'[r] <= Len(audit')
    BY <1>2 DEF Undisturbed, Settled
  <2>2. pc[r] = "sar_query" /\ r \notin Inquiries => DecidedSince(r)'
    BY <2>1, DecidedSinceStays DEF SarLocals
  <2>3. pc[r] \in {"sar_persist", "sar_audit"} =>
          sar'[r].by = r /\ sar'[r] \in GroundedSars'
    BY <2>1, GroundedStays DEF SarLocals
  <2> QED
    BY <2>1, <2>2, <2>3 DEF SarLocals
<1> QED
  BY <1>1, <1>2

LEMMA StoredSarsStay ==
  ASSUME Grows, Settled, StoredSars,
         \A q \in Requests : pc[q] \in Reported => pc'[q] \in Reported
  PROVE  \A s \in sars : s \in GroundedSars' /\ pc'[s.by] \in Reported
<1> SUFFICES ASSUME NEW s \in sars
             PROVE  s \in GroundedSars' /\ pc'[s.by] \in Reported
  OBVIOUS
<1>1. s \in GroundedSars /\ pc[s.by] \in Reported /\ s.by \in Requests
  BY DEF StoredSars, GroundedSars, Grounded
<1>2. Kept(s.by)
  BY <1>1 DEF Settled
<1> QED
  BY <1>1, <1>2, GroundedStays

(* A step that touches no report.                                          *)
LEMMA UndisturbedKeepsSarInv ==
  ASSUME SarInv, Settled, Grows, UNCHANGED sars,
         \A i \in DOMAIN audit' : i \in DOMAIN audit
                                    \/ audit'[i].event # "sar_generated",
         \A q \in Requests : Undisturbed(q)
  PROVE  SarInv'
<1>1. \A r \in Requests : SarLocals(r)'
  BY LocalsStay DEF SarInv
<1>2. \A q \in Requests : pc[q] \in Reported => pc'[q] \in Reported
  BY DEF Undisturbed
<1>3. StoredSars'
  BY <1>2, StoredSarsStay DEF SarInv, StoredSars
<1>4. AuditedIsStored'
  BY DEF SarInv, AuditedIsStored, Grows
<1> QED
  BY <1>1, <1>3, <1>4 DEF SarInv

(* What an audit step does to the log and to the requests.                 *)
LEMMA LogFacts ==
  ASSUME TypeOK, NEW e, Log(e)
  PROVE  /\ Grows
         /\ Len(audit') = Len(audit) + 1
         /\ DOMAIN audit' = DOMAIN audit \cup {Len(audit')}
         /\ audit'[Len(audit')] = e
         /\ UNCHANGED <<sars, since, verdict, sar>>
BY LogGrows DEF Log, TypeOK, locals

(* The causes of an inquiry were answered, so their decisions are logged.  *)
LEMMA QueryHasCauses ==
  ASSUME TypeOK, EvidenceInv, NEW r \in Requests,
         r \notin Inquiries => DecidedSince(r)
  PROVE  CausesLogged(r)
<1>1. CASE r \in Inquiries
  <2>1. ASSUME NEW q \in Causes(r)
        PROVE  q \in Requests /\ User(q) = User(r) /\ Evidenced(q)
    BY <1>1 DEF Causes, TypeOK, EvidenceInv, Decided
  <2> QED
    BY <1>1, <2>1 DEF CausesLogged, Evidenced
<1>2. CASE r \notin Inquiries
  BY <1>2 DEF Causes, CausesLogged, DecidedSince
<1> QED
  BY <1>1, <1>2

LEMMA QueryFindsCauses ==
  ASSUME TypeOK, NEW r \in Requests, CausesLogged(r),
         NEW s, s = [by |-> r, risk |-> HighestRisk(UserDecisions(r)),
                     supporting |-> UserDecisions(r)]
  PROVE  s \in GroundedSars
<1>1. \A i \in DOMAIN audit : i \in Nat /\ audit[i] \in EntryType
  BY DEF TypeOK
<1>2. UserDecisions(r) \subseteq DOMAIN audit
  BY DEF UserDecisions, Window
<1>3. \A i \in UserDecisions(r) : audit[i].risk \in Risks
  BY <1>1, <1>2 DEF EntryType
<1>4. /\ HighestRisk(UserDecisions(r)) \in Risks
      /\ \A i \in UserDecisions(r) :
           RISK_ORDER[audit[i].risk] <= RISK_ORDER[HighestRisk(UserDecisions(r))]
  BY <1>3, HighestRiskFacts
<1>5. \A i \in UserDecisions(r) : User(audit[i].rec) = User(r)
  BY DEF UserDecisions
<1>6. ASSUME NEW q \in Causes(r), User(r) # NoUser PROVE Covers(s, q)
  <2>1. PICK i \in DOMAIN audit : /\ audit[i] = DecisionEntry(q)
                                  /\ since[r] < i \/ r \in Inquiries
    BY DEF CausesLogged
  <2>2. q \in Requests /\ User(q) = User(r)
    BY DEF CausesLogged
  <2>3. since[r] \in Nat /\ i \in Nat
    BY <1>1 DEF TypeOK
  <2>4. CASE i > since[r] + QueryLimit \/ (r \in Inquiries /\ i <= since[r])
    BY <2>1, <2>4 DEF Covers, OutOfReach
  <2>5. CASE since[r] < i /\ i <= since[r] + QueryLimit
    <3>1. i \in Window(r)
      BY <2>5 DEF Window
    <3>2. /\ audit[i].rec = q /\ audit[i].risk = Risk(q)
          /\ audit[i].event \in DecisionEvents
      BY <2>1, <2>2, VerdictTypes DEF DecisionEntry, DecisionEvents
    <3>3. i \in UserDecisions(r)
      BY <1>6, <2>2, <3>1, <3>2 DEF UserDecisions
    <3> HIDE DEF UserDecisions, HighestRisk
    <3>4. RISK_ORDER[Risk(q)] <= RISK_ORDER[HighestRisk(UserDecisions(r))]
      BY <1>4, <3>2, <3>3
    <3>5. \A a \in Risks : RISK_ORDER[a] \in Nat
      BY DEF Risks, RISK_ORDER
    <3>6. Risk(q) \in Risks
      BY <2>2, VerdictTypes
    <3>7. RISK_ORDER[s.risk] >= RISK_ORDER[Risk(q)]
      BY <1>4, <3>4, <3>5, <3>6
    <3> QED
      BY <2>1, <3>3, <3>7 DEF Covers
  <2> QED
    BY <2>1, <2>3, <2>4, <2>5, PipelineAssumption
<1>7. Grounded(s)
  BY <1>2, <1>5, <1>6 DEF Grounded
<1> QED
  BY <1>1, <1>2, <1>4, <1>7 DEF GroundedSars, SarType

LEMMA AuditDecisionKeepsSarInv ==
  ASSUME TypeOK, Settled, SarInv, NEW r \in Requests, AuditDecision(r)
  PROVE  SarInv'
<1>1. /\ pc[r] = "audit_decision"
      /\ \E label \in {"sar_query", "respond"} :
           pc' = [pc EXCEPT ![r] = label]
      /\ Log(DecisionEntry(r))
  BY DEF AuditDecision, Goto
<1>2. /\ Grows
      /\ Len(audit') = Len(audit) + 1
      /\ DOMAIN audit' = DOMAIN audit \cup {Len(audit')}
      /\ audit'[Len(audit')] = DecisionEntry(r)
      /\ UNCHANGED <<sars, since, verdict, sar>>
  BY <1>1, LogFacts
<1>3. \A q \in Requests : since[q] <= Len(audit) /\ since[q] \in Nat
  BY DEF SarInv, SarLocals, TypeOK
<1>4. Len(audit) \in Nat
  BY DEF TypeOK
<1>5. SarLocals(r)'
  <2>1. DecisionEntry(r)' = DecisionEntry(r)
    BY <1>2 DEF DecisionEntry, Decision, Risk
  <2>2. since'[r] < Len(audit') /\ since'[r] <= Len(audit')
    BY <1>2, <1>3, <1>4
  <2>3. DecidedSince(r)'
    BY <1>2, <2>1, <2>2 DEF DecidedSince
  <2>4. pc'[r] \in {"sar_query", "respond"}
    BY <1>1 DEF TypeOK
  <2> QED
    BY <2>2, <2>3, <2>4 DEF SarLocals
<1>6. \A q \in Requests \ {r} : Undisturbed(q)
  BY <1>1, <1>2, <1>3, <1>4 DEF Undisturbed, InSar, TypeOK
<1>7. \A q \in Requests : SarLocals(q)'
  BY <1>2, <1>5, <1>6, LocalsStay DEF SarInv
<1>8. StoredSars'
  <2>1. \A q \in Requests : pc[q] \in Reported => pc'[q] \in Reported
    BY <1>1 DEF Reported, TypeOK
  <2> QED
    BY <1>2, <2>1, StoredSarsStay DEF SarInv, StoredSars
<1>9. DecisionEntry(r).event # "sar_generated"
  <2>1. Decision(r) \in Decisions
    BY VerdictTypes
  <2>2. \A d \in Decisions : DECISION_EVENT[d] # "sar_generated"
    BY DEF DECISION_EVENT, Decisions
  <2> QED
    BY <2>1, <2>2 DEF DecisionEntry
<1>10. AuditedIsStored'
  BY <1>2, <1>9 DEF SarInv, AuditedIsStored, Grows
<1> QED
  BY <1>7, <1>8, <1>10 DEF SarInv

LEMMA SarQueryKeepsSarInv ==
  ASSUME TypeOK, EvidenceInv, Settled, SarInv, NEW r \in Requests,
         SarQuery(r)
  PROVE  SarInv'
<1> DEFINE s == [by |-> r, risk |-> HighestRisk(UserDecisions(r)),
                 supporting |-> UserDecisions(r)]
<1>1. /\ pc[r] = "sar_query" /\ pc' = [pc EXCEPT ![r] = "sar_persist"]
      /\ sar' = [sar EXCEPT ![r] = s]
      /\ UNCHANGED <<audit, sars, since, verdict>>
  BY DEF SarQuery, Goto, tables
<1>2. CausesLogged(r) /\ Kept(r)
  <2>1. r \notin Inquiries => DecidedSince(r)
    BY <1>1 DEF SarInv, SarLocals
  <2> QED
    BY <1>1, <2>1, QueryHasCauses DEF Settled, InSar
<1>3. s.by = r
  OBVIOUS
<1>4. PICK t : t = s
  OBVIOUS
<1>5. t \in GroundedSars /\ t.by = r
  BY <1>2, <1>4, QueryFindsCauses
<1> HIDE DEF s
<1>6. /\ sar'[r] = t
      /\ \A q \in Requests \ {r} : sar'[q] = sar[q] /\ pc'[q] = pc[q]
      /\ pc'[r] = "sar_persist"
  BY <1>1, <1>4 DEF TypeOK
<1>7. Grows
  BY <1>1, SameGrows
<1>8. t \in GroundedSars'
  BY <1>2, <1>5, <1>7, GroundedStays
<1>9. SarLocals(r)'
  BY <1>1, <1>5, <1>6, <1>8 DEF SarInv, SarLocals
<1>10. \A q \in Requests \ {r} : SarLocals(q)'
  BY <1>1, <1>6, <1>7, LocalsStay DEF SarInv, SarLocals, Undisturbed
<1>11. StoredSars'
  <2>1. \A q \in Requests : pc[q] \in Reported => pc'[q] \in Reported
    BY <1>1, <1>6 DEF Reported
  <2> QED
    BY <1>1, <1>7, <2>1, StoredSarsStay DEF SarInv, StoredSars
<1>12. AuditedIsStored'
  BY <1>1 DEF SarInv, AuditedIsStored
<1> QED
  BY <1>9, <1>10, <1>11, <1>12 DEF SarInv

LEMMA SarPersistKeepsSarInv ==
  ASSUME TypeOK, Settled, SarInv, NEW r \in Requests, SarPersist(r)
  PROVE  SarInv'
<1>1. /\ pc[r] = "sar_persist" /\ pc' = [pc EXCEPT ![r] = "sar_audit"]
      /\ sars' = sars \cup {sar[r]}
      /\ UNCHANGED <<audit, sar, since, verdict>>
  BY DEF SarPersist, Goto, locals
<1>2. /\ \A q \in Requests \ {r} : pc'[q] = pc[q]
      /\ pc'[r] = "sar_audit"
  BY <1>1 DEF TypeOK
<1>3. Grows
  BY <1>1, SameGrows
<1>4. PICK t : t = sar[r]
  OBVIOUS
<1>5. t \in GroundedSars /\ t.by = r
  BY <1>1, <1>4 DEF SarInv, SarLocals
<1>6. t \in GroundedSars' /\ sar'[r] = t
  <2>1. Kept(r)
    BY <1>1 DEF Settled, InSar
  <2> QED
    BY <1>1, <1>3, <1>4, <1>5, <2>1, GroundedStays
<1>7. SarLocals(r)'
  BY <1>1, <1>2, <1>4, <1>5, <1>6 DEF SarInv, SarLocals
<1>8. \A q \in Requests \ {r} : SarLocals(q)'
  BY <1>1, <1>2, <1>3, LocalsStay DEF SarInv, SarLocals, Undisturbed
<1>9. \A q \in Requests : pc[q] \in Reported => pc'[q] \in Reported
  BY <1>1, <1>2 DEF Reported
<1>10. \A x \in sars : x \in GroundedSars' /\ pc'[x.by] \in Reported
  BY <1>1, <1>3, <1>9, StoredSarsStay DEF SarInv
<1>11. StoredSars'
  BY <1>1, <1>2, <1>4, <1>5, <1>6, <1>10 DEF StoredSars, Reported
<1>12. AuditedIsStored'
  BY <1>1 DEF SarInv, AuditedIsStored
<1> QED
  BY <1>7, <1>8, <1>11, <1>12 DEF SarInv

LEMMA SarAuditKeepsSarInv ==
  ASSUME TypeOK, Settled, SarInv, NEW r \in Requests, SarAudit(r)
  PROVE  SarInv'
<1> DEFINE e == Entry("sar_generated", r)
<1>1. /\ pc[r] = "sar_audit" /\ pc' = [pc EXCEPT ![r] = "respond"]
      /\ Log(e)
  BY DEF SarAudit, Goto
<1>2. /\ Grows
      /\ Len(audit') = Len(audit) + 1
      /\ DOMAIN audit' = DOMAIN audit \cup {Len(audit')}
      /\ audit'[Len(audit')] = e
      /\ UNCHANGED <<sars, since, verdict, sar>>
  BY <1>1, LogFacts
<1>3. \A q \in Requests : since'[q] <= Len(audit')
  <2>1. Len(audit) \in Nat /\ \A q \in Requests : since[q] \in Nat
    BY DEF TypeOK
  <2> QED
    BY <1>2, <2>1 DEF SarInv, SarLocals
<1>4. /\ \A q \in Requests \ {r} : pc'[q] = pc[q]
      /\ pc'[r] = "respond"
  BY <1>1 DEF TypeOK
<1>5. \A q \in Requests : SarLocals(q)'
  <2>1. \A q \in Requests : Undisturbed(q)
    BY <1>2, <1>3, <1>4 DEF Undisturbed, InSar, Reported
  <2> QED
    BY <1>2, <2>1, LocalsStay DEF SarInv
<1>6. StoredSars'
  <2>1. \A q \in Requests : pc[q] \in Reported => pc'[q] \in Reported
    BY <1>4 DEF Reported
  <2> QED
    BY <1>2, <2>1, StoredSarsStay DEF SarInv, StoredSars
<1>7. AuditedIsStored'
  <2>1. sar[r] \in sars /\ sar[r].by = r
    BY <1>1 DEF SarInv, SarLocals
  <2>2. e.rec = r
    BY DEF Entry
  <2> QED
    BY <1>2, <2>1, <2>2 DEF SarInv, AuditedIsStored, Grows
<1> QED
  BY <1>5, <1>6, <1>7 DEF SarInv

LEMMA ReceiveInquiryKeepsSarInv ==
  ASSUME TypeOK, Settled, SarInv, NEW r \in Requests, ReceiveInquiry(r)
  PROVE  SarInv'
<1>1. /\ pc[r] = "new" /\ pc' = [pc EXCEPT ![r] = "sar_query"]
      /\ r \in Inquiries
      /\ \E n \in 0..Len(audit) : since' = [since EXCEPT ![r] = n]
      /\ UNCHANGED <<audit, sars, sar, verdict>>
  BY DEF ReceiveInquiry, Arrive, Goto, tables
<1>2. /\ pc'[r] = "sar_query" /\ since'[r] <= Len(audit)
      /\ \A q \in Requests \ {r} : pc'[q] = pc[q] /\ since'[q] = since[q]
  BY <1>1 DEF TypeOK
<1>3. SarLocals(r)'
  BY <1>1, <1>2 DEF SarLocals
<1>4. Grows
  BY <1>1, SameGrows
<1>5. \A q \in Requests \ {r} : SarLocals(q)'
  BY <1>1, <1>2, <1>4, LocalsStay DEF SarInv, SarLocals, Undisturbed
<1>6. StoredSars'
  <2>1. \A q \in Requests : pc[q] \in Reported => pc'[q] \in Reported
    BY <1>1, <1>2 DEF Reported
  <2> QED
    BY <1>1, <1>4, <2>1, StoredSarsStay DEF SarInv, StoredSars
<1>7. AuditedIsStored'
  BY <1>1 DEF SarInv, AuditedIsStored
<1> QED
  BY <1>3, <1>5, <1>6, <1>7 DEF SarInv

LEMMA StepSarInv ==
  TypeOK /\ DupInv /\ EvidenceInv /\ SarInv /\ [Next]_vars => SarInv'
<1> SUFFICES ASSUME TypeOK, DupInv, EvidenceInv, SarInv, [Next]_vars
             PROVE  SarInv'
  OBVIOUS
<1>s. Settled
  BY StepSettled DEF DupInv
<1> USE DEF tables, locals
<1>a. \A q \in Requests : since[q] \in Nat /\ since[q] <= Len(audit)
  BY DEF TypeOK, SarInv, SarLocals
<1>b. Len(audit) \in Nat
  BY DEF TypeOK
<1>1. ASSUME NEW r \in Requests, Receive(r) PROVE SarInv'
  <2>1. /\ pc[r] = "new" /\ pc' = [pc EXCEPT ![r] = "check"]
        /\ UNCHANGED <<audit, sars, sar, since, verdict>>
    BY <1>1 DEF Receive, Arrive, Goto
  <2>2. \A q \in Requests : Undisturbed(q)
    BY <1>a, <2>1 DEF Undisturbed, InSar, Reported, TypeOK
  <2> QED
    BY <2>1, <2>2, SameGrows, <1>s, UndisturbedKeepsSarInv
<1>1a. ASSUME NEW r \in Requests, ReceiveInquiry(r) PROVE SarInv'
  BY <1>1a, <1>s, ReceiveInquiryKeepsSarInv
<1>2. ASSUME NEW r \in Requests, CheckDuplicate(r) PROVE SarInv'
  <2>1. /\ pc[r] = "check" /\ pc' = [pc EXCEPT ![r] = "persist"]
        /\ since' = [since EXCEPT ![r] = Len(audit)]
        /\ UNCHANGED <<audit, sars, sar, verdict>>
    BY <1>2 DEF CheckDuplicate, Goto
  <2>2. \A q \in Requests : Undisturbed(q)
    BY <1>a, <1>b, <2>1 DEF Undisturbed, InSar, Reported, TypeOK
  <2> QED
    BY <2>1, <2>2, SameGrows, <1>s, UndisturbedKeepsSarInv
<1>3. ASSUME NEW r \in Requests, PersistRecord(r) PROVE SarInv'
  <2>1. /\ pc[r] = "persist" /\ pc' = [pc EXCEPT ![r] = "audit_ingestion"]
        /\ UNCHANGED <<audit, sars, sar, since, verdict>>
    BY <1>3 DEF PersistRecord, Goto
  <2>2. \A q \in Requests : Undisturbed(q)
    BY <1>a, <2>1 DEF Undisturbed, InSar, Reported, TypeOK
  <2> QED
    BY <2>1, <2>2, SameGrows, <1>s, UndisturbedKeepsSarInv
<1>4. ASSUME NEW r \in Requests,
             AuditIngestion(r) \/ AuditRules(r) \/ AuditLlm(r)
      PROVE  SarInv'
  <2>1. /\ pc[r] \in {"audit_ingestion", "audit_rules", "audit_llm"}
        /\ \E label \in {"screen", "respond", "audit_llm", "audit_decision"} :
             pc' = [pc EXCEPT ![r] = label]
        /\ \E e : Log(e) /\ e.event # "sar_generated"
    BY <1>4 DEF AuditIngestion, AuditRules, AuditLlm, Goto, Entry
  <2>2. /\ Grows
        /\ Len(audit') = Len(audit) + 1
        /\ \A i \in DOMAIN audit' : i \in DOMAIN audit
                                    \/ audit'[i].event # "sar_generated"
        /\ UNCHANGED <<sars, since, verdict, sar>>
    BY <2>1, LogFacts
  <2>3. \A q \in Requests : Undisturbed(q)
    BY <1>a, <1>b, <2>1, <2>2 DEF Undisturbed, InSar, Reported, TypeOK
  <2> QED
    BY <2>2, <2>3, <1>s, UndisturbedKeepsSarInv
<1>5. ASSUME NEW r \in Requests, Screen(r) PROVE SarInv'
  <2>1. /\ pc[r] = "screen" /\ pc' = [pc EXCEPT ![r] = "audit_rules"]
        /\ \A q \in Requests \ {r} : verdict'[q] = verdict[q]
        /\ UNCHANGED <<audit, sars, sar, since>>
    BY <1>5 DEF Screen, Goto, TypeOK
  <2>2. \A q \in Requests : Undisturbed(q)
    BY <1>a, <2>1 DEF Undisturbed, InSar, Reported, TypeOK
  <2> QED
    BY <2>1, <2>2, SameGrows, <1>s, UndisturbedKeepsSarInv
<1>6. ASSUME NEW r \in Requests, AuditDecision(r) PROVE SarInv'
  BY <1>6, <1>s, AuditDecisionKeepsSarInv
<1>7. ASSUME NEW r \in Requests, SarQuery(r) PROVE SarInv'
  BY <1>7, <1>s, SarQueryKeepsSarInv
<1>8. ASSUME NEW r \in Requests, SarPersist(r) PROVE SarInv'
  BY <1>8, <1>s, SarPersistKeepsSarInv
<1>9. ASSUME NEW r \in Requests, SarAudit(r) PROVE SarInv'
  BY <1>9, <1>s, SarAuditKeepsSarInv
<1>10. ASSUME NEW r \in Requests, SarFail(r) PROVE SarInv'
  <2>1. /\ pc[r] \in InSar /\ pc' = [pc EXCEPT ![r] = "respond"]
        /\ \A q \in Requests \ {r} : sar'[q] = sar[q]
        /\ UNCHANGED <<audit, sars, since, verdict>>
    BY <1>10 DEF SarFail, Goto, InSar, TypeOK
  <2>2. \A q \in Requests : Undisturbed(q)
    BY <1>a, <2>1 DEF Undisturbed, InSar, Reported, TypeOK
  <2> QED
    BY <2>1, <2>2, SameGrows, <1>s, UndisturbedKeepsSarInv
<1>11. ASSUME NEW r \in Requests, Respond(r) PROVE SarInv'
  <2>1. /\ pc[r] = "respond" /\ pc' = [pc EXCEPT ![r] = "answered"]
        /\ UNCHANGED <<audit, sars, sar, since, verdict>>
    BY <1>11 DEF Respond, Goto
  <2>2. \A q \in Requests : Undisturbed(q)
    BY <1>a, <2>1 DEF Undisturbed, InSar, Reported, TypeOK
  <2> QED
    BY <2>1, <2>2, SameGrows, <1>s, UndisturbedKeepsSarInv
<1>12. ASSUME NEW r \in Requests, Fail(r) PROVE SarInv'
  <2>1. /\ pc' = [pc EXCEPT ![r] = "failed"]
        /\ UNCHANGED <<audit, sars, sar, since, verdict>>
    BY <1>12 DEF Fail, Goto
  <2>2. \A q \in Requests : Undisturbed(q)
    BY <1>a, <2>1 DEF Undisturbed, InSar, Reported, TypeOK
  <2> QED
    BY <2>1, <2>2, SameGrows, <1>s, UndisturbedKeepsSarInv
<1>13. CASE Crash
  <2>1. /\ \A q \in Requests : pc'[q] = pc[q] \/ pc'[q] = "lost"
        /\ UNCHANGED <<audit, sars, sar, since, verdict>>
    BY <1>13 DEF Crash
  <2>2. \A q \in Requests : Undisturbed(q)
    BY <1>a, <2>1 DEF Undisturbed, InSar, Reported
  <2> QED
    BY <2>1, <2>2, SameGrows, <1>s, UndisturbedKeepsSarInv
<1>14. ASSUME NEW r \in Requests, Override(r) PROVE SarInv'
  <2>1. UNCHANGED <<pc, sars, sar, since, verdict>>
    BY <1>14 DEF Override
  <2>2. /\ Grows
        /\ Len(audit') = Len(audit) \/ Len(audit') = Len(audit) + 1
        /\ \A i \in DOMAIN audit' : i \in DOMAIN audit
                                    \/ audit'[i].event # "sar_generated"
    <3>1. CASE UNCHANGED audit
      BY <3>1, SameGrows
    <3>2. CASE audit' = Append(audit, Entry("human_override", r))
      <4>1. /\ Len(audit') = Len(audit) + 1
            /\ DOMAIN audit' = DOMAIN audit \cup {Len(audit')}
        BY <3>2 DEF TypeOK
      <4>2. Entry("human_override", r).event # "sar_generated"
        BY DEF Entry
      <4> QED
        BY <3>2, <4>1, <4>2, LogGrows
    <3> QED
      BY <1>14, <3>1, <3>2 DEF Override
  <2>3. \A q \in Requests : Undisturbed(q)
    BY <1>a, <1>b, <2>1, <2>2 DEF Undisturbed
  <2> QED
    BY <2>1, <2>2, <2>3, <1>s, UndisturbedKeepsSarInv
<1>15. CASE UNCHANGED vars
  <2>1. UNCHANGED <<pc, audit, sars, sar, since, verdict>>
    BY <1>15 DEF vars
  <2>2. \A q \in Requests : Undisturbed(q)
    BY <1>a, <2>1 DEF Undisturbed
  <2> QED
    BY <2>1, <2>2, SameGrows, <1>s, UndisturbedKeepsSarInv
<1> QED
  BY <1>1, <1>1a, <1>2, <1>3, <1>4, <1>5, <1>6, <1>7, <1>8, <1>9, <1>10, <1>11,
     <1>12, <1>13, <1>14, <1>15 DEF Next, Step

LEMMA SarInvSuffices == SarInv => SarGrounded
BY DEF SarInv, StoredSars, GroundedSars, Grounded, AuditedIsStored,
       SarGrounded

(* A stored report about a known user rests on that user's decisions only; *)
(* none it has to rest on is missing unless it is out of reach of the      *)
(* query; and an audited report is stored: for any number of requests,     *)
(* inquiries and users and any QueryLimit (orchestrator.py:120-139,        *)
(* main.py:301-314, reporting/agent.py:49-165).                            *)
THEOREM SpecSarGrounded == Spec => []SarGrounded
<1>1. Spec => [](TypeOK /\ DupInv /\ EvidenceInv)
  BY SpecTypeOK, SpecDupInv, SpecEvidenceInv, PTL
<1>2. Spec => []SarInv
  BY <1>1, InitSarInv, StepSarInv, PTL DEF Spec
<1> QED
  BY <1>2, SarInvSuffices, PTL

-----------------------------------------------------------------------------
(* The order of the evidence.  While a request is on its way, the steps of *)
(* its trail that are in the log are exactly the first ones, as many as    *)
(* its program counter says; when it has stopped, what is there remains.   *)

Logging ==
  {"new", "check", "persist", "audit_ingestion", "screen", "audit_rules",
   "audit_llm", "audit_decision", "sar_query", "sar_persist", "sar_audit"}

Screening ==
  {"screen", "audit_rules", "audit_llm", "audit_decision", "sar_query",
   "sar_persist", "sar_audit"}

(* How many steps of its full trail a request at a label has logged.       *)
Logged(r) ==
  IF r \in Inquiries \/ pc[r] \in {"new", "check", "persist", "audit_ingestion"}
  THEN 0
  ELSE IF pc[r] \in {"screen", "audit_rules"} THEN 1
  ELSE IF pc[r] = "audit_llm" THEN 2
  ELSE (IF pc[r] = "audit_decision" THEN 2 ELSE 3)
         + (IF verdict[r].llm = NoLlm THEN 0 ELSE 1)

(* The entries T are the first n steps of a full trail.                    *)
FirstSteps(T, full, n) ==
  /\ \A i \in T : \E a \in 1..n : audit[i].event = full[a]
  /\ \A a \in 1..n : \E i \in T : audit[i].event = full[a]

TrailLocals(r) ==
  /\ InOrder(Trail(r), FullTrail(r))
  /\ pc[r] \in Logging => FirstSteps(Trail(r), FullTrail(r), Logged(r))
  /\ pc[r] \in Screening /\ r \notin Inquiries => ~IsDuplicate(r)
  /\ pc[r] = "audit_llm" => verdict[r].llm # NoLlm

TrailInv == \A r \in Requests : TrailLocals(r)

LEMMA InitTrailInv == Init => TrailInv
<1> SUFFICES ASSUME Init, NEW r \in Requests PROVE TrailLocals(r)
  BY DEF TrailInv
<1>1. Trail(r) = {} /\ pc[r] = "new"
  BY DEF Init, Trail
<1> QED
  BY <1>1 DEF TrailLocals, FirstSteps, InOrder, Logged, Screening

(* Most labels are not for inquiries.                                      *)
LEMMA NotInquiry ==
  ASSUME TypeOK, NEW r \in Requests, pc[r] \notin InquiryLabels
  PROVE  r \notin Inquiries
BY DEF TypeOK

(* The steps of a full trail are different events.                         *)
LEMMA FullTrailFacts ==
  ASSUME TypeOK, NEW r \in Requests
  PROVE  /\ \A a, b \in DOMAIN FullTrail(r) :
              FullTrail(r)[a] = FullTrail(r)[b] => a = b
         /\ \A a \in DOMAIN FullTrail(r) : a \in Nat /\ 1..a \subseteq DOMAIN FullTrail(r)
         /\ 1 \in DOMAIN FullTrail(r)
         /\ r \in Inquiries => FullTrail(r)[1] = "sar_generated"
         /\ r \notin Inquiries /\ IsDuplicate(r) =>
              FullTrail(r)[1] = "data_deduplicated"
         /\ r \notin Inquiries /\ ~IsDuplicate(r) =>
              /\ FullTrail(r)[1] = "data_ingested"
              /\ 4 \in DOMAIN FullTrail(r)
              /\ FullTrail(r)[2] = "rule_screening_complete"
              /\ verdict[r].llm = NoLlm =>
                   /\ FullTrail(r)[3] = DECISION_EVENT[Decision(r)]
                   /\ FullTrail(r)[4] = "sar_generated"
              /\ verdict[r].llm # NoLlm =>
                   /\ FullTrail(r)[3] = "llm_analysis_complete"
                   /\ FullTrail(r)[4] = DECISION_EVENT[Decision(r)]
                   /\ 5 \in DOMAIN FullTrail(r)
                   /\ FullTrail(r)[5] = "sar_generated"
<1> DEFINE d == DECISION_EVENT[Decision(r)]
<1>1. d \in {"transaction_approved", "transaction_flagged", "transaction_blocked"}
  BY VerdictTypes DEF DECISION_EVENT, Decisions
<1> HIDE DEF d
<1>2. CASE r \in Inquiries \/ IsDuplicate(r)
  <2>1. \E event \in {"sar_generated", "data_deduplicated"} :
          FullTrail(r) = <<event>>
    BY <1>2 DEF FullTrail
  <2>2. DOMAIN FullTrail(r) = {1}
    BY <2>1
  <2> QED
    BY <1>2, <2>2 DEF FullTrail
<1>3. CASE r \notin Inquiries /\ ~IsDuplicate(r) /\ verdict[r].llm = NoLlm
  <2>1. FullTrail(r) = <<"data_ingested", "rule_screening_complete", d,
                         "sar_generated">>
    BY <1>3 DEF FullTrail, d
  <2>2. DOMAIN FullTrail(r) = 1..4
    BY <2>1
  <2>3. \A a \in 1..4 : a = 1 \/ a = 2 \/ a = 3 \/ a = 4
    OBVIOUS
  <2> QED
    BY <1>1, <1>3, <2>1, <2>2, <2>3 DEF d
<1>4. CASE r \notin Inquiries /\ ~IsDuplicate(r) /\ verdict[r].llm # NoLlm
  <2>1. FullTrail(r) = <<"data_ingested", "rule_screening_complete",
                         "llm_analysis_complete", d, "sar_generated">>
    BY <1>4 DEF FullTrail, d
  <2>2. DOMAIN FullTrail(r) = 1..5
    BY <2>1
  <2>3. \A a \in 1..5 : a = 1 \/ a = 2 \/ a = 3 \/ a = 4 \/ a = 5
    OBVIOUS
  <2> QED
    BY <1>1, <1>4, <2>1, <2>2, <2>3 DEF d
<1> QED
  BY <1>2, <1>3, <1>4

(* What a new entry leaves of the log.                                     *)
LEMMA LogHasNext ==
  ASSUME TypeOK, NEW e, audit' = Append(audit, e)
  PROVE  /\ Len(audit) \in Nat
         /\ DOMAIN audit = 1..Len(audit)
         /\ DOMAIN audit' = 1..(Len(audit) + 1)
         /\ audit'[Len(audit) + 1] = e
         /\ \A i \in 1..Len(audit) : audit'[i] = audit[i]
<1>1. audit \in Seq(EntryType)
  BY DEF TypeOK
<1> QED
  BY <1>1

LEMMA TrailSame ==
  ASSUME UNCHANGED audit
  PROVE  \A q : Trail(q)' = Trail(q) /\ \A i \in Trail(q) : audit'[i] = audit[i]
BY DEF Trail

(* A step that adds nothing to the trail of r and leaves its verdict.      *)
LEMMA TrailStays ==
  ASSUME NEW r \in Requests, TrailLocals(r), Trail(r)' = Trail(r),
         \A i \in Trail(r) : audit'[i] = audit[i],
         dup_of'[r] = dup_of[r], verdict'[r] = verdict[r],
         \/ pc'[r] \notin Logging
         \/ /\ pc[r] \in Logging /\ Logged(r)' = Logged(r)
            /\ pc'[r] \in Screening => pc[r] \in Screening \/ r \in Inquiries
            /\ pc'[r] = "audit_llm" => pc[r] = "audit_llm"
  PROVE  TrailLocals(r)'
<1>1. FullTrail(r)' = FullTrail(r) /\ (IsDuplicate(r)' <=> IsDuplicate(r))
  BY DEF FullTrail, IsDuplicate, Decision
<1>2. InOrder(Trail(r), FullTrail(r))'
  BY <1>1 DEF TrailLocals, InOrder, IsStep
<1>3. \A n : FirstSteps(Trail(r), FullTrail(r), n)
               => FirstSteps(Trail(r), FullTrail(r), n)'
  BY <1>1 DEF FirstSteps
<1>4. "audit_llm" \in Logging /\ Screening \subseteq Logging
  BY DEF Logging, Screening
<1> QED
  BY <1>1, <1>2, <1>3, <1>4 DEF TrailLocals

(* The next step of the trail is logged.                                   *)
LEMMA NextStepInOrder ==
  ASSUME TypeOK, NEW r \in Requests, NEW e, audit' = Append(audit, e),
         e.rec = r, e.event # "human_override",
         dup_of'[r] = dup_of[r], verdict'[r] = verdict[r],
         InOrder(Trail(r), FullTrail(r)),
         NEW n \in Nat, n + 1 \in DOMAIN FullTrail(r),
         FirstSteps(Trail(r), FullTrail(r), n),
         e.event = FullTrail(r)[n + 1]
  PROVE  /\ InOrder(Trail(r), FullTrail(r))'
         /\ FirstSteps(Trail(r), FullTrail(r), n + 1)'
         /\ FullTrail(r)' = FullTrail(r)
         /\ IsDuplicate(r)' <=> IsDuplicate(r)
<1>1. FullTrail(r)' = FullTrail(r) /\ (IsDuplicate(r)' <=> IsDuplicate(r))
  BY DEF FullTrail, IsDuplicate, Decision
<1>2. PICK full, T, new, l, k :
        full = FullTrail(r) /\ T = Trail(r) /\ new = Len(audit) + 1
        /\ l = audit /\ k = audit'
  OBVIOUS
<1>3. /\ new \in Nat /\ k[new] = e /\ Trail(r)' = T \cup {new}
      /\ T \in SUBSET Nat
      /\ \A i \in T : i < new /\ k[i] = l[i]
  <2>1. /\ Len(audit) \in Nat
        /\ DOMAIN audit = 1..Len(audit)
        /\ DOMAIN audit' = 1..(Len(audit) + 1)
        /\ audit'[Len(audit) + 1] = e
        /\ \A i \in 1..Len(audit) : audit'[i] = audit[i]
    BY LogHasNext
  <2>2. Trail(r)' = Trail(r) \cup {Len(audit) + 1}
    BY <2>1 DEF Trail
  <2>3. \A i \in Trail(r) : i \in Nat /\ i < Len(audit) + 1 /\ audit'[i] = audit[i]
    BY <2>1 DEF Trail
  <2>4. k[new] = e /\ new \in Nat
    BY <1>2, <2>1
  <2>5. \A i \in T : i \in Nat /\ i < new /\ k[i] = l[i]
    BY <1>2, <2>3
  <2> QED
    BY <1>2, <2>2, <2>4, <2>5
<1>4. /\ n + 1 \in DOMAIN full /\ k[new].event = full[n + 1]
      /\ \A a, b \in DOMAIN full : full[a] = full[b] => a = b
      /\ \A a \in DOMAIN full : a \in Nat /\ 1..a \subseteq DOMAIN full
  BY <1>2, <1>3, FullTrailFacts
<1>5. /\ \A i \in T : \E a \in 1..n : l[i].event = full[a]
      /\ \A a \in 1..n : \E i \in T : l[i].event = full[a]
  BY <1>2 DEF FirstSteps
<1>6. \A j \in T : l[j].event # full[n + 1]
  <2> SUFFICES ASSUME NEW j \in T, l[j].event = full[n + 1] PROVE FALSE
    OBVIOUS
  <2>1. PICK a \in 1..n : l[j].event = full[a]
    BY <1>5
  <2>2. a \in DOMAIN full /\ a # n + 1
    <3>1. 1..(n + 1) \subseteq DOMAIN full
      BY <1>4
    <3> QED
      BY <3>1
  <2> QED
    BY <1>4, <2>1, <2>2
<1>7. ASSUME NEW i \in T \cup {new}
      PROVE  \E s \in DOMAIN full :
               /\ k[i].event = full[s]
               /\ \A j \in (T \cup {new}) \ {i} : k[j].event # full[s]
               /\ \A a \in 1..(s - 1) :
                    \E j \in T \cup {new} : j < i /\ k[j].event = full[a]
  <2>1. CASE i = new
    <3>1. \A j \in (T \cup {new}) \ {i} : k[j].event # full[n + 1]
      BY ONLY <1>3, <1>6, <2>1
    <3>2. (n + 1) - 1 = n
      OBVIOUS
    <3>3. \A a \in 1..n : \E j \in T \cup {new} : j < i /\ k[j].event = full[a]
      BY ONLY <1>3, <1>5, <2>1
    <3> QED
      BY ONLY <1>4, <2>1, <3>1, <3>2, <3>3
  <2>2. CASE i \in T
    <3>1. PICK s \in DOMAIN full :
            /\ l[i].event = full[s]
            /\ \A j \in T \ {i} : l[j].event # full[s]
            /\ \A a \in 1..(s - 1) : \E j \in T : j < i /\ l[j].event = full[a]
      BY <1>2, <2>2 DEF InOrder, IsStep
    <3>2. k[new].event # full[s]
      BY ONLY <1>4, <1>6, <2>2, <3>1
    <3>3. \A j \in (T \cup {new}) \ {i} : k[j].event # full[s]
      BY ONLY <1>3, <2>2, <3>1, <3>2
    <3>4. \A a \in 1..(s - 1) :
            \E j \in T \cup {new} : j < i /\ k[j].event = full[a]
      BY ONLY <1>3, <3>1
    <3>5. k[i].event = full[s]
      BY ONLY <1>3, <2>2, <3>1
    <3> QED
      BY ONLY <3>1, <3>3, <3>4, <3>5
  <2> QED
    BY ONLY <1>7, <2>1, <2>2
<1>8. InOrder(Trail(r), FullTrail(r))'
  <2>1. FullTrail(r)' = full /\ Trail(r)' = T \cup {new} /\ audit' = k
    BY <1>1, <1>2, <1>3
  <2> QED
    BY ONLY <1>7, <2>1 DEF InOrder, IsStep
<1>9. FirstSteps(Trail(r), FullTrail(r), n + 1)'
  <2>1. FullTrail(r)' = full /\ Trail(r)' = T \cup {new} /\ audit' = k
    BY <1>1, <1>2, <1>3
  <2>2. 1..(n + 1) = 1..n \cup {n + 1}
    OBVIOUS
  <2>3. ASSUME NEW i \in T \cup {new}
        PROVE  \E a \in 1..n \cup {n + 1} : k[i].event = full[a]
    <3>1. CASE i = new
      BY ONLY <1>4, <3>1
    <3>2. CASE i \in T
      BY ONLY <1>3, <1>5, <3>2
    <3> QED
      BY ONLY <2>3, <3>1, <3>2
  <2>4. ASSUME NEW a \in 1..n \cup {n + 1}
        PROVE  \E i \in T \cup {new} : k[i].event = full[a]
    BY ONLY <1>3, <1>4, <1>5, <2>4, Zenon
  <2> QED
    BY ONLY <2>1, <2>2, <2>3, <2>4 DEF FirstSteps
<1> QED
  BY <1>1, <1>8, <1>9

(* A request that a step of another one leaves alone, or that stops.       *)
LEMMA OthersStay ==
  ASSUME NEW q \in Requests, TrailLocals(q), Trail(q)' = Trail(q),
         \A i \in Trail(q) : audit'[i] = audit[i],
         dup_of'[q] = dup_of[q], verdict'[q] = verdict[q],
         pc'[q] = pc[q] \/ pc'[q] \notin Logging
  PROVE  TrailLocals(q)'
<1>1. CASE pc'[q] \notin Logging
  BY <1>1, TrailStays
<1>2. CASE pc'[q] = pc[q] /\ pc[q] \in Logging
  <2>1. Logged(q)' = Logged(q)
    BY <1>2 DEF Logged
  <2> QED
    BY <1>2, <2>1, TrailStays
<1> QED
  BY <1>1, <1>2

LEMMA LoggedFacts ==
  ASSUME NEW r, r \notin Inquiries
  PROVE  /\ Logged(r) \in Nat
         /\ pc[r] = "audit_ingestion" => Logged(r) = 0
         /\ pc[r] \in {"screen", "audit_rules"} => Logged(r) = 1
         /\ pc[r] = "audit_llm" => Logged(r) = 2
         /\ verdict[r].llm = NoLlm =>
              /\ pc[r] = "audit_decision" => Logged(r) = 2
              /\ pc[r] \in {"sar_query", "sar_persist", "sar_audit"} => Logged(r) = 3
         /\ verdict[r].llm # NoLlm =>
              /\ pc[r] = "audit_decision" => Logged(r) = 3
              /\ pc[r] \in {"sar_query", "sar_persist", "sar_audit"} => Logged(r) = 4
BY DEF Logged

(* A request logs the next step of its trail.                              *)
LEMMA LogStep ==
  ASSUME TypeOK, TrailInv, NEW r \in Requests, pc[r] \in Logging,
         NEW e, Log(e), e.rec = r, e.event # "human_override",
         NEW label, Goto(r, label),
         Logged(r) + 1 \in DOMAIN FullTrail(r),
         e.event = FullTrail(r)[Logged(r) + 1],
         label \in Logging => Logged(r)' = Logged(r) + 1,
         label \in Screening /\ r \notin Inquiries => ~IsDuplicate(r),
         label = "audit_llm" => verdict[r].llm # NoLlm
  PROVE  TrailInv'
<1>1. /\ audit' = Append(audit, e) /\ UNCHANGED <<dup_of, verdict>>
      /\ pc'[r] = label /\ \A q \in Requests \ {r} : pc'[q] = pc[q]
  BY DEF Log, Goto, locals, TypeOK
<1>2. ASSUME NEW q \in Requests, q # r PROVE TrailLocals(q)'
  <2>1. /\ Trail(q)' = Trail(q)
        /\ \A i \in Trail(q) : audit'[i] = audit[i]
    <3>1. /\ Len(audit) \in Nat
          /\ DOMAIN audit = 1..Len(audit)
          /\ DOMAIN audit' = 1..(Len(audit) + 1)
          /\ audit'[Len(audit) + 1] = e
          /\ \A i \in 1..Len(audit) : audit'[i] = audit[i]
      BY <1>1, LogHasNext
    <3> QED
      BY <1>2, <3>1 DEF Trail
  <2> QED
    BY <1>1, <1>2, <2>1, OthersStay DEF TrailInv
<1>3. TrailLocals(r)'
  <2>1. PICK n \in Nat : n = Logged(r)
    BY LoggedFacts DEF Logged
  <2>2. /\ InOrder(Trail(r), FullTrail(r))
        /\ FirstSteps(Trail(r), FullTrail(r), n)
    BY <2>1 DEF TrailInv, TrailLocals
  <2>3. /\ InOrder(Trail(r), FullTrail(r))'
        /\ FirstSteps(Trail(r), FullTrail(r), n + 1)'
        /\ FullTrail(r)' = FullTrail(r)
        /\ IsDuplicate(r)' <=> IsDuplicate(r)
    BY <1>1, <2>1, <2>2, NextStepInOrder
  <2>4. label \in Logging => FirstSteps(Trail(r), FullTrail(r), Logged(r))'
    <3> SUFFICES ASSUME label \in Logging
                 PROVE  FirstSteps(Trail(r), FullTrail(r), Logged(r))'
      OBVIOUS
    <3>1. Logged(r)' = n + 1
      BY <2>1
    <3> QED
      BY <2>3, <3>1 DEF FirstSteps
  <2> QED
    BY <1>1, <2>3, <2>4 DEF TrailLocals
<1> QED
  BY <1>2, <1>3 DEF TrailInv

(* A request moves on without an entry.                                    *)
LEMMA QuietStep ==
  ASSUME TypeOK, TrailInv, NEW r \in Requests,
         UNCHANGED <<audit, dup_of, verdict>>,
         NEW label, Goto(r, label),
         label \in Logging =>
           /\ pc[r] \in Logging /\ Logged(r)' = Logged(r)
           /\ label \in Screening => pc[r] \in Screening \/ r \in Inquiries
           /\ label # "audit_llm"
  PROVE  TrailInv'
<1>1. pc'[r] = label /\ \A q \in Requests \ {r} : pc'[q] = pc[q]
  BY DEF Goto, TypeOK
<1>2. \A q \in Requests : /\ Trail(q)' = Trail(q)
                          /\ \A i \in Trail(q) : audit'[i] = audit[i]
  BY TrailSame
<1>3. ASSUME NEW q \in Requests, q # r PROVE TrailLocals(q)'
  BY <1>1, <1>2, <1>3, OthersStay DEF TrailInv
<1>4. "audit_llm" \in Logging
  BY DEF Logging
<1>5. TrailLocals(r)'
  BY <1>1, <1>2, <1>4, TrailStays DEF TrailInv
<1> QED
  BY <1>3, <1>5 DEF TrailInv

LEMMA CheckKeepsTrailInv ==
  ASSUME TypeOK, TrailInv, NEW r \in Requests, CheckDuplicate(r)
  PROVE  TrailInv'
<1>1. /\ pc[r] = "check" /\ pc' = [pc EXCEPT ![r] = "persist"]
      /\ \A q \in Requests \ {r} : dup_of'[q] = dup_of[q]
      /\ UNCHANGED <<audit, verdict>>
  BY DEF CheckDuplicate, Goto, tables, TypeOK
<1>2. pc'[r] = "persist" /\ \A q \in Requests \ {r} : pc'[q] = pc[q]
  BY <1>1 DEF TypeOK
<1>3. \A q \in Requests : /\ Trail(q)' = Trail(q)
                          /\ \A i \in Trail(q) : audit'[i] = audit[i]
  BY <1>1, TrailSame
<1>4. ASSUME NEW q \in Requests, q # r PROVE TrailLocals(q)'
  BY <1>1, <1>2, <1>3, <1>4, OthersStay DEF TrailInv
<1>5. Trail(r) = {}
  <2>1. Logged(r) = 0 /\ pc[r] \in Logging
    BY <1>1 DEF Logged, Logging
  <2>2. FirstSteps(Trail(r), FullTrail(r), 0)
    BY <2>1 DEF TrailInv, TrailLocals
  <2> QED
    BY <2>2 DEF FirstSteps
<1>6. TrailLocals(r)'
  <2>1. Trail(r)' = {} /\ Logged(r)' = 0
    BY <1>2, <1>3, <1>5 DEF Logged
  <2> QED
    BY <1>2, <2>1 DEF TrailLocals, InOrder, FirstSteps, Screening
<1> QED
  BY <1>4, <1>6 DEF TrailInv

(* The verdict decides on the rest of the trail only.                      *)
LEMMA ScreenKeepsTrailInv ==
  ASSUME TypeOK, TypeOK', TrailInv, NEW r \in Requests, Screen(r)
  PROVE  TrailInv'
<1>1. /\ pc[r] = "screen" /\ pc' = [pc EXCEPT ![r] = "audit_rules"]
      /\ \A q \in Requests \ {r} : verdict'[q] = verdict[q]
      /\ UNCHANGED <<audit, dup_of>>
  BY DEF Screen, Goto, TypeOK
<1>2. pc'[r] = "audit_rules" /\ \A q \in Requests \ {r} : pc'[q] = pc[q]
  BY <1>1 DEF TypeOK
<1>3. \A q \in Requests : /\ Trail(q)' = Trail(q)
                          /\ \A i \in Trail(q) : audit'[i] = audit[i]
  BY <1>1, TrailSame
<1>4. ASSUME NEW q \in Requests, q # r PROVE TrailLocals(q)'
  BY <1>1, <1>2, <1>3, <1>4, OthersStay DEF TrailInv
<1>0. r \notin Inquiries
  BY <1>1, NotInquiry DEF InquiryLabels
<1>5. /\ ~IsDuplicate(r) /\ FirstSteps(Trail(r), FullTrail(r), 1)
      /\ InOrder(Trail(r), FullTrail(r))
  <2>1. Logged(r) = 1 /\ pc[r] \in Logging /\ pc[r] \in Screening
    BY <1>0, <1>1 DEF Logged, Logging, Screening
  <2> QED
    BY <1>0, <2>1 DEF TrailInv, TrailLocals
<1>6. ~IsDuplicate(r)' /\ Logged(r)' = 1
  BY <1>0, <1>1, <1>2, <1>5 DEF IsDuplicate, Logged
<1>7. /\ 1 \in DOMAIN FullTrail(r) /\ FullTrail(r)[1] = "data_ingested"
      /\ \A a \in DOMAIN FullTrail(r) : FullTrail(r)[a] = FullTrail(r)[1] => a = 1
  BY <1>0, <1>5, FullTrailFacts
<1>8. 1 \in DOMAIN FullTrail(r)' /\ FullTrail(r)'[1] = "data_ingested"
  BY <1>0, <1>6 DEF FullTrail
<1>9. /\ \A i \in Trail(r) : audit[i].event = "data_ingested"
      /\ \A i \in Trail(r) : \A j \in Trail(r) \ {i} : FALSE
  <2>1. \A i \in Trail(r) : audit[i].event = FullTrail(r)[1]
    BY <1>5 DEF FirstSteps
  <2>2. ASSUME NEW i \in Trail(r), NEW j \in Trail(r) \ {i} PROVE FALSE
    <3>1. PICK k \in DOMAIN FullTrail(r) :
            /\ audit[i].event = FullTrail(r)[k]
            /\ audit[j].event # FullTrail(r)[k]
      BY <1>5 DEF InOrder, IsStep
    <3> QED
      BY <2>1, <3>1
  <2> QED
    BY <1>7, <2>1, <2>2
<1>10. InOrder(Trail(r), FullTrail(r))'
  <2>1. ASSUME NEW i \in Trail(r)
        PROVE  /\ audit'[i].event = FullTrail(r)'[1]
               /\ \A j \in Trail(r) \ {i} : FALSE
    BY <1>3, <1>8, <1>9
  <2>2. 1..(1 - 1) = {}
    OBVIOUS
  <2> QED
    BY <1>3, <1>8, <2>1, <2>2 DEF InOrder, IsStep
<1>11. FirstSteps(Trail(r), FullTrail(r), 1)'
  <2>1. \E i \in Trail(r) : TRUE
    BY <1>5 DEF FirstSteps
  <2>2. \A a : a \in 1..1 <=> a = 1
    OBVIOUS
  <2> QED
    BY <1>3, <1>8, <1>9, <2>1, <2>2 DEF FirstSteps
<1>12. TrailLocals(r)'
  BY <1>2, <1>6, <1>10, <1>11 DEF TrailLocals, FirstSteps
<1> QED
  BY <1>4, <1>12 DEF TrailInv

LEMMA AuditIngestionKeepsTrailInv ==
  ASSUME TypeOK, TrailInv, NEW r \in Requests, AuditIngestion(r)
  PROVE  TrailInv'
<1> DEFINE e == Entry(IF IsDuplicate(r) THEN "data_deduplicated"
                                        ELSE "data_ingested", r)
           label == IF IsDuplicate(r) \/ r \in Ingests THEN "respond"
                                                      ELSE "screen"
<1>1. /\ pc[r] = "audit_ingestion" /\ Log(e) /\ Goto(r, label)
      /\ pc[r] \in Logging
  BY DEF AuditIngestion, Logging
<1>0. r \notin Inquiries
  BY <1>1, NotInquiry DEF InquiryLabels
<1>2. /\ e.rec = r /\ e.event = FullTrail(r)[1] /\ e.event # "human_override"
      /\ 1 \in DOMAIN FullTrail(r)
  BY <1>0, FullTrailFacts DEF Entry
<1>3. Logged(r) = 0
  BY <1>0, <1>1, LoggedFacts
<1>4. /\ label \in Logging => ~IsDuplicate(r) /\ label = "screen"
      /\ label # "audit_llm" /\ (label \in Screening => ~IsDuplicate(r))
  BY DEF Logging, Screening
<1> HIDE DEF e, label
<1>5. pc'[r] = label
  BY <1>1 DEF Goto, TypeOK
<1>6. label \in Logging => Logged(r)' = 1
  BY <1>0, <1>4, <1>5 DEF Logged
<1>7. Logged(r) + 1 = 1
  BY <1>3
<1> QED
  BY <1>1, <1>2, <1>3, <1>4, <1>6, <1>7, LogStep

LEMMA AuditRulesKeepsTrailInv ==
  ASSUME TypeOK, TrailInv, NEW r \in Requests, AuditRules(r)
  PROVE  TrailInv'
<1> DEFINE e == [Entry("rule_screening_complete", r)
                   EXCEPT !.decision = Decision(r)]
           label == IF verdict[r].llm # NoLlm THEN "audit_llm"
                                              ELSE "audit_decision"
<1>1. /\ pc[r] = "audit_rules" /\ Log(e) /\ Goto(r, label)
      /\ pc[r] \in Logging /\ pc[r] \in Screening
  BY DEF AuditRules, Logging, Screening
<1>0. r \notin Inquiries
  BY <1>1, NotInquiry DEF InquiryLabels
<1>2. ~IsDuplicate(r) /\ Logged(r) = 1
  BY <1>0, <1>1, LoggedFacts DEF TrailInv, TrailLocals
<1>3. /\ e.rec = r /\ e.event = "rule_screening_complete"
  BY DEF Entry
<1>4. FullTrail(r)[2] = "rule_screening_complete" /\ 2 \in DOMAIN FullTrail(r)
  <2>1. 2 \in 1..4
    OBVIOUS
  <2> QED
    BY <1>0, <1>2, <2>1, FullTrailFacts
<1>5. /\ label = "audit_llm" => verdict[r].llm # NoLlm
      /\ label = "audit_decision" => verdict[r].llm = NoLlm
      /\ label \in {"audit_llm", "audit_decision"}
  OBVIOUS
<1> HIDE DEF e, label
<1>6. pc'[r] = label /\ verdict'[r] = verdict[r]
  BY <1>1 DEF Goto, Log, locals, TypeOK
<1>7. Logged(r)' = 2 /\ Logged(r) + 1 = 2
  BY <1>0, <1>2, <1>5, <1>6 DEF Logged
<1> QED
  BY <1>1, <1>2, <1>3, <1>4, <1>5, <1>7, LogStep

LEMMA AuditLlmKeepsTrailInv ==
  ASSUME TypeOK, TrailInv, NEW r \in Requests, AuditLlm(r)
  PROVE  TrailInv'
<1> DEFINE e == Entry("llm_analysis_complete", r)
<1>1. /\ pc[r] = "audit_llm" /\ Log(e) /\ Goto(r, "audit_decision")
      /\ pc[r] \in Logging /\ pc[r] \in Screening
  BY DEF AuditLlm, Logging, Screening
<1>0. r \notin Inquiries
  BY <1>1, NotInquiry DEF InquiryLabels
<1>2. ~IsDuplicate(r) /\ Logged(r) = 2 /\ verdict[r].llm # NoLlm
  BY <1>0, <1>1, LoggedFacts DEF TrailInv, TrailLocals
<1>3. e.rec = r /\ e.event = "llm_analysis_complete"
  BY DEF Entry
<1>4. FullTrail(r)[3] = "llm_analysis_complete" /\ 3 \in DOMAIN FullTrail(r)
  <2>1. 3 \in 1..4
    OBVIOUS
  <2> QED
    BY <1>0, <1>2, <2>1, FullTrailFacts
<1> HIDE DEF e
<1>5. pc'[r] = "audit_decision" /\ verdict'[r] = verdict[r]
  BY <1>1 DEF Goto, Log, locals, TypeOK
<1>6. Logged(r)' = 3 /\ Logged(r) + 1 = 3
  BY <1>0, <1>2, <1>5 DEF Logged
<1> QED
  BY <1>1, <1>2, <1>3, <1>4, <1>6, LogStep

LEMMA AuditDecisionKeepsTrailInv ==
  ASSUME TypeOK, TrailInv, NEW r \in Requests, AuditDecision(r)
  PROVE  TrailInv'
<1> DEFINE label == IF Risk(r) \in {"high", "critical"} THEN "sar_query"
                                                        ELSE "respond"
<1>1. /\ pc[r] = "audit_decision" /\ Log(DecisionEntry(r)) /\ Goto(r, label)
      /\ pc[r] \in Logging /\ pc[r] \in Screening
  BY DEF AuditDecision, Logging, Screening
<1>0. r \notin Inquiries
  BY <1>1, NotInquiry DEF InquiryLabels
<1>2. ~IsDuplicate(r)
  BY <1>0, <1>1 DEF TrailInv, TrailLocals
<1>3. /\ DecisionEntry(r).rec = r
      /\ DecisionEntry(r).event = DECISION_EVENT[Decision(r)]
      /\ DecisionEntry(r).event # "human_override"
  <2>1. Decision(r) \in Decisions
    BY VerdictTypes
  <2>2. \A d \in Decisions : DECISION_EVENT[d] # "human_override"
    BY DEF DECISION_EVENT, Decisions
  <2> QED
    BY <2>1, <2>2 DEF DecisionEntry
<1>4. label \in {"sar_query", "respond"}
  OBVIOUS
<1> HIDE DEF label
<1>5. pc'[r] = label /\ verdict'[r] = verdict[r]
  BY <1>1 DEF Goto, Log, locals, TypeOK
<1>6. CASE verdict[r].llm = NoLlm
  <2>1. Logged(r) = 2 /\ Logged(r) + 1 = 3
    BY <1>0, <1>1, <1>6, LoggedFacts
  <2>2. FullTrail(r)[3] = DECISION_EVENT[Decision(r)] /\ 3 \in DOMAIN FullTrail(r)
    <3>1. 3 \in 1..4
      OBVIOUS
    <3> QED
      BY <1>0, <1>2, <1>6, <3>1, FullTrailFacts
  <2>3. label \in Logging => Logged(r)' = 3
    BY <1>0, <1>4, <1>5, <1>6 DEF Logged, Logging
  <2> QED
    BY <1>1, <1>2, <1>3, <1>4, <2>1, <2>2, <2>3, LogStep
<1>7. CASE verdict[r].llm # NoLlm
  <2>1. Logged(r) = 3 /\ Logged(r) + 1 = 4
    BY <1>0, <1>1, <1>7, LoggedFacts
  <2>2. FullTrail(r)[4] = DECISION_EVENT[Decision(r)] /\ 4 \in DOMAIN FullTrail(r)
    BY <1>0, <1>2, <1>7, FullTrailFacts
  <2>3. label \in Logging => Logged(r)' = 4
    BY <1>0, <1>4, <1>5, <1>7 DEF Logged, Logging
  <2> QED
    BY <1>1, <1>2, <1>3, <1>4, <2>1, <2>2, <2>3, LogStep
<1> QED
  BY <1>6, <1>7

LEMMA SarAuditKeepsTrailInv ==
  ASSUME TypeOK, TrailInv, NEW r \in Requests, SarAudit(r)
  PROVE  TrailInv'
<1> DEFINE e == Entry("sar_generated", r)
<1>1. /\ pc[r] = "sar_audit" /\ Log(e) /\ Goto(r, "respond")
      /\ pc[r] \in Logging /\ pc[r] \in Screening
  BY DEF SarAudit, Logging, Screening
<1>2. r \notin Inquiries => ~IsDuplicate(r)
  BY <1>1 DEF TrailInv, TrailLocals
<1>3. e.rec = r /\ e.event = "sar_generated"
  BY DEF Entry
<1> HIDE DEF e
<1>4. "respond" \notin Logging /\ "respond" \notin Screening
  BY DEF Logging, Screening
<1>0. CASE r \in Inquiries
  <2>1. Logged(r) + 1 = 1
    BY <1>0 DEF Logged
  <2>2. FullTrail(r)[1] = "sar_generated" /\ 1 \in DOMAIN FullTrail(r)
    BY <1>0, FullTrailFacts
  <2> QED
    BY <1>1, <1>3, <1>4, <2>1, <2>2, LogStep
<1>5. CASE r \notin Inquiries /\ verdict[r].llm = NoLlm
  <2>1. Logged(r) + 1 = 4
    BY <1>1, <1>5, LoggedFacts
  <2>2. FullTrail(r)[4] = "sar_generated" /\ 4 \in DOMAIN FullTrail(r)
    BY <1>2, <1>5, FullTrailFacts
  <2> QED
    BY <1>1, <1>3, <1>4, <2>1, <2>2, LogStep
<1>6. CASE r \notin Inquiries /\ verdict[r].llm # NoLlm
  <2>1. Logged(r) + 1 = 5
    BY <1>1, <1>6, LoggedFacts
  <2>2. FullTrail(r)[5] = "sar_generated" /\ 5 \in DOMAIN FullTrail(r)
    BY <1>2, <1>6, FullTrailFacts
  <2> QED
    BY <1>1, <1>3, <1>4, <2>1, <2>2, LogStep
<1> QED
  BY <1>0, <1>5, <1>6

LEMMA StepTrailInv ==
  TypeOK /\ TypeOK' /\ TrailInv /\ [Next]_vars => TrailInv'
<1> SUFFICES ASSUME TypeOK, TypeOK', TrailInv, [Next]_vars PROVE TrailInv'
  OBVIOUS
<1> USE DEF tables, locals
<1>1. ASSUME NEW r \in Requests, Receive(r) PROVE TrailInv'
  <2>1. /\ pc[r] = "new" /\ Goto(r, "check")
        /\ UNCHANGED <<audit, dup_of, verdict>>
    BY <1>1 DEF Receive, Arrive
  <2>2. Logged(r)' = Logged(r)
    BY <2>1 DEF Goto, Logged, TypeOK
  <2> QED
    BY <2>1, <2>2, QuietStep DEF Logging, Screening
<1>1a. ASSUME NEW r \in Requests, ReceiveInquiry(r) PROVE TrailInv'
  <2>1. /\ pc[r] = "new" /\ Goto(r, "sar_query") /\ r \in Inquiries
        /\ UNCHANGED <<audit, dup_of, verdict>>
    BY <1>1a DEF ReceiveInquiry, Arrive
  <2>2. Logged(r)' = Logged(r)
    BY <2>1 DEF Logged
  <2> QED
    BY <2>1, <2>2, QuietStep DEF Logging
<1>2. ASSUME NEW r \in Requests, CheckDuplicate(r) PROVE TrailInv'
  BY <1>2, CheckKeepsTrailInv
<1>3. ASSUME NEW r \in Requests, PersistRecord(r) PROVE TrailInv'
  <2>1. /\ pc[r] = "persist" /\ Goto(r, "audit_ingestion")
        /\ UNCHANGED <<audit, dup_of, verdict>>
    BY <1>3 DEF PersistRecord
  <2>2. Logged(r)' = Logged(r)
    BY <2>1 DEF Goto, Logged, TypeOK
  <2> QED
    BY <2>1, <2>2, QuietStep DEF Logging, Screening
<1>4. ASSUME NEW r \in Requests, AuditIngestion(r) PROVE TrailInv'
  BY <1>4, AuditIngestionKeepsTrailInv
<1>5. ASSUME NEW r \in Requests, Screen(r) PROVE TrailInv'
  BY <1>5, ScreenKeepsTrailInv
<1>6. ASSUME NEW r \in Requests, AuditRules(r) PROVE TrailInv'
  BY <1>6, AuditRulesKeepsTrailInv
<1>7. ASSUME NEW r \in Requests, AuditLlm(r) PROVE TrailInv'
  BY <1>7, AuditLlmKeepsTrailInv
<1>8. ASSUME NEW r \in Requests, AuditDecision(r) PROVE TrailInv'
  BY <1>8, AuditDecisionKeepsTrailInv
<1>9. ASSUME NEW r \in Requests, SarQuery(r) \/ SarPersist(r) PROVE TrailInv'
  <2>1. /\ UNCHANGED <<audit, dup_of, verdict>>
        /\ pc[r] \in {"sar_query", "sar_persist"}
        /\ \E label \in {"sar_persist", "sar_audit"} : Goto(r, label)
    BY <1>9 DEF SarQuery, SarPersist
  <2>2. Logged(r)' = Logged(r)
    BY <2>1 DEF Goto, Logged, TypeOK
  <2> QED
    BY <2>1, <2>2, QuietStep DEF Logging, Screening
<1>10. ASSUME NEW r \in Requests, SarAudit(r) PROVE TrailInv'
  BY <1>10, SarAuditKeepsTrailInv
<1>11. ASSUME NEW r \in Requests, SarFail(r) \/ Respond(r) \/ Fail(r)
       PROVE  TrailInv'
  <2>1. /\ UNCHANGED <<audit, dup_of, verdict>>
        /\ \E label \in {"respond", "answered", "failed"} : Goto(r, label)
    BY <1>11 DEF SarFail, Respond, Fail
  <2> QED
    BY <2>1, QuietStep DEF Logging
<1>12. CASE Crash
  <2>1. /\ \A q \in Requests : pc'[q] = pc[q] \/ pc'[q] = "lost"
        /\ UNCHANGED <<audit, dup_of, verdict>>
    BY <1>12 DEF Crash
  <2>2. "lost" \notin Logging
    BY DEF Logging
  <2> QED
    BY <2>1, <2>2, TrailSame, OthersStay DEF TrailInv
<1>13. ASSUME NEW r \in Requests, Override(r) PROVE TrailInv'
  <2>1. UNCHANGED <<pc, dup_of, verdict>>
    BY <1>13 DEF Override
  <2>2. \A q \in Requests : /\ Trail(q)' = Trail(q)
                            /\ \A i \in Trail(q) : audit'[i] = audit[i]
    <3>1. CASE UNCHANGED audit
      BY <3>1, TrailSame
    <3>2. CASE audit' = Append(audit, Entry("human_override", r))
      <4>1. Entry("human_override", r).event = "human_override"
        BY DEF Entry
      <4>2. /\ Len(audit) \in Nat
            /\ DOMAIN audit = 1..Len(audit)
            /\ DOMAIN audit' = 1..(Len(audit) + 1)
            /\ audit'[Len(audit) + 1] = Entry("human_override", r)
            /\ \A i \in 1..Len(audit) : audit'[i] = audit[i]
        BY <3>2, LogHasNext
      <4> QED
        BY <4>1, <4>2 DEF Trail
    <3> QED
      BY <1>13, <3>1, <3>2 DEF Override
  <2> QED
    BY <2>1, <2>2, OthersStay DEF TrailInv
<1>14. CASE UNCHANGED vars
  <2>1. UNCHANGED <<pc, audit, dup_of, verdict>>
    BY <1>14 DEF vars
  <2> QED
    BY <2>1, TrailSame, OthersStay DEF TrailInv
<1> QED
  BY <1>1, <1>1a, <1>2, <1>3, <1>4, <1>5, <1>6, <1>7, <1>8, <1>9, <1>10, <1>11,
     <1>12, <1>13, <1>14 DEF Next, Step

(* The trail of every record grows in the order of the pipeline, each step *)
(* once, whatever fails or crashes and however many requests interleave    *)
(* (orchestrator.py:85-118, audit_trail/agent.py:104-160).                 *)
THEOREM SpecEvidenceOrder == Spec => []EvidenceOrder
<1>1. Spec => []TypeOK
  BY SpecTypeOK
<1>2. Spec => []TrailInv
  BY <1>1, InitTrailInv, StepTrailInv, PTL DEF Spec
<1>3. TrailInv => EvidenceOrder
  BY DEF TrailInv, TrailLocals, EvidenceOrder
<1> QED
  BY <1>2, <1>3, PTL

=============================================================================
