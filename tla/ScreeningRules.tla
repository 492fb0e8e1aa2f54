---------------------------- MODULE ScreeningRules ----------------------------
(***************************************************************************)
(* How the verdicts of the screening rules and of the language model are   *)
(* combined: RuleEngine.aggregate_decision (screening/rules.py), the       *)
(* cascade of model providers and ScreeningAgent._aggregate_final          *)
(* (screening/agent.py).  Pure operators.                                  *)
(***************************************************************************)
EXTENDS Naturals

CONSTANT NoLlm     \* llm_analysis is None: no provider was called or answered

Decisions == {"pass", "flag", "block"}
Risks     == {"low", "medium", "high", "critical"}

(* The model value NoLlm is none of the risks a provider may return.       *)
ASSUME NoLlmAssumption == NoLlm \notin Risks

(* The order of severity of the decisions, for the properties.             *)
Severity == [pass |-> 0, flag |-> 1, block |-> 2]

-----------------------------------------------------------------------------
aggregate_decision(results) ==
  IF "block" \in results THEN "block"
  ELSE IF "flag" \in results THEN "flag" ELSE "pass"

RULE_DECISION_TO_RISK == [pass |-> "low", flag |-> "medium", block |-> "high"]

(* One provider: an exception, an answer that is no JSON or one that names *)
(* no risk are all None.                                                   *)
_call_provider(reply) == IF reply \in Risks THEN reply ELSE NoLlm

(* The first of the providers that answers.                                *)
_run_llm_cascade(replies) ==
  LET answered == {i \in DOMAIN replies : _call_provider(replies[i]) # NoLlm}
  IN  IF answered = {} THEN NoLlm
      ELSE _call_provider(
             replies[CHOOSE i \in answered : \A j \in answered : i <= j])

RISK_ORDER == [low |-> 0, medium |-> 1, high |-> 2, critical |-> 3]

RISK_TO_DEC ==
  [low |-> "pass", medium |-> "flag", high |-> "block", critical |-> "block"]

HigherRisk(a, b) == IF RISK_ORDER[a] >= RISK_ORDER[b] THEN a ELSE b

(* Variant of final_risk: the model's risk replaces the one of the rules.  *)
final_risk_ModelWins(rule, llm) ==
  IF llm = NoLlm THEN RULE_DECISION_TO_RISK[rule] ELSE llm

(* A blocking rule keeps the risk at least high.                           *)
final_risk(rule, llm) ==
  IF llm = NoLlm
  THEN RULE_DECISION_TO_RISK[rule]
  ELSE HigherRisk(llm, RULE_DECISION_TO_RISK[rule])

final_decision(rule, llm) ==
  IF llm = NoLlm \/ rule = "block"
  THEN rule
  ELSE RISK_TO_DEC[final_risk(rule, llm)]

-----------------------------------------------------------------------------
(* The verdict of the rules and of the model never lowers the rules' own:  *)
(* "Escalation-only: LLM can upgrade risk, never downgrade a rule BLOCK"   *)
(* (screening/agent.py:346), and the model's risk is not lost either.      *)
EscalationOnly ==
  \A rule \in Decisions, llm \in Risks \cup {NoLlm} :
    /\ Severity[final_decision(rule, llm)] >= Severity[rule]
    /\ RISK_ORDER[final_risk(rule, llm)]
         >= RISK_ORDER[RULE_DECISION_TO_RISK[rule]]
    /\ llm # NoLlm => RISK_ORDER[final_risk(rule, llm)] >= RISK_ORDER[llm]
    /\ final_decision(rule, llm) = RISK_TO_DEC[final_risk(rule, llm)]

=============================================================================
