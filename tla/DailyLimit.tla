------------------------------ MODULE DailyLimit ------------------------------
(***************************************************************************)
(* RuleEngine.evaluate of screening/rules.py, the seven rules run by       *)
(* concurrent requests.  A request first stores its record                 *)
(* (DataIngestionAgent.ingest); then the rules run in turn, and two of     *)
(* them, the daily aggregate R003 and the velocity R006, read the user's   *)
(* other transactions, each with a SELECT of its own.                      *)
(***************************************************************************)
EXTENDS ScreeningRules, Sums

CONSTANTS
  Txns,            \* transactions, none a duplicate
  Workloads,       \* bound: the sets of transactions explored together
  Context,         \* Context[t]: the context the rules are given
  Users,           \* user ids, strings
  Countries, RESTRICTED_COUNTRIES,
  Currencies, USD,
  Names,           \* names and watchlist entries, in lower case
  Inside,          \* <<m, n>>: the name m is a substring of n
  NoValue,         \* a field the payload does not have
  SINGLE_TXN_LIMIT_USD,
  DAILY_AGGREGATE_LIMIT_USD,
  STRUCTURING_THRESHOLD,
  VELOCITY_MAX_COUNT,
  MIN_KYC_TIER,
  Day,             \* 24 hours, in ticks of the clock
  Hour,            \* VELOCITY_WINDOW_MINUTES, in ticks
  MaxClock         \* bound on the clock

ASSUME LimitAssumption ==
  /\ IsFiniteSet(Txns)
  /\ Workloads \subseteq SUBSET Txns
  /\ Context \in [Txns -> [user_id : Users \cup {NoValue}, amount : Nat,
                           currency : Currencies, country : Countries,
                           kyc_tier : Nat \cup {NoValue},
                           names : SUBSET Names,
                           watchlist_entries : SUBSET Names]]
  /\ NoValue \notin Users \cup Nat
  /\ RESTRICTED_COUNTRIES \subseteq Countries
  /\ Inside \subseteq Names \X Names
  /\ SINGLE_TXN_LIMIT_USD \in Nat
  /\ DAILY_AGGREGATE_LIMIT_USD \in Nat \ {0}
  /\ STRUCTURING_THRESHOLD \in Nat
  /\ VELOCITY_MAX_COUNT \in Nat \ {0}
  /\ {MIN_KYC_TIER, Day, Hour, MaxClock} \subseteq Nat

VARIABLES
  clock,       \* datetime.now
  pc,          \* pc[t]: the next step of transaction t
  stored,      \* the transactions in ingested_records
  ingested_at, \* ingested_at[t]
  r003,        \* r003[t]: the verdict of the daily aggregate rule
  r006,        \* r006[t]: the verdict of the velocity rule
  decision     \* decision[t]: aggregate_decision, "none" before

vars == <<clock, pc, stored, ingested_at, r003, r006, decision>>

-----------------------------------------------------------------------------
amount(t)  == Context[t].amount
user_id(t) == Context[t].user_id

Total(T) == Sum([t \in Txns |-> amount(t)], T)

(* Variant of RowsSince: only transactions whose screening is over.        *)
RowsSince_Decided(user, window) ==
  {t \in stored : /\ user_id(t) = user /\ pc[t] = "done"
                  /\ ingested_at[t] + window >= clock}

(* WHERE is_duplicate = 0 AND ingested_at >= since AND payload LIKE the    *)
(* user's id.                                                              *)
RowsSince(user, window) ==
  {t \in stored : user_id(t) = user /\ ingested_at[t] + window >= clock}

-----------------------------------------------------------------------------
(* R001                                                                    *)
_rule_geographic_restriction(t) ==
  IF Context[t].country \in RESTRICTED_COUNTRIES THEN "block" ELSE "pass"

(* R002: other currencies are not checked; the factor 1.5 is written       *)
(* without fractions.                                                      *)
_rule_single_txn_limit(t) ==
  IF Context[t].currency # USD \/ amount(t) < SINGLE_TXN_LIMIT_USD THEN "pass"
  ELSE IF 2 * amount(t) >= 3 * SINGLE_TXN_LIMIT_USD THEN "block" ELSE "flag"

(* R003: the rows of the day, the record just stored among them, and the   *)
(* amount of the transaction on top; all currencies alike.                 *)
daily_total(t) == Total(RowsSince(user_id(t), Day)) + amount(t)

_rule_daily_aggregate_limit(t) ==
  IF user_id(t) = NoValue THEN "flag"
  ELSE IF daily_total(t) >= DAILY_AGGREGATE_LIMIT_USD THEN "block" ELSE "pass"

(* R004                                                                    *)
_rule_kyc_tier(t) ==
  IF Context[t].kyc_tier = NoValue THEN "flag"
  ELSE IF Context[t].kyc_tier < MIN_KYC_TIER THEN "block" ELSE "pass"

(* R005                                                                    *)
_rule_structuring_detection(t) ==
  IF amount(t) \in STRUCTURING_THRESHOLD..(SINGLE_TXN_LIMIT_USD - 1)
  THEN "flag" ELSE "pass"

(* Variant of the velocity rule: flags above the maximum only.             *)
_rule_velocity_check_Above(t) ==
  IF /\ user_id(t) # NoValue
     /\ Cardinality(RowsSince(user_id(t), Hour)) > VELOCITY_MAX_COUNT
  THEN "flag" ELSE "pass"

(* R006: nothing to count without a user.                                  *)
_rule_velocity_check(t) ==
  IF /\ user_id(t) # NoValue
     /\ Cardinality(RowsSince(user_id(t), Hour)) >= VELOCITY_MAX_COUNT
  THEN "flag" ELSE "pass"

(* R007: the entries are those the client sends along.                     *)
_rule_watchlist_name_match(t) ==
  IF \E entry \in Context[t].watchlist_entries, name \in Context[t].names :
       <<entry, name>> \in Inside \/ <<name, entry>> \in Inside
  THEN "block" ELSE "pass"

-----------------------------------------------------------------------------
Init ==
  /\ clock       = 0
  /\ pc          = [t \in Txns |-> "new"]
  /\ stored      = {}
  /\ ingested_at = [t \in Txns |-> 0]
  /\ r003        = [t \in Txns |-> "pass"]
  /\ r006        = [t \in Txns |-> "pass"]
  /\ decision    = [t \in Txns |-> "none"]

Explored(t) ==
  \E W \in Workloads : t \in W /\ \A u \in Txns : pc[u] # "new" => u \in W

(* Variant of Build: a local time, one tick ahead of UTC.                  *)
Build_LocalTime(t) ==
  /\ pc[t] = "new"
  /\ Explored(t)
  /\ ingested_at' = [ingested_at EXCEPT ![t] = clock + 1]
  /\ pc' = [pc EXCEPT ![t] = "store"]
  /\ UNCHANGED <<clock, stored, r003, r006, decision>>

(* IngestedRecord(...): ingested_at is now.                                *)
Build(t) ==
  /\ pc[t] = "new"
  /\ Explored(t)
  /\ ingested_at' = [ingested_at EXCEPT ![t] = clock]
  /\ pc' = [pc EXCEPT ![t] = "store"]
  /\ UNCHANGED <<clock, stored, r003, r006, decision>>

Store(t) ==
  /\ pc[t] = "store"
  /\ stored' = stored \cup {t}
  /\ pc' = [pc EXCEPT ![t] = "daily"]
  /\ UNCHANGED <<clock, ingested_at, r003, r006, decision>>

CheckDaily(t) ==
  /\ pc[t] = "daily"
  /\ r003' = [r003 EXCEPT ![t] = _rule_daily_aggregate_limit(t)]
  /\ pc' = [pc EXCEPT ![t] = "velocity"]
  /\ UNCHANGED <<clock, stored, ingested_at, r006, decision>>

CheckVelocity(t) ==
  /\ pc[t] = "velocity"
  /\ r006' = [r006 EXCEPT ![t] = _rule_velocity_check(t)]
  /\ pc' = [pc EXCEPT ![t] = "decide"]
  /\ UNCHANGED <<clock, stored, ingested_at, r003, decision>>

(* evaluate: a rule that raises, here because its SELECT fails, is a FLAG.  *)
DailyFails(t) ==
  /\ pc[t] = "daily"
  /\ user_id(t) # NoValue
  /\ r003' = [r003 EXCEPT ![t] = "flag"]
  /\ pc' = [pc EXCEPT ![t] = "velocity"]
  /\ UNCHANGED <<clock, stored, ingested_at, r006, decision>>

VelocityFails(t) ==
  /\ pc[t] = "velocity"
  /\ user_id(t) # NoValue
  /\ r006' = [r006 EXCEPT ![t] = "flag"]
  /\ pc' = [pc EXCEPT ![t] = "decide"]
  /\ UNCHANGED <<clock, stored, ingested_at, r003, decision>>

(* The other rules look at the payload only: when they run is immaterial.  *)
rule_results(t) ==
  {_rule_geographic_restriction(t), _rule_single_txn_limit(t), r003[t],
   _rule_kyc_tier(t), _rule_structuring_detection(t), r006[t],
   _rule_watchlist_name_match(t)}

Decide(t) ==
  /\ pc[t] = "decide"
  /\ decision' = [decision EXCEPT ![t] = aggregate_decision(rule_results(t))]
  /\ pc' = [pc EXCEPT ![t] = "done"]
  /\ UNCHANGED <<clock, stored, ingested_at, r003, r006>>

(* The request dies: what it stored keeps counting.                        *)
Die(t) ==
  /\ pc[t] \in {"store", "daily", "velocity", "decide"}
  /\ pc' = [pc EXCEPT ![t] = "dead"]
  /\ UNCHANGED <<clock, stored, ingested_at, r003, r006, decision>>

Tick ==
  /\ clock < MaxClock
  /\ clock' = clock + 1
  /\ UNCHANGED <<pc, stored, ingested_at, r003, r006, decision>>

Next ==
  \/ \E t \in Txns : \/ Build(t) \/ Store(t) \/ CheckDaily(t)
                     \/ DailyFails(t) \/ CheckVelocity(t) \/ VelocityFails(t)
                     \/ Decide(t) \/ Die(t)
  \/ Tick

Spec == Init /\ [][Next]_vars

-----------------------------------------------------------------------------
(* Verdicts, times and program counters stay in range; no time is ahead.   *)
TypeOK ==
  /\ clock \in 0..MaxClock
  /\ pc \in [Txns -> {"new", "store", "daily", "velocity", "decide", "done",
                      "dead"}]
  /\ stored \subseteq Txns
  /\ ingested_at \in [Txns -> 0..clock]
  /\ r003 \in [Txns -> Decisions]
  /\ r006 \in [Txns -> {"pass", "flag"}]
  /\ decision \in [Txns -> Decisions \cup {"none"}]

LetThrough(user) ==
  {t \in Txns : /\ user_id(t) = user
                /\ decision[t] \in {"pass", "flag"} /\ r003[t] = "pass"}

(* However a user's requests interleave, what the rules have let through   *)
(* in the last 24 hours stays below the daily limit (rules.py:169-181):    *)
(* every request stores its record before it adds up the table.  A         *)
(* transaction is left out only if R003 could not run and flagged it.      *)
DailyTotalBounded ==
  \A user \in Users :
    Total({t \in LetThrough(user) : ingested_at[t] + Day >= clock})
      < DAILY_AGGREGATE_LIMIT_USD

(* Fewer than VELOCITY_MAX_COUNT transactions of one user and one hour are *)
(* approved without a flag, also when they arrive at once                  *)
(* (rules.py:260-273).                                                     *)
VelocityBounded ==
  \A user \in Users :
    Cardinality({t \in Txns : /\ user_id(t) = user /\ decision[t] = "pass"
                              /\ ingested_at[t] + Hour >= clock})
      < VELOCITY_MAX_COUNT

=============================================================================
