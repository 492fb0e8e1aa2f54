--------------------------- MODULE DailyLimitProofs ---------------------------
(***************************************************************************)
(* The daily aggregate and the velocity rule for any number of concurrent  *)
(* transactions and any limits.  The argument: a request stores its record *)
(* before it reads the table, so the last one to count within an hour      *)
(* counts all those that passed, and the last one to add up the amounts of *)
(* a day adds up the amounts of all those that passed.                     *)
(***************************************************************************)
EXTENDS DailyLimit, SumsProofs

(* A request counts only after its record is in the table.                 *)
StoredFirst ==
  \A t \in Txns :
    pc[t] \in {"daily", "velocity", "decide", "done"} => t \in stored

(* A decision is the last step, and it is no approval after a flag.        *)
DecidedLast ==
  \A t \in Txns :
    /\ decision[t] # "none" => pc[t] = "done"
    /\ decision[t] = "pass" => r006[t] = "pass"

(* A user's transactions of the last hour that the velocity rule has       *)
(* passed.                                                                 *)
Passed(user) ==
  {t \in Txns : /\ user_id(t) = user
                /\ pc[t] \in {"decide", "done"}
                /\ r006[t] = "pass"
                /\ ingested_at[t] + Hour >= clock}

FewPassed ==
  \A user \in Users : Cardinality(Passed(user)) < VELOCITY_MAX_COUNT

VelocityInv ==
  /\ TypeOK
  /\ StoredFirst
  /\ DecidedLast
  /\ FewPassed

-----------------------------------------------------------------------------
(* Fewer of a set of transactions are fewer.                               *)
LEMMA FewerTxns ==
  ASSUME NEW S, NEW T, S \subseteq T, T \subseteq Txns
  PROVE  /\ Cardinality(S) \in Nat /\ Cardinality(T) \in Nat
         /\ Cardinality(S) <= Cardinality(T)
<1>1. IsFiniteSet(Txns)
  BY LimitAssumption
<1>2. IsFiniteSet(T)
  BY <1>1, FS_Subset
<1>3. IsFiniteSet(S)
  BY <1>2, FS_Subset
<1> QED
  BY <1>2, <1>3, FS_Subset, FS_CardinalityType

LEMMA Limits ==
  /\ VELOCITY_MAX_COUNT \in Nat /\ 0 < VELOCITY_MAX_COUNT
  /\ Hour \in Nat /\ MaxClock \in Nat
  /\ NoValue \notin Users
BY LimitAssumption

(* Once counted, transactions only leave the hour.                         *)
LEMMA PassedShrinks ==
  ASSUME VelocityInv, \A user \in Users : Passed(user)' \subseteq Passed(user)
  PROVE  FewPassed'
<1> SUFFICES ASSUME NEW user \in Users
             PROVE  Cardinality(Passed(user)') < VELOCITY_MAX_COUNT
  BY DEF FewPassed
<1>1. Cardinality(Passed(user)') <= Cardinality(Passed(user))
      /\ Cardinality(Passed(user)') \in Nat
      /\ Cardinality(Passed(user)) \in Nat
  BY FewerTxns DEF Passed
<1> QED
  BY <1>1, Limits DEF VelocityInv, FewPassed

LEMMA InitVelocityInv == Init => VelocityInv
<1> SUFFICES ASSUME Init PROVE VelocityInv
  OBVIOUS
<1>1. TypeOK
  BY Limits DEF Init, TypeOK, Decisions
<1>2. \A user : Passed(user) = {}
  BY DEF Init, Passed
<1>3. FewPassed
  BY <1>2, Limits, FS_EmptySet DEF FewPassed
<1> QED
  BY <1>1, <1>3 DEF Init, VelocityInv, StoredFirst, DecidedLast

LEMMA RuleTypes ==
  ASSUME NEW t \in Txns
  PROVE  /\ _rule_daily_aggregate_limit(t) \in Decisions
         /\ _rule_velocity_check(t) \in {"pass", "flag"}
BY DEF _rule_daily_aggregate_limit, _rule_velocity_check, Decisions

(* A flag among the verdicts is at least a flag.                           *)
LEMMA AggregateFacts ==
  ASSUME NEW results
  PROVE  /\ aggregate_decision(results) \in Decisions
         /\ aggregate_decision(results) = "pass" => "flag" \notin results
BY DEF aggregate_decision, Decisions

LEMMA StepVelocityInv == VelocityInv /\ [Next]_vars => VelocityInv'
<1> SUFFICES ASSUME VelocityInv, [Next]_vars PROVE VelocityInv'
  OBVIOUS
<1> USE Limits
<1>0. TypeOK /\ StoredFirst /\ DecidedLast
  BY DEF VelocityInv
<1>1. ASSUME NEW t \in Txns, Build(t) PROVE VelocityInv'
  <2>1. TypeOK'
    BY <1>0, <1>1 DEF Build, TypeOK
  <2>2. StoredFirst' /\ DecidedLast'
    BY <1>0, <1>1 DEF Build, TypeOK, StoredFirst, DecidedLast
  <2>3. \A user \in Users : Passed(user)' \subseteq Passed(user)
    BY <1>0, <1>1 DEF Build, TypeOK, Passed
  <2> QED
    BY <2>1, <2>2, <2>3, PassedShrinks DEF VelocityInv
<1>2. ASSUME NEW t \in Txns, Store(t) PROVE VelocityInv'
  <2>1. TypeOK'
    BY <1>0, <1>2 DEF Store, TypeOK
  <2>2. StoredFirst' /\ DecidedLast'
    BY <1>0, <1>2 DEF Store, TypeOK, StoredFirst, DecidedLast
  <2>3. \A user \in Users : Passed(user)' \subseteq Passed(user)
    BY <1>0, <1>2 DEF Store, TypeOK, Passed
  <2> QED
    BY <2>1, <2>2, <2>3, PassedShrinks DEF VelocityInv
<1>3. ASSUME NEW t \in Txns, CheckDaily(t) \/ DailyFails(t) PROVE VelocityInv'
  <2>1. PICK v \in Decisions : r003' = [r003 EXCEPT ![t] = v]
    BY <1>3, RuleTypes DEF CheckDaily, DailyFails, Decisions
  <2>2. /\ pc[t] = "daily" /\ pc' = [pc EXCEPT ![t] = "velocity"]
        /\ UNCHANGED <<clock, stored, ingested_at, r006, decision>>
    BY <1>3 DEF CheckDaily, DailyFails
  <2>3. TypeOK'
    BY <1>0, <2>1, <2>2 DEF TypeOK
  <2>4. StoredFirst' /\ DecidedLast'
    BY <1>0, <2>2 DEF TypeOK, StoredFirst, DecidedLast
  <2>5. \A user \in Users : Passed(user)' \subseteq Passed(user)
    BY <1>0, <2>2 DEF TypeOK, Passed
  <2> QED
    BY <2>3, <2>4, <2>5, PassedShrinks DEF VelocityInv
<1>4. ASSUME NEW t \in Txns, CheckVelocity(t) PROVE VelocityInv'
  <2>1. /\ pc[t] = "velocity" /\ pc' = [pc EXCEPT ![t] = "decide"]
        /\ r006' = [r006 EXCEPT ![t] = _rule_velocity_check(t)]
        /\ UNCHANGED <<clock, stored, ingested_at, r003, decision>>
    BY <1>4 DEF CheckVelocity
  <2>2. TypeOK'
    BY <1>0, <2>1, RuleTypes DEF TypeOK
  <2>3. StoredFirst' /\ DecidedLast'
    BY <1>0, <2>1 DEF TypeOK, StoredFirst, DecidedLast
  <2>4. CASE _rule_velocity_check(t) = "flag"
    <3>1. \A user \in Users : Passed(user)' \subseteq Passed(user)
      BY <1>0, <2>1, <2>4 DEF TypeOK, Passed
    <3> QED
      BY <2>2, <2>3, <3>1, PassedShrinks DEF VelocityInv
  <2>5. CASE _rule_velocity_check(t) # "flag"
    <3> SUFFICES ASSUME NEW user \in Users
                 PROVE  Cardinality(Passed(user)') < VELOCITY_MAX_COUNT
      BY <2>2, <2>3 DEF VelocityInv, FewPassed
    <3>1. CASE user = user_id(t)
      <4>1. user_id(t) # NoValue
        BY <3>1, Limits
      <4>2. ~ (Cardinality(RowsSince(user, Hour)) >= VELOCITY_MAX_COUNT)
        BY <2>5, <3>1, <4>1 DEF _rule_velocity_check
      <4>3. RowsSince(user, Hour) \subseteq Txns
        BY <1>0 DEF RowsSince, TypeOK
      <4>4. Passed(user)' \subseteq RowsSince(user, Hour)
        BY <2>1, <2>3 DEF Passed, StoredFirst, RowsSince
      <4> QED
        BY <4>2, <4>3, <4>4, FewerTxns
    <3>2. CASE user # user_id(t)
      <4>1. Passed(user)' \subseteq Passed(user)
        BY <1>0, <2>1, <3>2 DEF TypeOK, Passed
      <4>2. /\ Cardinality(Passed(user)') <= Cardinality(Passed(user))
            /\ Cardinality(Passed(user)') \in Nat
            /\ Cardinality(Passed(user)) \in Nat
        BY <4>1, FewerTxns DEF Passed
      <4> QED
        BY <4>2 DEF VelocityInv, FewPassed
    <3> QED
      BY <3>1, <3>2
  <2> QED
    BY <2>4, <2>5
<1>5. ASSUME NEW t \in Txns, VelocityFails(t) PROVE VelocityInv'
  <2>1. TypeOK'
    BY <1>0, <1>5 DEF VelocityFails, TypeOK
  <2>2. StoredFirst' /\ DecidedLast'
    BY <1>0, <1>5 DEF VelocityFails, TypeOK, StoredFirst, DecidedLast
  <2>3. \A user \in Users : Passed(user)' \subseteq Passed(user)
    BY <1>0, <1>5 DEF VelocityFails, TypeOK, Passed
  <2> QED
    BY <2>1, <2>2, <2>3, PassedShrinks DEF VelocityInv
<1>6. ASSUME NEW t \in Txns, Decide(t) PROVE VelocityInv'
  <2> DEFINE results == rule_results(t)
  <2>1. /\ pc[t] = "decide" /\ pc' = [pc EXCEPT ![t] = "done"]
        /\ decision' = [decision EXCEPT ![t] = aggregate_decision(results)]
        /\ UNCHANGED <<clock, stored, ingested_at, r003, r006>>
    BY <1>6 DEF Decide
  <2>2. /\ aggregate_decision(results) \in Decisions
        /\ aggregate_decision(results) = "pass" => "flag" \notin results
    BY AggregateFacts
  <2>3. "flag" \notin results => r006[t] = "pass"
    BY <1>0 DEF TypeOK, rule_results
  <2> HIDE DEF results
  <2>4. TypeOK'
    BY <1>0, <2>1, <2>2 DEF TypeOK
  <2>5. StoredFirst' /\ DecidedLast'
    BY <1>0, <2>1, <2>2, <2>3 DEF TypeOK, StoredFirst, DecidedLast
  <2>6. \A user \in Users : Passed(user)' \subseteq Passed(user)
    BY <1>0, <2>1 DEF TypeOK, Passed
  <2> QED
    BY <2>4, <2>5, <2>6, PassedShrinks DEF VelocityInv
<1>7. ASSUME NEW t \in Txns, Die(t) PROVE VelocityInv'
  <2>1. TypeOK'
    BY <1>0, <1>7 DEF Die, TypeOK
  <2>2. StoredFirst' /\ DecidedLast'
    BY <1>0, <1>7 DEF Die, TypeOK, StoredFirst, DecidedLast
  <2>3. \A user \in Users : Passed(user)' \subseteq Passed(user)
    BY <1>0, <1>7 DEF Die, TypeOK, Passed
  <2> QED
    BY <2>1, <2>2, <2>3, PassedShrinks DEF VelocityInv
<1>8. CASE Tick
  <2>1. clock' \in 0..MaxClock /\ clock' = clock + 1
        /\ UNCHANGED <<pc, stored, ingested_at, r003, r006, decision>>
    BY <1>0, <1>8 DEF Tick, TypeOK
  <2>2. 0..clock \subseteq 0..clock'
    BY <1>0, <2>1 DEF TypeOK
  <2>3. TypeOK'
    BY <1>0, <2>1, <2>2 DEF TypeOK
  <2>4. StoredFirst' /\ DecidedLast'
    BY <1>0, <2>1 DEF StoredFirst, DecidedLast
  <2>5. \A user \in Users : Passed(user)' \subseteq Passed(user)
    <3> SUFFICES ASSUME NEW t \in Txns, ingested_at[t] + Hour >= clock + 1
                 PROVE  ingested_at[t] + Hour >= clock
      BY <2>1 DEF Passed
    <3>1. ingested_at[t] \in Nat /\ clock \in Nat
      BY <1>0 DEF TypeOK
    <3> QED
      BY <3>1
  <2> QED
    BY <2>3, <2>4, <2>5, PassedShrinks DEF VelocityInv
<1>9. CASE UNCHANGED vars
  <2>1. \A user \in Users : Passed(user)' \subseteq Passed(user)
    BY <1>9 DEF vars, Passed
  <2> QED
    BY <1>0, <1>9, <2>1, PassedShrinks
       DEF vars, VelocityInv, TypeOK, StoredFirst, DecidedLast
<1> QED
  BY <1>1, <1>2, <1>3, <1>4, <1>5, <1>6, <1>7, <1>8, <1>9 DEF Next

LEMMA SpecVelocityInv == Spec => []VelocityInv
BY InitVelocityInv, StepVelocityInv, PTL DEF Spec

-----------------------------------------------------------------------------
(* A user's transactions of the last day that the aggregate rule has       *)
(* passed; those whose SELECT failed have a flag instead.                  *)
Counted(user) ==
  {t \in Txns : /\ user_id(t) = user
                /\ pc[t] \in {"velocity", "decide", "done"}
                /\ r003[t] = "pass"
                /\ ingested_at[t] + Day >= clock}

LittleCounted ==
  \A user \in Users : Total(Counted(user)) < DAILY_AGGREGATE_LIMIT_USD

(* Fewer transactions add up to less.                                      *)
LEMMA SmallerTotal ==
  ASSUME NEW S, NEW T, S \subseteq T, T \subseteq Txns
  PROVE  /\ Total(S) \in Nat /\ Total(T) \in Nat
         /\ Total(S) <= Total(T)
<1> DEFINE f == [t \in Txns |-> amount(t)]
<1>1. IsFiniteSet(S) /\ IsFiniteSet(T)
  BY LimitAssumption, FS_Subset
<1>2. \A t \in Txns : f[t] \in Nat
  BY LimitAssumption DEF amount
<1>3. Total(S) = Sum(f, S) /\ Total(T) = Sum(f, T)
  BY DEF Total
<1> HIDE DEF f
<1> QED
  BY <1>1, <1>2, <1>3, SumNat, SumMonotone

LEMMA DayLimits ==
  /\ DAILY_AGGREGATE_LIMIT_USD \in Nat /\ 0 < DAILY_AGGREGATE_LIMIT_USD
  /\ Day \in Nat
  /\ \A t \in Txns : amount(t) \in Nat
BY LimitAssumption DEF amount

(* Once added up, transactions only leave the day.                         *)
LEMMA CountedShrinks ==
  ASSUME LittleCounted,
         \A user \in Users : Counted(user)' \subseteq Counted(user)
  PROVE  LittleCounted'
<1> SUFFICES ASSUME NEW user \in Users
             PROVE  Total(Counted(user)') < DAILY_AGGREGATE_LIMIT_USD
  BY DEF LittleCounted, Total
<1>1. /\ Total(Counted(user)') <= Total(Counted(user))
      /\ Total(Counted(user)') \in Nat
      /\ Total(Counted(user)) \in Nat
  BY SmallerTotal DEF Counted
<1> QED
  BY <1>1, DayLimits DEF LittleCounted

LEMMA InitLittleCounted == Init => LittleCounted
<1> SUFFICES ASSUME Init, NEW user \in Users
             PROVE  Total(Counted(user)) < DAILY_AGGREGATE_LIMIT_USD
  BY DEF LittleCounted
<1>1. Counted(user) = {}
  BY DEF Init, Counted
<1> QED
  BY <1>1, DayLimits, SumEmpty DEF Total

LEMMA StepLittleCounted ==
  VelocityInv /\ LittleCounted /\ [Next]_vars => LittleCounted'
<1> SUFFICES ASSUME VelocityInv, LittleCounted, [Next]_vars
             PROVE  LittleCounted'
  OBVIOUS
<1> USE DayLimits
<1>0. TypeOK /\ StoredFirst
  BY DEF VelocityInv
<1>1. ASSUME NEW t \in Txns, CheckDaily(t), r003'[t] = "pass"
      PROVE  LittleCounted'
  <2>1. /\ pc[t] = "daily" /\ pc' = [pc EXCEPT ![t] = "velocity"]
        /\ r003' = [r003 EXCEPT ![t] = _rule_daily_aggregate_limit(t)]
        /\ UNCHANGED <<clock, stored, ingested_at, r006, decision>>
    BY <1>1 DEF CheckDaily
  <2> SUFFICES ASSUME NEW user \in Users
               PROVE  Total(Counted(user)') < DAILY_AGGREGATE_LIMIT_USD
    BY DEF LittleCounted, Total
  <2>2. CASE user = user_id(t)
    <3>1. _rule_daily_aggregate_limit(t) = "pass"
      BY <1>0, <1>1, <2>1 DEF TypeOK
    <3>2. ~(daily_total(t) >= DAILY_AGGREGATE_LIMIT_USD)
      BY <2>2, <3>1, Limits DEF _rule_daily_aggregate_limit
    <3>3. RowsSince(user, Day) \subseteq Txns
      BY <1>0 DEF RowsSince, TypeOK
    <3>4. Counted(user)' \subseteq RowsSince(user, Day)
      BY <1>0, <2>1 DEF Counted, StoredFirst, RowsSince, TypeOK
    <3>5. /\ Total(Counted(user)') <= Total(RowsSince(user, Day))
          /\ Total(Counted(user)') \in Nat
          /\ Total(RowsSince(user, Day)) \in Nat
      BY <3>3, <3>4, SmallerTotal
    <3> QED
      BY <2>2, <3>2, <3>5 DEF daily_total
  <2>3. CASE user # user_id(t)
    <3>1. Counted(user)' \subseteq Counted(user)
      BY <1>0, <2>1, <2>3 DEF TypeOK, Counted
    <3>2. /\ Total(Counted(user)') <= Total(Counted(user))
          /\ Total(Counted(user)') \in Nat
          /\ Total(Counted(user)) \in Nat
      BY <3>1, SmallerTotal DEF Counted
    <3> QED
      BY <3>2 DEF LittleCounted
  <2> QED
    BY <2>2, <2>3
<1>2. ASSUME NEW t \in Txns,
             \/ Build(t) \/ Store(t) \/ DailyFails(t) \/ Decide(t) \/ Die(t)
             \/ CheckVelocity(t) \/ VelocityFails(t)
             \/ CheckDaily(t) /\ r003'[t] # "pass"
      PROVE  LittleCounted'
  <2>1. \A user \in Users : Counted(user)' \subseteq Counted(user)
    BY <1>0, <1>2 DEF TypeOK, Counted, Build, Store, DailyFails, Decide, Die,
       CheckVelocity, VelocityFails, CheckDaily
  <2> QED
    BY <2>1, CountedShrinks
<1>3. CASE Tick
  <2>1. clock' = clock + 1 /\ UNCHANGED <<pc, ingested_at, r003>>
    BY <1>3 DEF Tick
  <2>2. \A t \in Txns : ingested_at[t] \in Nat /\ clock \in Nat
    BY <1>0 DEF TypeOK
  <2>3. \A user \in Users : Counted(user)' \subseteq Counted(user)
    BY <2>1, <2>2 DEF Counted
  <2> QED
    BY <2>3, CountedShrinks
<1>4. CASE UNCHANGED vars
  <2>1. \A user \in Users : Counted(user)' \subseteq Counted(user)
    BY <1>4 DEF vars, Counted
  <2> QED
    BY <2>1, CountedShrinks
<1> QED
  BY <1>1, <1>2, <1>3, <1>4 DEF Next

LEMMA SpecLittleCounted == Spec => []LittleCounted
BY InitLittleCounted, StepLittleCounted, SpecVelocityInv, PTL DEF Spec

-----------------------------------------------------------------------------
(* Verdicts, times and program counters stay in range, and no record is    *)
(* dated in the future, for any number of transactions.                    *)
THEOREM SpecTypeOK == Spec => []TypeOK
<1>1. VelocityInv => TypeOK
  BY DEF VelocityInv
<1> QED
  BY <1>1, SpecVelocityInv, PTL

(* Fewer than VELOCITY_MAX_COUNT transactions of one user and one hour are *)
(* approved without a flag, however many run at once (rules.py:260-273).   *)
THEOREM SpecVelocityBounded == Spec => []VelocityBounded
<1>1. VelocityInv => VelocityBounded
  <2> SUFFICES ASSUME VelocityInv, NEW user \in Users
               PROVE  Cardinality({t \in Txns :
                        /\ user_id(t) = user /\ decision[t] = "pass"
                        /\ ingested_at[t] + Hour >= clock}) < VELOCITY_MAX_COUNT
    BY DEF VelocityBounded
  <2> DEFINE approved == {t \in Txns :
                            /\ user_id(t) = user /\ decision[t] = "pass"
                            /\ ingested_at[t] + Hour >= clock}
  <2>1. approved \subseteq Passed(user)
    BY DEF VelocityInv, DecidedLast, Passed
  <2>2. Passed(user) \subseteq Txns
    BY DEF Passed
  <2>3. Cardinality(approved) <= Cardinality(Passed(user))
        /\ Cardinality(approved) \in Nat /\ Cardinality(Passed(user)) \in Nat
    BY <2>1, <2>2, FewerTxns
  <2> QED
    BY <2>3, Limits DEF VelocityInv, FewPassed
<1> QED
  BY <1>1, SpecVelocityInv, PTL

(* What the rules let through of a user's transactions of 24 hours stays   *)
(* below the daily limit, whatever the amounts and however many of them    *)
(* are screened at once (rules.py:169-181).                                *)
THEOREM SpecDailyTotalBounded == Spec => []DailyTotalBounded
<1>1. VelocityInv /\ LittleCounted => DailyTotalBounded
  <2> SUFFICES ASSUME VelocityInv, LittleCounted, NEW user \in Users
               PROVE  Total({t \in LetThrough(user) :
                               ingested_at[t] + Day >= clock})
                        < DAILY_AGGREGATE_LIMIT_USD
    BY DEF DailyTotalBounded
  <2> DEFINE today == {t \in LetThrough(user) : ingested_at[t] + Day >= clock}
  <2>1. today \subseteq Counted(user)
    BY DEF VelocityInv, DecidedLast, LetThrough, Counted
  <2>2. Counted(user) \subseteq Txns
    BY DEF Counted
  <2>3. /\ Total(today) <= Total(Counted(user))
        /\ Total(today) \in Nat /\ Total(Counted(user)) \in Nat
    BY <2>1, <2>2, SmallerTotal
  <2> QED
    BY <2>3, DayLimits DEF LittleCounted
<1> QED
  BY <1>1, SpecVelocityInv, SpecLittleCounted, PTL

=============================================================================
