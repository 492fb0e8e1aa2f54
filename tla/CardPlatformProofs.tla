-------------------------- MODULE CardPlatformProofs -------------------------
(***************************************************************************)
(* The card platform: fund conversion for any number of loads, payments    *)
(* and workers, and card issuance for any number of users, requests and    *)
(* tiers.  For a load the argument is that a call's trace id is new to     *)
(* every worker when the call is handled; for a payment, that a worker     *)
(* converts only what it adds to its set, which only a restart empties.    *)
(***************************************************************************)
EXTENDS FundConversion, CardIssuance, Sequences, FiniteSetTheorems, TLAPS

(* Calls, and the fact that a pending call is one of those made.           *)
Messages ==
  /\ pending \subseteq [intent : Intents, attempt : 1..MaxAttempts]
  /\ processed = [w \in Workers |-> processed[w]]
  /\ \A m \in pending : m.attempt <= attempt[m.intent]
  /\ \A w \in Workers : \A l \in Loads : \A n \in Nat :
       <<l, n>> \in processed[w] => n <= attempt[l]

(* No worker knows the trace id of a call that is still to be handled.     *)
FreshTraces ==
  \A m \in pending : m.intent \in Loads =>
    \A w \in Workers : transaction_id(m) \notin processed[w]

(* An answer on its way back to a load's caller tells the truth.           *)
RepliesHonest ==
  \A l \in Loads : reply[l] = "success" => conversions[l] >= 1

LoadInv ==
  TypeOK /\ Messages /\ FreshTraces /\ RepliesHonest /\ LoadSuccessIsConverted

(* A load's id is a pair and a payment's is not.                           *)
LEMMA IdFacts ==
  ASSUME NEW i, NEW j, NEW n PROVE <<i>> # <<j, n>>
<1>1. Len(<<i>>) = 1 /\ Len(<<j, n>>) = 2
  OBVIOUS
<1> QED
  BY <1>1

(* Two pending calls of which one is for a load have different ids.        *)
LEMMA IdsDiffer ==
  ASSUME Messages, NEW m \in pending, NEW n \in pending, n # m,
         n.intent \in Loads
  PROVE  transaction_id(n) # transaction_id(m)
<1>1. n.intent \notin Payments
  BY ConversionAssumption
<1>2. CASE m.intent \in Payments
  BY <1>1, <1>2, IdFacts DEF transaction_id
<1>3. CASE m.intent \notin Payments
  <2>1. <<n.intent, n.attempt>> = <<m.intent, m.attempt>> => n = m
    BY DEF Messages
  <2> QED
    BY <1>1, <1>3, <2>1 DEF transaction_id
<1> QED
  BY <1>2, <1>3

LEMMA InitLoadInv == Init => LoadInv
<1> SUFFICES ASSUME Init PROVE LoadInv
  OBVIOUS
<1>1. TypeOK
  BY ConversionAssumption DEF Init, TypeOK, Intents
<1>2. Messages
  BY DEF Init, Messages
<1> QED
  BY <1>1, <1>2
     DEF Init, LoadInv, FreshTraces, RepliesHonest, LoadSuccessIsConverted,
         Intents

(* The types of a call that is handled, and of the answer to it.           *)
LEMMA AnswerKeeps ==
  ASSUME TypeOK, Messages, NEW m \in pending, NEW status \in {"success", "error"},
         Answer(m, status), UNCHANGED client
  PROVE  /\ m.intent \in Intents
         /\ pending' \subseteq pending
         /\ reply' \in [Intents -> {"none", "success", "error"}]
         /\ \A i \in Intents : reply'[i] # "none" => client'[i] = "waiting"
         /\ \A i \in Intents : reply'[i] = reply[i]
                               \/ (i = m.intent /\ reply'[i] = status)
BY DEF TypeOK, Messages, Answer

LEMMA StepLoadInv == LoadInv /\ [Next]_vars => LoadInv'
<1> SUFFICES ASSUME LoadInv, [Next]_vars PROVE LoadInv'
  OBVIOUS
<1> USE DEF LoadInv
<1>1. ASSUME NEW i \in Intents, Call(i) PROVE LoadInv'
  <2> DEFINE new == [intent |-> i, attempt |-> attempt[i] + 1]
  <2>1. /\ attempt[i] \in 0..MaxAttempts
        /\ attempt[i] < MaxAttempts
        /\ MaxAttempts \in Nat
        /\ attempt' = [attempt EXCEPT ![i] = attempt[i] + 1]
        /\ pending' = pending \cup {new}
        /\ client' = [client EXCEPT ![i] = "waiting"]
        /\ UNCHANGED <<rejected, reply, processed, conversions, restarts>>
    BY <1>1, ConversionAssumption DEF Call, TypeOK
  <2>2. new \in [intent : Intents, attempt : 1..MaxAttempts]
    BY <2>1
  <2>3. attempt' \in [Intents -> 0..MaxAttempts]
    BY <2>1 DEF TypeOK
  <2>4. \A j \in Intents : attempt[j] <= attempt'[j]
    BY <2>1, <2>3 DEF TypeOK
  <2>5. new.intent = i /\ new.attempt = attempt[i] + 1
    OBVIOUS
  <2> HIDE DEF new
  <2>6. Messages'
    <3>1. pending' \subseteq [intent : Intents, attempt : 1..MaxAttempts]
      BY <2>1, <2>2 DEF Messages
    <3>2. \A m \in pending' : m.attempt <= attempt'[m.intent]
      <4> SUFFICES ASSUME NEW m \in pending' PROVE m.attempt <= attempt'[m.intent]
        OBVIOUS
      <4>1. CASE m = new
        BY <4>1, <2>1, <2>5 DEF TypeOK
      <4>2. CASE m \in pending
        <5>1. m.intent \in Intents /\ m.attempt \in Nat
          BY <4>2 DEF Messages
        <5>2. m.attempt <= attempt[m.intent]
          BY <4>2 DEF Messages
        <5>3. attempt[m.intent] \in Nat /\ attempt'[m.intent] \in Nat
          BY <5>1, <2>3 DEF TypeOK
        <5> QED
          BY <5>1, <5>2, <5>3, <2>4
      <4> QED
        BY <4>1, <4>2, <2>1
    <3>3. \A w \in Workers : \A l \in Loads : \A n \in Nat :
            <<l, n>> \in processed'[w] => n <= attempt'[l]
      <4> SUFFICES ASSUME NEW w \in Workers, NEW l \in Loads, NEW n \in Nat,
                          <<l, n>> \in processed'[w]
                   PROVE  n <= attempt'[l]
        OBVIOUS
      <4>1. n <= attempt[l] /\ l \in Intents
        BY <2>1 DEF Messages, Intents
      <4>2. attempt[l] \in Nat /\ attempt'[l] \in Nat
        BY <4>1, <2>3 DEF TypeOK
      <4> QED
        BY <4>1, <4>2, <2>4
    <3>4. processed' = [w \in Workers |-> processed'[w]]
      BY <2>1 DEF Messages
    <3> QED
      BY <3>1, <3>2, <3>3, <3>4 DEF Messages
  <2>7. FreshTraces'
    <3> SUFFICES ASSUME NEW m \in pending', m.intent \in Loads,
                        NEW w \in Workers
                 PROVE  transaction_id(m) \notin processed[w]
      BY <2>1 DEF FreshTraces, transaction_id
    <3>1. CASE m \in pending
      BY <3>1 DEF FreshTraces
    <3>2. CASE m = new
      <4>1. transaction_id(m) = <<i, attempt[i] + 1>> /\ i \in Loads
        BY <3>2, <2>5, ConversionAssumption DEF transaction_id
      <4>2. <<i, attempt[i] + 1>> \in processed[w] =>
              attempt[i] + 1 <= attempt[i]
        BY <4>1, <2>1 DEF Messages
      <4> QED
        BY <4>1, <4>2, <2>1
    <3> QED
      BY <3>1, <3>2, <2>1
  <2>8. TypeOK'
    BY <1>1, <2>1, <2>2, <2>3, <2>6 DEF TypeOK, Call, Messages
  <2>9. RepliesHonest' /\ LoadSuccessIsConverted'
    BY <2>1 DEF RepliesHonest, LoadSuccessIsConverted, TypeOK, Intents
  <2> QED
    BY <2>6, <2>7, <2>8, <2>9
<1>2. ASSUME NEW m \in pending, NEW w \in Workers, HandleKnown(w, m)
      PROVE LoadInv'
  <2>1. m.intent \notin Loads
    BY <1>2 DEF HandleKnown, FreshTraces
  <2>2. /\ Answer(m, "success")
        /\ UNCHANGED <<rejected, client, attempt, processed, conversions,
                       restarts>>
    BY <1>2 DEF HandleKnown
  <2>3. /\ pending' \subseteq pending
        /\ reply' \in [Intents -> {"none", "success", "error"}]
        /\ \A i \in Intents : reply'[i] # "none" => client'[i] = "waiting"
        /\ \A i \in Intents : reply'[i] = reply[i] \/ i = m.intent
    BY <2>2, AnswerKeeps
  <2>4. TypeOK' /\ Messages'
    BY <2>2, <2>3 DEF TypeOK, Messages
  <2>5. FreshTraces'
    BY <2>2, <2>3 DEF FreshTraces, transaction_id
  <2>6. RepliesHonest' /\ LoadSuccessIsConverted'
    BY <2>1, <2>2, <2>3 DEF RepliesHonest, LoadSuccessIsConverted, Intents
  <2> QED
    BY <2>4, <2>5, <2>6
<1>3. ASSUME NEW m \in pending, NEW w \in Workers, HandleNew(w, m)
      PROVE LoadInv'
  <2> DEFINE status == IF m.intent \in rejected THEN "error" ELSE "success"
  <2>1. /\ Answer(m, status)
        /\ UNCHANGED <<rejected, client, attempt, restarts>>
        /\ processed' = [processed EXCEPT ![w] = @ \cup {transaction_id(m)}]
        /\ m.intent \in rejected => conversions' = conversions
        /\ m.intent \notin rejected =>
             conversions' = [conversions EXCEPT ![m.intent] = @ + 1]
    BY <1>3 DEF HandleNew
  <2>2. /\ m.intent \in Intents
        /\ pending' \subseteq pending
        /\ reply' \in [Intents -> {"none", "success", "error"}]
        /\ \A i \in Intents : reply'[i] # "none" => client'[i] = "waiting"
        /\ \A i \in Intents : reply'[i] = reply[i]
                              \/ (i = m.intent /\ reply'[i] = status)
    BY <2>1, AnswerKeeps
  <2>3. /\ conversions' \in [Intents -> Nat]
        /\ \A i \in Intents : conversions'[i] >= conversions[i]
        /\ m.intent \notin rejected => conversions'[m.intent] >= 1
    BY <2>1, <2>2 DEF TypeOK
  <2>4. \A v \in Workers : \A x :
          x \in processed'[v] => x \in processed[v] \/ x = transaction_id(m)
    BY <2>1
  <2>5. TypeOK'
    BY <2>1, <2>2, <2>3 DEF TypeOK
  <2>6. Messages'
    <3> SUFFICES ASSUME NEW v \in Workers, NEW l \in Loads, NEW n \in Nat,
                        <<l, n>> \in processed'[v]
                 PROVE  n <= attempt[l]
      BY <2>1, <2>2 DEF Messages
    <3>1. CASE <<l, n>> \in processed[v]
      BY <3>1 DEF Messages
    <3>2. CASE <<l, n>> = transaction_id(m)
      <4>1. l = m.intent /\ n = m.attempt
        BY <3>2, IdFacts DEF transaction_id
      <4> QED
        BY <4>1 DEF Messages
    <3> QED
      BY <3>1, <3>2, <2>4
  <2>7. FreshTraces'
    <3> SUFFICES ASSUME NEW n \in pending', n.intent \in Loads,
                        NEW v \in Workers
                 PROVE  transaction_id(n) \notin processed'[v]
      BY DEF FreshTraces, transaction_id
    <3>1. n \in pending /\ n # m
      BY <2>1 DEF Answer
    <3>2. transaction_id(n) # transaction_id(m)
      BY <3>1, IdsDiffer
    <3>3. transaction_id(n) \notin processed[v]
      BY <3>1 DEF FreshTraces
    <3> QED
      BY <3>2, <3>3, <2>4
  <2>8. RepliesHonest'
    <3> SUFFICES ASSUME NEW l \in Loads, reply'[l] = "success"
                 PROVE  conversions'[l] >= 1
      BY DEF RepliesHonest
    <3>1. l \in Intents /\ conversions[l] \in Nat /\ conversions'[l] \in Nat
      BY <2>3 DEF Intents, TypeOK
    <3>2. CASE reply'[l] = reply[l]
      BY <3>1, <3>2, <2>3 DEF RepliesHonest
    <3>3. CASE l = m.intent /\ reply'[l] = status
      BY <3>3, <2>3
    <3> QED
      BY <3>1, <3>2, <3>3, <2>2
  <2>9. LoadSuccessIsConverted'
    <3> SUFFICES ASSUME NEW l \in Loads, client'[l] = "success"
                 PROVE  conversions'[l] >= 1
      BY DEF LoadSuccessIsConverted
    <3>1. l \in Intents /\ conversions[l] \in Nat /\ conversions'[l] \in Nat
      BY <2>3 DEF Intents, TypeOK
    <3> QED
      BY <3>1, <2>1, <2>3 DEF LoadSuccessIsConverted
  <2> QED
    BY <2>5, <2>6, <2>7, <2>8, <2>9
<1>4. ASSUME NEW i \in Intents, Receive(i) PROVE LoadInv'
  <2>1. TypeOK'
    BY <1>4 DEF Receive, TypeOK
  <2>2. Messages' /\ FreshTraces'
    BY <1>4 DEF Receive, Messages, FreshTraces, transaction_id
  <2>3. RepliesHonest' /\ LoadSuccessIsConverted'
    BY <1>4
       DEF Receive, TypeOK, RepliesHonest, LoadSuccessIsConverted, Intents
  <2> QED
    BY <2>1, <2>2, <2>3
<1>5. ASSUME NEW i \in Intents, Timeout(i) PROVE LoadInv'
  <2>1. TypeOK'
    BY <1>5 DEF Timeout, TypeOK
  <2>2. Messages' /\ FreshTraces'
    BY <1>5 DEF Timeout, Messages, FreshTraces, transaction_id
  <2>3. RepliesHonest' /\ LoadSuccessIsConverted'
    BY <1>5
       DEF Timeout, TypeOK, RepliesHonest, LoadSuccessIsConverted, Intents
  <2> QED
    BY <2>1, <2>2, <2>3
<1>6. ASSUME NEW m \in pending, Lose(m) PROVE LoadInv'
  BY <1>6
     DEF Lose, TypeOK, Messages, FreshTraces, transaction_id, RepliesHonest,
         LoadSuccessIsConverted
<1>7. ASSUME NEW w \in Workers, Restart(w) PROVE LoadInv'
  <2>1. \A v \in Workers : \A x : x \in processed'[v] => x \in processed[v]
    BY <1>7 DEF Restart
  <2>2. TypeOK'
    BY <1>7, ConversionAssumption DEF Restart, TypeOK
  <2>3. Messages' /\ FreshTraces'
    BY <1>7, <2>1 DEF Restart, Messages, FreshTraces, transaction_id
  <2>4. RepliesHonest' /\ LoadSuccessIsConverted'
    BY <1>7 DEF Restart, RepliesHonest, LoadSuccessIsConverted
  <2> QED
    BY <2>2, <2>3, <2>4
<1>8. CASE UNCHANGED vars
  BY <1>8
     DEF vars, TypeOK, Messages, FreshTraces, transaction_id, RepliesHonest,
         LoadSuccessIsConverted
<1> QED
  BY <1>1, <1>2, <1>3, <1>4, <1>5, <1>6, <1>7, <1>8 DEF Next

THEOREM SpecLoadInv == Spec => []LoadInv
BY InitLoadInv, StepLoadInv, PTL DEF Spec

(* Type correctness, and the answer on its way back is to the call waited  *)
(* for, for any number of loads, payments and workers.                     *)
THEOREM SpecTypeOK == Spec => []TypeOK
<1>1. LoadInv => TypeOK
  BY DEF LoadInv
<1> QED
  BY <1>1, SpecLoadInv, PTL

(* A load reported as "Conversion Initiated" was converted (clients.py:97), *)
(* whatever calls time out, are lost or are answered late.                 *)
THEOREM SpecLoadSuccessIsConverted == Spec => []LoadSuccessIsConverted
<1>1. LoadInv => LoadSuccessIsConverted
  BY DEF LoadInv
<1> QED
  BY <1>1, SpecLoadInv, PTL

-----------------------------------------------------------------------------
(* Payments: every conversion is by a worker that still has the id, or was *)
(* followed by a restart.                                                  *)

Knowing(p) == {w \in Workers : <<p>> \in processed[w]}

Accounted ==
  \A p \in Payments : conversions[p] <= Cardinality(Knowing(p)) + restarts

LEMMA KnowingFinite ==
  ASSUME NEW p
  PROVE  IsFiniteSet(Knowing(p)) /\ Cardinality(Knowing(p)) \in Nat
<1>1. Knowing(p) \in SUBSET Workers
  BY DEF Knowing
<1> QED
  BY <1>1, FS_Subset, FS_CardinalityType, ConversionAssumption

LEMMA InitAccounted == Init => Accounted
<1> SUFFICES ASSUME Init, NEW p \in Payments
             PROVE  conversions[p] <= Cardinality(Knowing(p)) + restarts
  BY DEF Accounted
<1>1. conversions[p] = 0 /\ restarts = 0
  BY DEF Init, Intents
<1> QED
  BY <1>1, KnowingFinite

LEMMA StepAccounted == LoadInv /\ Accounted /\ [Next]_vars => Accounted'
<1> SUFFICES ASSUME LoadInv, Accounted, [Next]_vars, NEW p \in Payments
             PROVE  conversions'[p] <= Cardinality(Knowing(p)') + restarts'
  BY DEF Accounted
<1>1. /\ conversions[p] <= Cardinality(Knowing(p)) + restarts
      /\ conversions[p] \in Nat
      /\ restarts \in Nat
      /\ IsFiniteSet(Knowing(p))
      /\ Cardinality(Knowing(p)) \in Nat
  BY KnowingFinite, ConversionAssumption
     DEF Accounted, LoadInv, TypeOK, Intents
<1>2. ASSUME UNCHANGED <<processed, conversions, restarts>>
      PROVE  conversions'[p] <= Cardinality(Knowing(p)') + restarts'
  BY <1>1, <1>2 DEF Knowing
<1>3. ASSUME NEW m \in pending, NEW w \in Workers, HandleNew(w, m)
      PROVE  conversions'[p] <= Cardinality(Knowing(p)') + restarts'
  <2>1. /\ processed' = [processed EXCEPT ![w] = @ \cup {transaction_id(m)}]
        /\ transaction_id(m) \notin processed[w]
        /\ restarts' = restarts
        /\ conversions' = conversions
           \/ conversions' = [conversions EXCEPT ![m.intent] = @ + 1]
    BY <1>3 DEF HandleNew
  <2>2. m.intent \in Intents
    BY DEF LoadInv, Messages
  <2>3. CASE m.intent = p
    <3>1. transaction_id(m) = <<p>>
      BY <2>3 DEF transaction_id
    <3>2. w \notin Knowing(p)
      BY <2>1, <3>1 DEF Knowing
    <3>3. \A v \in Workers : <<p>> \in processed'[v] <=>
                               <<p>> \in processed[v] \/ v = w
      BY <2>1, <3>1 DEF LoadInv, Messages
    <3>4. Knowing(p)' = Knowing(p) \cup {w}
      BY <3>3 DEF Knowing
    <3>5. Cardinality(Knowing(p)') = Cardinality(Knowing(p)) + 1
      BY <1>1, <3>2, <3>4, FS_AddElement
    <3>6. conversions'[p] <= conversions[p] + 1
      BY <1>1, <2>1, <2>2, <2>3 DEF LoadInv, TypeOK
    <3>7. conversions'[p] \in Nat
      BY <1>1, <2>1, <2>2, <2>3 DEF LoadInv, TypeOK
    <3> QED
      BY <1>1, <2>1, <3>5, <3>6, <3>7
  <2>4. CASE m.intent # p
    <3>1. transaction_id(m) # <<p>>
      BY <2>4, IdFacts DEF transaction_id
    <3>2. \A v \in Workers : <<p>> \in processed'[v] <=> <<p>> \in processed[v]
      BY <2>1, <3>1
    <3>3. Knowing(p)' = Knowing(p)
      BY <3>2 DEF Knowing
    <3>4. conversions'[p] = conversions[p]
      BY <2>1, <2>2, <2>4 DEF LoadInv, TypeOK, Intents
    <3> QED
      BY <1>1, <2>1, <3>3, <3>4
  <2> QED
    BY <2>3, <2>4
<1>4. ASSUME NEW w \in Workers, Restart(w)
      PROVE  conversions'[p] <= Cardinality(Knowing(p)') + restarts'
  <2>1. /\ processed' = [processed EXCEPT ![w] = {}]
        /\ restarts' = restarts + 1
        /\ conversions' = conversions
    BY <1>4 DEF Restart
  <2>2. \A v \in Workers : <<p>> \in processed'[v] <=>
                             <<p>> \in processed[v] /\ v # w
    BY <2>1 DEF LoadInv, Messages
  <2>3. Knowing(p)' = Knowing(p) \ {w}
    BY <2>2 DEF Knowing
  <2>4. Cardinality(Knowing(p)') \in Nat
        /\ Cardinality(Knowing(p)') >= Cardinality(Knowing(p)) - 1
    BY <1>1, <2>3, FS_RemoveElement, FS_CardinalityType
  <2> QED
    BY <1>1, <2>1, <2>4
<1>5. ASSUME NEW i \in Intents, Call(i) \/ Receive(i) \/ Timeout(i)
      PROVE  conversions'[p] <= Cardinality(Knowing(p)') + restarts'
  BY <1>2, <1>5 DEF Call, Receive, Timeout
<1>6. ASSUME NEW m \in pending, Lose(m)
      PROVE  conversions'[p] <= Cardinality(Knowing(p)') + restarts'
  BY <1>2, <1>6 DEF Lose
<1>7. ASSUME NEW m \in pending, NEW w \in Workers, HandleKnown(w, m)
      PROVE  conversions'[p] <= Cardinality(Knowing(p)') + restarts'
  BY <1>2, <1>7 DEF HandleKnown
<1>8. CASE UNCHANGED vars
  BY <1>2, <1>8 DEF vars
<1> QED
  BY <1>3, <1>4, <1>5, <1>6, <1>7, <1>8 DEF Next

(* However often a payment is delivered, and to whichever workers, it is   *)
(* converted at most once per worker and restart (logic.py:56-61).         *)
THEOREM SpecPaymentConversionsBounded == Spec => []PaymentConversionsBounded
<1>1. LoadInv /\ Accounted => PaymentConversionsBounded
  <2> SUFFICES ASSUME LoadInv, Accounted, NEW p \in Payments
               PROVE  conversions[p] <= Cardinality(Workers) + restarts
    BY DEF PaymentConversionsBounded
  <2>1. restarts \in Nat /\ conversions[p] \in Nat
    BY ConversionAssumption DEF LoadInv, TypeOK, Intents
  <2>2. Knowing(p) \in SUBSET Workers
    BY DEF Knowing
  <2>3. /\ Cardinality(Knowing(p)) <= Cardinality(Workers)
        /\ Cardinality(Knowing(p)) \in Nat
        /\ Cardinality(Workers) \in Nat
    BY <2>2, FS_Subset, FS_CardinalityType, KnowingFinite, ConversionAssumption
  <2> QED
    BY <2>1, <2>3 DEF Accounted
<1> QED
  BY <1>1, SpecLoadInv, InitAccounted, StepAccounted, PTL DEF Spec

-----------------------------------------------------------------------------
(* Card issuance.  GateInv adds to the two properties what the history     *)
(* knows of a request that is still running, and that the status a request *)
(* has read is covered by it.                                              *)

(* The history is up to date for the requests that are running.            *)
Observed ==
  \A q \in Requests :
    Running(q) =>
      /\ Approved(tier[UserOf[q]]) => q \in approved
      /\ ~Approved(tier[UserOf[q]]) \/ db_conn # "open" => q \in refusable

(* The status a request decides on has a cause while it ran.               *)
StatusCovered ==
  \A q \in Requests :
    pc[q] = "decide" =>
      IF is_kyc_tier_approved(kyc[q]) THEN q \in approved
                                      ELSE q \in refusable

GateInv ==
  /\ IssuanceTypeOK /\ Observed /\ StatusCovered
  /\ IssuedWasApproved /\ RefusedForAReason

LEMMA InitGateInv == IssuanceInit => GateInv
<1> SUFFICES ASSUME IssuanceInit PROVE GateInv
  OBVIOUS
<1>1. IssuanceTypeOK
  BY CardAssumption DEF IssuanceInit, IssuanceTypeOK, Failed
<1>2. \A q \in Requests : ~Running(q)
  BY DEF IssuanceInit, Running
<1> QED
  BY <1>1, <1>2
     DEF IssuanceInit, GateInv, Observed, StatusCovered, IssuedWasApproved,
         RefusedForAReason

(* Every tier a user can have is a number or no row.                       *)
LEMMA TierFacts ==
  ASSUME IssuanceTypeOK, NEW q \in Requests
  PROVE  /\ UserOf[q] \in Users
         /\ tier[UserOf[q]] \in (0..MaxTier) \cup {NoTier}
BY CardAssumption DEF IssuanceTypeOK, Tiers

LEMMA StepGateInv == GateInv /\ [IssuanceNext]_issuanceVars => GateInv'
<1> SUFFICES ASSUME GateInv, [IssuanceNext]_issuanceVars PROVE GateInv'
  OBVIOUS
<1> USE DEF GateInv
<1>1. ASSUME NEW q \in Requests, ReceiveRequest(q) PROVE GateInv'
  <2>1. IssuanceTypeOK'
    BY <1>1 DEF ReceiveRequest, IssuanceTypeOK
  <2>2. Observed'
    BY <1>1 DEF ReceiveRequest, IssuanceTypeOK, Observed, Running
  <2> QED
    BY <1>1, <2>1, <2>2
       DEF ReceiveRequest, IssuanceTypeOK, StatusCovered, IssuedWasApproved, RefusedForAReason
<1>2. ASSUME NEW q \in Requests, QueryAnswers(q) PROVE GateInv'
  <2> DEFINE k == IF tier[UserOf[q]] = NoTier THEN NotFound
                  ELSE [status |-> "tier", tier |-> tier[UserOf[q]]]
  <2>1. /\ kyc' = [kyc EXCEPT ![q] = k]
        /\ pc' = [pc EXCEPT ![q] = "decide"]
        /\ pc[q] = "kyc"
        /\ UNCHANGED <<tier, issued, db_conn, approved, refusable>>
    BY <1>2 DEF QueryAnswers, Read
  <2>2. k \in [status : {"failed", "not_found", "tier"}, tier : 0..MaxTier]
    BY TierFacts, CardAssumption DEF NotFound
  <2>3. is_kyc_tier_approved(k) <=> Approved(tier[UserOf[q]])
    BY TierFacts, CardAssumption
       DEF is_kyc_tier_approved, Approved, NotFound
  <2> HIDE DEF k
  <2>4. IssuanceTypeOK'
    BY <2>1, <2>2 DEF IssuanceTypeOK
  <2>5. \A r \in Requests : Running(r)' <=> Running(r)
    BY <2>1 DEF Running, IssuanceTypeOK
  <2>6. Observed'
    BY <2>1, <2>5 DEF Observed
  <2>7. StatusCovered'
    <3> SUFFICES ASSUME NEW r \in Requests, pc'[r] = "decide"
                 PROVE IF is_kyc_tier_approved(kyc'[r]) THEN r \in approved
                                                        ELSE r \in refusable
      BY <2>1 DEF StatusCovered
    <3>1. CASE r = q
      BY <3>1, <2>1, <2>3 DEF Observed, Running, IssuanceTypeOK
    <3>2. CASE r # q
      BY <3>2, <2>1 DEF StatusCovered, IssuanceTypeOK
    <3> QED
      BY <3>1, <3>2
  <2> QED
    BY <2>1, <2>4, <2>6, <2>7 DEF IssuanceTypeOK, IssuedWasApproved, RefusedForAReason
<1>3. ASSUME NEW q \in Requests, QueryFails(q) PROVE GateInv'
  <2>1. IssuanceTypeOK'
    BY <1>3, CardAssumption DEF QueryFails, Read, Observe, Failed, IssuanceTypeOK
  <2>2. /\ \A r \in Requests : Running(r) => r \in refusable'
        /\ approved \subseteq approved'
        /\ refusable \subseteq refusable'
    BY <1>3 DEF QueryFails, Observe
  <2>3. \A r \in Requests : Running(r)' <=> Running(r)
    BY <1>3 DEF QueryFails, Read, Running, IssuanceTypeOK
  <2>4. Observed'
    BY <1>3, <2>2, <2>3 DEF QueryFails, Read, Observed
  <2>5. ~is_kyc_tier_approved(Failed)
    BY DEF is_kyc_tier_approved, Failed
  <2>6. StatusCovered'
    <3> SUFFICES ASSUME NEW r \in Requests, pc'[r] = "decide"
                 PROVE IF is_kyc_tier_approved(kyc'[r]) THEN r \in approved'
                                                        ELSE r \in refusable'
      BY DEF StatusCovered
    <3>1. CASE r = q
      BY <3>1, <1>3, <2>2, <2>5 DEF QueryFails, Read, Running, IssuanceTypeOK
    <3>2. CASE r # q
      BY <3>2, <1>3, <2>2 DEF QueryFails, Read, StatusCovered, IssuanceTypeOK
    <3> QED
      BY <3>1, <3>2
  <2> QED
    BY <1>3, <2>1, <2>2, <2>4, <2>6
       DEF QueryFails, Read, IssuanceTypeOK, IssuedWasApproved, RefusedForAReason
<1>4. ASSUME NEW q \in Requests, QueryRefused(q) PROVE GateInv'
  <2>1. IssuanceTypeOK'
    BY <1>4, CardAssumption DEF QueryRefused, Read, Failed, IssuanceTypeOK
  <2>2. \A r \in Requests : Running(r)' <=> Running(r)
    BY <1>4 DEF QueryRefused, Read, Running, IssuanceTypeOK
  <2>3. Observed'
    BY <1>4, <2>2 DEF QueryRefused, Read, Observed
  <2>4. ~is_kyc_tier_approved(Failed)
    BY DEF is_kyc_tier_approved, Failed
  <2>5. StatusCovered'
    <3> SUFFICES ASSUME NEW r \in Requests, pc'[r] = "decide"
                 PROVE IF is_kyc_tier_approved(kyc'[r]) THEN r \in approved'
                                                        ELSE r \in refusable'
      BY DEF StatusCovered
    <3>1. CASE r = q
      BY <3>1, <1>4, <2>4 DEF QueryRefused, Read, Observed, Running, IssuanceTypeOK
    <3>2. CASE r # q
      BY <3>2, <1>4 DEF QueryRefused, Read, StatusCovered, IssuanceTypeOK
    <3> QED
      BY <3>1, <3>2
  <2> QED
    BY <1>4, <2>1, <2>3, <2>5
       DEF QueryRefused, Read, IssuanceTypeOK, IssuedWasApproved, RefusedForAReason
<1>5. ASSUME NEW q \in Requests, Decide(q) PROVE GateInv'
  <2>1. IssuanceTypeOK'
    BY <1>5 DEF Decide, IssuanceTypeOK
  <2>2. Observed'
    BY <1>5 DEF Decide, Observed, Running, IssuanceTypeOK
  <2>3. StatusCovered'
    BY <1>5 DEF Decide, StatusCovered, IssuanceTypeOK
  <2> QED
    BY <1>5, <2>1, <2>2, <2>3
       DEF Decide, IssuanceTypeOK, StatusCovered, IssuedWasApproved, RefusedForAReason
<1>6. ASSUME NEW u \in Users, ChangeTier(u) PROVE GateInv'
  <2>1. IssuanceTypeOK'
    BY <1>6 DEF ChangeTier, Observe, IssuanceTypeOK
  <2>2. /\ approved \subseteq approved'
        /\ refusable \subseteq refusable'
    BY <1>6 DEF ChangeTier, Observe
  <2>3. Observed'
    BY <1>6 DEF ChangeTier, Observe, Observed, Running
  <2> QED
    BY <1>6, <2>1, <2>2, <2>3
       DEF ChangeTier, StatusCovered, IssuedWasApproved, RefusedForAReason
<1>7. CASE RestartPlatform
  <2>1. IssuanceTypeOK'
    BY <1>7 DEF RestartPlatform, IssuanceTypeOK
  <2>2. \A r \in Requests : /\ ~Running(r)'
                            /\ pc'[r] # "decide"
                            /\ pc'[r] = "refused" => pc[r] = "refused"
    BY <1>7 DEF RestartPlatform, Running
  <2> QED
    BY <1>7, <2>1, <2>2
       DEF RestartPlatform, Observed, StatusCovered, IssuedWasApproved,
           RefusedForAReason
<1>8. CASE UNCHANGED issuanceVars
  BY <1>8 DEF issuanceVars, IssuanceTypeOK, Observed, Running, StatusCovered,
              IssuedWasApproved, RefusedForAReason
<1> QED
  BY <1>1, <1>2, <1>3, <1>4, <1>5, <1>6, <1>7, <1>8 DEF IssuanceNext

THEOREM SpecGateInv == IssuanceSpec => []GateInv
BY InitGateInv, StepGateInv, PTL DEF IssuanceSpec

(* Type correctness for any number of users, requests and tiers: what was  *)
(* read is a tier of the table, "not found" or "failed".                   *)
THEOREM SpecIssuanceTypeOK == IssuanceSpec => []IssuanceTypeOK
<1>1. GateInv => IssuanceTypeOK
  BY DEF GateInv
<1> QED
  BY <1>1, SpecGateInv, PTL

(* No card without Tier 3 at some time while the request ran               *)
(* (main.py:45-48, clients.py:81), for any number of users and requests.   *)
THEOREM SpecIssuedWasApproved == IssuanceSpec => []IssuedWasApproved
<1>1. GateInv => IssuedWasApproved
  BY DEF GateInv
<1> QED
  BY <1>1, SpecGateInv, PTL

(* No refusal without a reason (clients.py:90), for any number of users    *)
(* and requests.                                                           *)
THEOREM SpecRefusedForAReason == IssuanceSpec => []RefusedForAReason
<1>1. GateInv => RefusedForAReason
  BY DEF GateInv
<1> QED
  BY <1>1, SpecGateInv, PTL

=============================================================================
