---------------------------- MODULE FundConversion ----------------------------
(***************************************************************************)
(* Money on its way into the converter service: the card platform's        *)
(* /api/v1/funds/load, which calls /internal/transfer_funds, and the       *)
(* payment provider's webhook /webhook/fiat_received.  The converter runs  *)
(* several worker processes, each with its own in-memory set of processed  *)
(* transactions.  Both handlers are coroutines without an await after the  *)
(* request is read, so a worker handles a message in one step.             *)
(***************************************************************************)
EXTENDS Naturals, FiniteSets

CONSTANTS
  Loads,        \* fund loads that users of the card platform want once
  Payments,     \* fiat payments the provider notifies, by transaction_id
  Workers,      \* worker processes of the converter
  MaxAttempts,  \* bound on the calls made for one load or payment
  MaxRestarts   \* bound on the restarts of workers

ASSUME ConversionAssumption ==
  /\ Loads \cap Payments = {}
  /\ IsFiniteSet(Workers)
  /\ MaxAttempts \in Nat
  /\ MaxRestarts \in Nat

Intents == Loads \cup Payments

VARIABLES
  rejected,     \* the intents whose amount or currency the converter refuses
  client,       \* client[i]: what the caller knows of intent i
  attempt,      \* attempt[i]: calls made for i so far
  pending,      \* calls sent and not yet handled
  reply,        \* reply[i]: answer to the current call, on its way back
  processed,    \* processed[w]: processed_transactions of worker w
  conversions,  \* history: conversions[i], how often i was converted
  restarts      \* history: restarts of workers so far

vars == <<rejected, client, attempt, pending, reply, processed, conversions,
          restarts>>

-----------------------------------------------------------------------------
(* Variant of transaction_id: one trace id for all calls of a load.        *)
transaction_id_PerIntent(m) == <<m.intent>>

(* A webhook carries its transaction_id; a load gets a fresh trace_id with *)
(* every call.                                                             *)
transaction_id(m) ==
  IF m.intent \in Payments THEN <<m.intent>> ELSE <<m.intent, m.attempt>>

Init ==
  /\ rejected    \in SUBSET Intents
  /\ client      = [i \in Intents |-> "new"]
  /\ attempt     = [i \in Intents |-> 0]
  /\ pending     = {}
  /\ reply       = [i \in Intents |-> "none"]
  /\ processed   = [w \in Workers |-> {}]
  /\ conversions = [i \in Intents |-> 0]
  /\ restarts    = 0

(* A user, or the provider, calls; after an error it may call again.       *)
Call(i) ==
  /\ client[i] \in {"new", "error"}
  /\ attempt[i] < MaxAttempts
  /\ attempt' = [attempt EXCEPT ![i] = @ + 1]
  /\ pending' = pending \cup {[intent |-> i, attempt |-> attempt[i] + 1]}
  /\ client'  = [client EXCEPT ![i] = "waiting"]
  /\ UNCHANGED <<rejected, reply, processed, conversions, restarts>>

(* The answer reaches the caller only if it still waits for this call.     *)
Answer(m, status) ==
  /\ pending' = pending \ {m}
  /\ reply' = IF client[m.intent] = "waiting" /\ attempt[m.intent] = m.attempt
              THEN [reply EXCEPT ![m.intent] = status] ELSE reply

(* is_already_processed: the idempotent answer is a success.               *)
HandleKnown(w, m) ==
  /\ transaction_id(m) \in processed[w]
  /\ Answer(m, "success")
  /\ UNCHANGED <<rejected, client, attempt, processed, conversions, restarts>>

(* Variant of HandleNew: the idempotency check is gone.                    *)
HandleNew_NoCheck(w, m) ==
  /\ processed' = [processed EXCEPT ![w] = @ \cup {transaction_id(m)}]
  /\ IF m.intent \in rejected
     THEN /\ Answer(m, "error")
          /\ UNCHANGED conversions
     ELSE /\ Answer(m, "success")
          /\ conversions' = [conversions EXCEPT ![m.intent] = @ + 1]
  /\ UNCHANGED <<rejected, client, attempt, restarts>>

(* The id is recorded first, then the conversion runs or raises.           *)
HandleNew(w, m) ==
  /\ transaction_id(m) \notin processed[w]
  /\ processed' = [processed EXCEPT ![w] = @ \cup {transaction_id(m)}]
  /\ IF m.intent \in rejected
     THEN /\ Answer(m, "error")
          /\ UNCHANGED conversions
     ELSE /\ Answer(m, "success")
          /\ conversions' = [conversions EXCEPT ![m.intent] = @ + 1]
  /\ UNCHANGED <<rejected, client, attempt, restarts>>

(* raise_for_status; the card platform turns an error into a 503.          *)
Receive(i) ==
  /\ client[i] = "waiting"
  /\ reply[i] # "none"
  /\ client' = [client EXCEPT ![i] = reply[i]]
  /\ reply'  = [reply EXCEPT ![i] = "none"]
  /\ UNCHANGED <<rejected, attempt, pending, processed, conversions, restarts>>

(* Variant of Timeout: a late answer is taken for the next call's.         *)
Timeout_KeepsReply(i) ==
  /\ client[i] = "waiting"
  /\ client' = [client EXCEPT ![i] = "error"]
  /\ UNCHANGED <<rejected, attempt, pending, reply, processed, conversions,
                 restarts>>

(* timeout=5: the caller gives up, the call stays with the converter.      *)
Timeout(i) ==
  /\ client[i] = "waiting"
  /\ client' = [client EXCEPT ![i] = "error"]
  /\ reply'  = [reply EXCEPT ![i] = "none"]
  /\ UNCHANGED <<rejected, attempt, pending, processed, conversions, restarts>>

(* A call is lost with its connection.                                     *)
Lose(m) ==
  /\ pending' = pending \ {m}
  /\ UNCHANGED <<rejected, client, attempt, reply, processed, conversions,
                 restarts>>

Restart(w) ==
  /\ restarts < MaxRestarts
  /\ restarts'  = restarts + 1
  /\ processed' = [processed EXCEPT ![w] = {}]
  /\ UNCHANGED <<rejected, client, attempt, pending, reply, conversions>>

Next ==
  \/ \E i \in Intents : Call(i) \/ Receive(i) \/ Timeout(i)
  \/ \E m \in pending :
       \/ Lose(m)
       \/ \E w \in Workers : HandleKnown(w, m) \/ HandleNew(w, m)
  \/ \E w \in Workers : Restart(w)

Spec == Init /\ [][Next]_vars

-----------------------------------------------------------------------------
(* The call that is answered is the one waited for.                        *)
TypeOK ==
  /\ rejected \subseteq Intents
  /\ client \in [Intents -> {"new", "waiting", "success", "error"}]
  /\ attempt \in [Intents -> 0..MaxAttempts]
  /\ \A m \in pending : m.intent \in Intents /\ m.attempt \in 1..MaxAttempts
  /\ reply \in [Intents -> {"none", "success", "error"}]
  /\ \A i \in Intents : reply[i] # "none" => client[i] = "waiting"
  /\ conversions \in [Intents -> Nat]
  /\ restarts \in 0..MaxRestarts

(* However often a payment is delivered, each worker converts it at most   *)
(* once between two restarts (logic.py:56-61).                             *)
PaymentConversionsBounded ==
  \A p \in Payments : conversions[p] <= Cardinality(Workers) + restarts

(* A fund load reported as "Conversion Initiated" was converted at least   *)
(* once, never answered from a failed earlier call (clients.py:97).        *)
LoadSuccessIsConverted ==
  \A l \in Loads : client[l] = "success" => conversions[l] >= 1

(* What the repository says of these calls, not met by the code:           *)

(* main.py:101, "already processed (Idempotent success)": a payment whose  *)
(* delivery is answered with success was converted.                        *)
PaymentSuccessIsConverted ==
  \A p \in Payments : client[p] = "success" => conversions[p] >= 1

=============================================================================
