-------------------------------- MODULE Outbox --------------------------------
(***************************************************************************)
(* The email worker of the dashboard, POST /api/cron/email-worker, and its *)
(* table notification_outbox.                                              *)
(*                                                                         *)
(* After the body has arrived the handler runs to its answer without an    *)
(* await, and one Node process holds the database: a run of the worker is  *)
(* one step.  A run that commits and dies before it has stored its key is  *)
(* WorkAndDie.  Nothing in the repository inserts into the table; Enqueue  *)
(* stands for the features that will.                                      *)
(***************************************************************************)
EXTENDS Naturals, Sequences, FiniteSets

CONSTANTS
  Recipients,   \* addresses
  Failing,      \* the addresses that contain "fail"
  RunKeys,      \* idempotency keys callers send
  NoKey,        \* neither the header nor the body has a key
  Batch,        \* LIMIT 25
  MAX_ATTEMPTS, \* 5
  NoReport,     \* the Map has no entry
  TickLength,   \* minutes between two instants of the model
  MaxQuiet,     \* bound on the minutes remembered since an attempt
  MaxEmails,    \* bound on the table
  MaxRestarts   \* bound on the restarts of the process

ASSUME OutboxAssumption ==
  /\ Failing \subseteq Recipients
  /\ NoKey \notin RunKeys
  /\ {Batch, MAX_ATTEMPTS, TickLength} \subseteq Nat \ {0}
  /\ {MaxQuiet, MaxEmails, MaxRestarts} \subseteq Nat
  /\ NoReport \notin [processed : Nat, sent : Nat, deferred : Nat, failed : Nat]

VARIABLES
  outbox,          \* notification_outbox: [recipient, status, attempts, wait];
                   \* wait: the minutes until next_attempt_at, 0 if due
  cronIdempotency, \* the Map: the report of the run that had the key
  restarts,        \* how often the process has been restarted
  quiet,           \* history: minutes since the last attempt of each email
  runs             \* history: committed runs of the worker, by key

outboxVars == <<outbox, cronIdempotency, restarts, quiet, runs>>

-----------------------------------------------------------------------------
Lesser(a, b) == IF a <= b THEN a ELSE b

(* Minutes, for the number of failed attempts.                             *)
computeBackoffMinutes(attempts) ==
  Lesser(60, 2 ^ (IF attempts = 0 THEN 1 ELSE attempts))

(* The bound MaxQuiet lets the history tell whether a backoff is over.     *)
ASSUME QuietAssumption ==
  \A n \in 1..(MAX_ATTEMPTS - 1) : computeBackoffMinutes(n) <= MaxQuiet

(* Variant of Due: next_attempt_at is not compared.                        *)
Due_Pending == {i \in DOMAIN outbox : outbox[i].status = "pending"}

(* WHERE status = 'pending' AND (next_attempt_at IS NULL OR <= now)        *)
Due == {i \in DOMAIN outbox : outbox[i].status = "pending" /\ outbox[i].wait = 0}

(* ORDER BY created_at ASC LIMIT 25                                        *)
Jobs == {i \in Due : Cardinality({j \in Due : j < i}) < Batch}

markSent(row) ==
  [row EXCEPT !.status = "sent", !.attempts = @ + 1, !.wait = 0]

markFailed(row) ==
  [row EXCEPT !.status = "failed", !.attempts = @ + 1, !.wait = 0]

(* Variant of markRetry: attempts is not counted.                          *)
markRetry_Uncounted(row) ==
  [row EXCEPT !.wait = computeBackoffMinutes(row.attempts + 1)]

markRetry(row) ==
  [row EXCEPT !.attempts = @ + 1,
              !.wait = computeBackoffMinutes(row.attempts + 1)]

(* Variant of Attempted: one attempt more.                                 *)
Attempted_Above(i, broken) ==
  IF outbox[i].recipient \notin Failing /\ i \notin broken
  THEN markSent(outbox[i])
  ELSE IF outbox[i].attempts + 1 > MAX_ATTEMPTS
  THEN markFailed(outbox[i])
  ELSE markRetry(outbox[i])

(* One job; broken are the jobs whose markSent raises.                     *)
Attempted(i, broken) ==
  IF outbox[i].recipient \notin Failing /\ i \notin broken
  THEN markSent(outbox[i])
  ELSE IF outbox[i].attempts + 1 >= MAX_ATTEMPTS
  THEN markFailed(outbox[i])
  ELSE markRetry(outbox[i])

Transacted(broken) ==
  [i \in DOMAIN outbox |->
     IF i \in Jobs THEN Attempted(i, broken) ELSE outbox[i]]

Ended(broken, status) ==
  Cardinality({i \in Jobs : Attempted(i, broken).status = status})

Report(broken) ==
  [processed |-> Cardinality(Jobs), sent |-> Ended(broken, "sent"),
   deferred |-> Ended(broken, "pending"), failed |-> Ended(broken, "failed")]

-----------------------------------------------------------------------------
NoReports == [k \in RunKeys |-> NoReport]

OutboxInit ==
  /\ outbox          = << >>
  /\ cronIdempotency = NoReports
  /\ restarts        = 0
  /\ quiet           = << >>
  /\ runs            = [k \in RunKeys \cup {NoKey} |-> 0]

Enqueue(recipient) ==
  /\ Len(outbox) < MaxEmails
  /\ outbox' = Append(outbox, [recipient |-> recipient, status |-> "pending",
                               attempts |-> 0, wait |-> 0])
  /\ quiet' = Append(quiet, 0)
  /\ UNCHANGED <<cronIdempotency, restarts, runs>>

(* Time passes; the wait of a settled email means nothing.                 *)
Tick ==
  /\ outbox' = [i \in DOMAIN outbox |->
                  [outbox[i] EXCEPT !.wait =
                     IF @ <= TickLength THEN 0 ELSE @ - TickLength]]
  /\ quiet' = [i \in DOMAIN quiet |->
                 IF outbox[i].attempts = 0 \/ outbox[i].status # "pending"
                 THEN 0 ELSE Lesser(MaxQuiet, quiet[i] + TickLength)]
  /\ UNCHANGED <<cronIdempotency, restarts, runs>>

(* The transaction of a run, and what the run remembers of it.             *)
Commit(k, broken) ==
  /\ outbox' = Transacted(broken)
  /\ quiet'  = [i \in DOMAIN quiet |-> IF i \in Jobs THEN 0 ELSE quiet[i]]
  /\ runs'   = [runs EXCEPT ![k] = IF k = NoKey THEN 0 ELSE @ + 1]

Fresh(k) == k \in RunKeys => cronIdempotency[k] = NoReport

(* Variant of Remember: the report is stored only if something was sent.   *)
Remember_Sent(k, broken) ==
  cronIdempotency' =
    IF k = NoKey \/ Report(broken).sent = 0 THEN cronIdempotency
    ELSE [cronIdempotency EXCEPT ![k] = Report(broken)]

Remember(k, broken) ==
  cronIdempotency' = IF k = NoKey THEN cronIdempotency
                     ELSE [cronIdempotency EXCEPT ![k] = Report(broken)]

(* A run.  A key that has an entry gets that entry, and nothing changes;   *)
(* an error while an error is recorded rolls everything back: HTTP 500.    *)
Work(k) ==
  /\ Fresh(k)
  /\ \E broken \in SUBSET Jobs : Commit(k, broken) /\ Remember(k, broken)
  /\ UNCHANGED restarts

(* The process dies after the transaction: the Map is gone, also the key.  *)
WorkAndDie(k) ==
  /\ restarts < MaxRestarts
  /\ Fresh(k)
  /\ \E broken \in SUBSET Jobs : Commit(k, broken)
  /\ cronIdempotency' = NoReports
  /\ restarts' = restarts + 1

Restart ==
  /\ restarts < MaxRestarts
  /\ cronIdempotency' = NoReports
  /\ restarts' = restarts + 1
  /\ UNCHANGED <<outbox, quiet, runs>>

OutboxNext ==
  \/ \E recipient \in Recipients : Enqueue(recipient)
  \/ Tick
  \/ \E k \in RunKeys \cup {NoKey} : Work(k) \/ WorkAndDie(k)
  \/ Restart

OutboxSpec == OutboxInit /\ [][OutboxNext]_outboxVars

(* Time passes.  Nothing is assumed about calls of the worker: the entry   *)
(* of vercel.json calls with GET and the route has a POST only, so in this *)
(* repository nobody has to call it.                                       *)
OutboxFairSpec == OutboxSpec /\ WF_outboxVars(Tick)

-----------------------------------------------------------------------------
Statuses == {"pending", "sent", "failed"}

RowType == [recipient : Recipients, status : Statuses,
            attempts : 0..MAX_ATTEMPTS, wait : 0..60]

ReportType == [processed : Nat, sent : Nat, deferred : Nat, failed : Nat]

(* An email is pending exactly as long as attempts are left to it, unless  *)
(* it was sent (schema.ts:61-72).                                          *)
OutboxTypeOK ==
  /\ outbox \in Seq(RowType)
  /\ \A i \in DOMAIN outbox :
       /\ outbox[i].status = "pending" => outbox[i].attempts < MAX_ATTEMPTS
       /\ outbox[i].status = "failed" => outbox[i].attempts = MAX_ATTEMPTS
  /\ cronIdempotency \in [RunKeys -> ReportType \cup {NoReport}]
  /\ restarts \in 0..MaxRestarts
  /\ quiet \in Seq(Nat)
  /\ Len(quiet) = Len(outbox)
  /\ runs \in [RunKeys \cup {NoKey} -> Nat]

(* However often, with whatever keys and between whatever crashes the      *)
(* worker is called: an email that is sent or given up is not touched any  *)
(* more; one that failed is not tried again before its backoff is over;    *)
(* and no email is tried before an older one that is due too               *)
(* (route.ts:37-46, 54-70).                                                *)
AttemptsOrderly ==
  [][\A i \in DOMAIN outbox :
       /\ outbox[i].status # "pending" => outbox'[i] = outbox[i]
       /\ outbox'[i].attempts # outbox[i].attempts =>
            /\ outbox'[i].attempts = outbox[i].attempts + 1
            /\ \/ outbox[i].attempts = 0
               \/ quiet[i] >= computeBackoffMinutes(outbox[i].attempts)
            /\ \A j \in Due :
                 j < i => outbox'[j].attempts # outbox[j].attempts
    ]_outboxVars

(* A key stands for at most one run in the life of a process: calls that   *)
(* are repeated, because the answer was lost or the schedule fires twice,  *)
(* do not use up attempts of the emails (route.ts:31-35, 103-105).         *)
KeyRunsOnce == \A k \in RunKeys : runs[k] <= 1 + restarts

(* Some client goes on calling with POST, the secret and a fresh key or    *)
(* none, as README.md:63 of the dashboard does by hand; not a fairness of  *)
(* the specification but the condition of the next property.               *)
WorkerIsCalled == WF_outboxVars(\E k \in RunKeys \cup {NoKey} : Work(k))

(* If the worker is called for as long as there is something to do, every  *)
(* email is sent or given up: it is neither starved by older emails that   *)
(* fail again and again nor retried for ever (route.ts:43-44, 82-88).      *)
SettlesWhileCalled ==
  WorkerIsCalled =>
    \A i \in 1..MaxEmails :
      (i \in DOMAIN outbox) ~>
        (i \in DOMAIN outbox /\ outbox[i].status # "pending")

=============================================================================
