# Verification of the fintech microservices core

TLA+ specifications of this repository's compliance service and of the two money
services around it, model-checked with TLC and, for their main safety properties,
proved with TLAPS. Paths are relative to the repository; the modules are in this
directory; `PROJECT.json` maps every definition to the lines it models and lists the
runs, the mutants that show each property can fail, the findings, the hazards and the
theorems.

## 1. The system

| component | state it keeps | operations that change it |
|---|---|---|
| Audit trail, `compliance_agents/audit_trail/agent.py`, `shared/storage.py` | table `audit_log`; one process-wide lock | `_append` behind every `record_*`; `verify_chain_integrity` and `query` only read |
| Pipeline, `compliance_agents/orchestrator.py`, `main.py` | the locals of the requests in flight | `/compliance/screen`, `/ingest`, `/override`, `/report/sar`, `/watchlist/upload` |
| Data ingestion, `data_ingestion/agent.py` | `ingested_records`, `watchlist_versions` | `ingest`, `ingest_batch`, `ingest_watchlist` |
| Screening, `screening/agent.py`, `screening/rules.py` | `screening_results` | rules R001-R007, model cascade, aggregation, `_persist` |
| Reporting, `reporting/agent.py` | `sar_reports`, `compliance_reports` | `generate_sar`, `generate_compliance_report` |
| Governance, `governance/engine.py` | only audit entries | sweep, framework assessment, bias analysis |
| Converter, `converter_service/` | `processed_transactions`, a set in the memory of each worker | `/internal/transfer_funds`, `/webhook/fiat_received` |
| Card platform, `card_platform_service/` | one database connection per process | `/api/v1/cards/issue`, `/api/v1/funds/load` |
| Dashboard server, `apps/gem-atr-digital-easyway/` | SQLite: deposits, cards, ledger, webhook events, email outbox; in memory: rate limits, keys of the worker's runs | deposits, card requests, webhook, email worker |

**Interactions.** A screening request runs ingestion, screening, audit and possibly
reporting, one after the other, in one thread; the agents share nothing but the SQLite
tables. Each helper opens `db_cursor` for itself, so a request is a row of separate
transactions with others in between. The card platform calls the converter over HTTP
with a 5 second timeout; the payment provider calls the converter's webhook and repeats
what was not answered with success. Governance sweeps and periodic reports read the audit
log through the same cursor, in several transactions, while requests append to it. The
dashboard server is a Node process of its own with its own database file.

**What is hard.** FastAPI runs the compliance endpoints, plain functions, on a thread
pool: every check-then-act over two cursors is a race. `_append` reads twice before its
INSERT takes any SQLite lock. A request can fail or die between any two calls, and the
client then repeats it. Rows are refused without an error by `INSERT OR IGNORE`. The
converter's idempotency is per process and forgotten at a restart, its callers give up
while it works. The card platform shares one connection between threads and never rolls
back. A dashboard handler runs alone between two awaits, but each of its statements
commits by itself. `PROJECT.json` "hazards" lists each of these at its line.

**What makes each component correct.**
- *Audit trail*: numbers dense, chain verifiable, never forked, an entry returned is
  there for good, failed appends leave nothing behind - also not the lock.
- *Pipeline*: what a client is told can be found in the audit log; the trail of a record
  has the order of the pipeline; every request ends.
- *Ingestion*: a duplicate names a stored original; an answered client that repeats
  itself is recognised. *Watchlists*: what was told is stored, screenings are not stale.
- *Screening*: the model escalates and never downgrades; what is let through together
  respects the limits however it interleaves.
- *Reporting*: a SAR rests on decisions about its user only, and on all that it has to:
  the one that raised it, or those that clients had been told before they asked.
- *Governance and periodic reports*: a reader judges the whole window it names, does not
  contradict itself, and leaves the evidence the next sweep needs.
- *Converter and card platform*: no success without a conversion, a bounded number of
  conversions; a card for exactly those who pass the KYC gate while they ask.
- *Dashboard server*: a deposit is credited at most once, a user has at most one card, a
  retry is told about the row of its first answer, an event is fresh once; a queued
  email is tried in order and not before its backoff is over, and sent or given up if the
  worker is called often enough.

## 2. The modules

`AuditTrail` (with `AuditLedger`) - `compliance_agents/audit_trail/agent.py:448-524`,
`364-446`, `shared/storage.py:26-46`. A step per SQL statement of `_append`: `ReadLast`
(enter `db_cursor`, SELECT the last row with a non-zero hash), `ReadCount`, then
`Insert`, `InsertConflict` (unique index) or `Abandon` (any other error, or death).
`lock[p]` is the `threading.Lock` of process `p`. `ExternalWrite` puts in the corrupt
rows the code tells of ("null write from failed run"), in the two shapes the verifier
knows. The verifier is `BrokenLinks`. SHA-256 is taken as injective, so a digest is the
content it hashes. `AuditLedger` is the promise: one atomic append. `AuditTrail`
instantiates it with a refinement mapping (`Ledger`) in which the position a row links
to is recovered from its hash.

`ScreeningRules` - the pure part of a screening: the cascade of model providers
(`_call_provider`, `_run_llm_cascade`: an outcome per provider, the first usable reply
wins, one that names no known risk counts as no reply), `aggregate_decision`, `final_risk`
and `final_decision` (`rules.py:90-101`, `screening/agent.py:244-386`).

`CompliancePipeline` extends it - a step per database call of a request, `pc[r]` its next
call; `records`, `screenings`, `audit`, `sars` are the tables, `dup_of`, `since`,
`verdict`, `sar` the locals. A request writes at most one row of each kind, so it stands
for their random ids. `version_id` is what the hash tells apart: payloads in `Stamped`
carry a timestamp, the others get the time of their arrival and never equal another
request's. An audit entry is one step: that is what `ImplementsLedger` of `AuditTrail`
allows, and how the two modules compose. `Inquiries` are the requests to `/report/sar`:
they run only the report steps, over a window that reaches back as far as the client asks
(`ReceiveInquiry`). `Fail` is an exception outside the SAR block (HTTP 500), `SarFail` one
that the SAR block swallows, `Crash` the death of the process. The verdict of the rules
and the replies of the providers are inputs; whether the model is asked is the code's
choice (`should_run_llm`). `Workloads` names the sets of requests explored together.
History: `answered[r]`, the requests answered before `r` was received.

`DailyLimit` extends it too - the seven rules evaluated by concurrent transactions of
several users, or of nobody, against a moving clock; R003 and R006 read the table in
steps of their own. A rule that raises is a `FLAG` (`DailyFails`, `VelocityFails`), a
request may die. R007 matches the entries the client sends, as `main.py:83` passes them.

`WatchlistVersions` - `ingest_watchlist` against the choice of the active version by a
screening, with clients that follow a script of uploads and screenings.

`FundConversion` - both endpoints of the converter and their callers: `Call` (a load gets
a fresh trace id per call, a webhook keeps its transaction id), `HandleKnown`/`HandleNew`
in any worker (the coroutines have no await after the request is read, so a message is
handled in one step), `Answer` reaching only the caller that still waits, `Timeout`,
`Lose`, `Restart`. The set `rejected` is what the converter refuses; it is data.

`CardIssuance` - the KYC gate over the shared psycopg2 connection, which a failed query
leaves `aborted`; tiers change at any time (`ChangeTier`). `approved` and `refusable` are
histories of what was true while a request ran.

`Dashboard` - the POST handlers of deposits, cards and banking webhooks, a step per SQL
statement. `loop` is the handler that runs in the event loop; labels in `Running` keep it,
labels in `Waiting` follow an await. `Fail` is an exception that reaches the route's catch
block, `Warn` one after the provider's answer (HTTP 202), `RecordFails` one that
`recordWebhookEvent` catches, `Crash` the death of the process: the tables stay. Only mock
mode is modelled because `requireUser` throws in every other one (`auth.ts:20`), so there
is one user and the provider says yes at once. `Like` is the relation that the LIKE
pattern of a key induces on keys. `credited` is a history: the entries whose amount was
added to the balance. `DepositLedger` is the promise about deposits: the one of a key is
stored, posted to the ledger, credited to the balance and confirmed to the client, each
step at most once and in this order, with the amount it was first sent with. `Dashboard`
instantiates it (`Books`): the stage of a key is read off the tables, the history and the
answers (`StageOf`), the book is the total of the entries. A key that stops on its way
stays there: nothing in the code takes a failed deposit up again, and no fairness is stated.

`Outbox` - the email worker of the dashboard (`app/api/cron/email-worker/route.ts`) over
`notification_outbox`. After the body has arrived a run has no await and one process holds
the database, so a run is one step, `Work(k)`; `broken` are the jobs whose `markSent`
raises, which the code counts as a failed delivery. `WorkAndDie` is a crash between the
commit of the transaction and the storing of the key's report. `wait` is the distance to
`next_attempt_at`; `quiet` and `runs` are histories of the attempts and of the runs of a
key. Nothing in the repository inserts into the table, `Enqueue` stands for what will.

`Governance` - `run_full_sweep` and `generate_compliance_report` as readers `s`: `Begin`
draws the window, `Query` reads the oldest `Limit` entries, `CheckDss`, `CheckInd` and
`CheckFinal` verify the chain each in its own transaction, `RecordSweep` appends the
sweep's own entry, `PersistReport` stores a report. An append is `BeginAppend` (under the
lock, where the timestamp is drawn) and `Commit` or `Rollback`. The catalogue of
`frameworks.py` is translated as it is, controls with their mapped events; `_assess_framework`
and `_run_control_assertion` are operators over the positions a reader has seen. The
clock never goes back, and the content of the log is abstracted to event types here; `AuditTrail` is about the chain.

`Sums` - the total over a finite set that `DailyLimit` (the sum of R003) and `Dashboard` (the
balance an account should have) share. `Outbox` and `CardIssuance` name their parts
`OutboxNext`, `issuanceVars` and so on, because one module of proofs extends `Dashboard` and
`Outbox`, the two halves of one process, and another `FundConversion` and `CardIssuance`.

The `MC...` modules give these TLC's instances. `*Proofs` modules hold the theorems.
Definitions named `X_Something` directly before `X` are variants of `X` with a plausible
mistake; `PROJECT.json` "mutants" says which property each one breaks.

## 3. The runs

Every run bounds the state by its constants only; no state constraint is used.

| run | instance | what it shows |
|---|---|---|
| `audit_trail` | 3 threads in one process, logs of up to 5 rows | dense, verifiable, fork-free, durable, `_append` implements `AuditLedger`; whoever enters the cursor leaves it |
| `pipeline` | two screenings of two users; a payload ingested twice and screened; a payload without timestamp ingested and screened; a screening and an inquiry about its user. Rules flag, two providers fail, answer low, high or nonsense; a SAR query reads 4 entries | order of the evidence under failures and crashes; results are in the log; a SAR rests on its user's decisions and misses none within reach; duplicates name originals; an answered request repeated is a duplicate; every request ends |
| `daily_limit` | 3 transactions of one user; one of them with one of another user, in another currency and below the KYC tier; one of them with one of nobody, from a restricted country; amounts on both sides of each threshold, clock to 3, day 2, hour 1 | what the rules let through together stays below each user's daily and hourly limits |
| `watchlist_versions` | 2 uploaders of the same contents for 2 lists, 1 screening client | told versions are stored; screenings are not stale |
| `fund_conversion` | 1 load, 1 payment, 4 calls each, 2 workers, 1 restart | at most one conversion of a payment per worker and restart; a load told as success was converted |
| `card_issuance` | 2 users, 2 requests, tiers 0-4 or no row | cards only for approved users, refusals only with a reason |
| `dashboard` | 3 requests out of 7 messages: a deposit with two amounts, another one, a card with two keys, an event signed or not | deposits implement `DepositLedger`: one entry and one credit each, with one amount, before the answer; the balance between what was told and what was stored, retries find the first row, one card, one fresh delivery |
| `outbox` | 3 emails, two recipients of which one fails, batch 2, 4 attempts, 1 key, 1 restart, ticks of 2 minutes | settled emails stay settled, backoff and order are kept, a key runs once per life of the process; if the worker is called again and again, every email settles |
| `governance` | 2 sweeps, 1 report, logs of 2 or 3 old entries and up to 5, limit 4, window of 1 tick | windows are complete, verdicts agree, the next sweep verifies, satisfied means clean |
| `pipeline_unscreened` | 2 requests with one payload | finding 1 |
| `pipeline_override` | 2 requests with one payload | finding 2 |
| `fund_payment_swallowed` | 1 worker, 2 calls | finding 3 |

**Why the bounds are enough.** Two threads are needed for a race on the log, a third for
one that waits while two others succeed and fail; five rows allow corrupt rows before,
between and after good ones, two in a row among them. A duplicate involves an original
and a later request, and a third may be answered in between; two screenings suffice for
one user's report among another's entries, and a query of 4 entries is short enough for
their at most 10 entries to crowd a decision out and long enough to hold one request's.
An inquiry needs one screening to miss. The daily rules are about a sum: three
transactions that pass alone and not together, and a clock that makes the first of them
leave the window; the other workloads add what must not be counted together, and the
rules on the payload alone. Two workers and one restart distinguish "once", "once per
worker" and "once per worker and restart"; four calls are one more than the bound on
conversions in that instance. On the dashboard a retry needs a first request, and a third
one to come between; one key of the two matches the other as a LIKE pattern, and never
the other way round. For governance four entries are what IIA needs to be satisfied or
spoilt (a decision, a SAR, a system event, an override), the fifth is cut off by the limit,
and with three instants an old entry leaves the window; symmetry exchanges the sweeps, or
the dashboard's requests, which no definition tells apart. Tiers 0-4 lie on both sides of the limit 3. For the outbox three
emails and a batch of 2 let two that fail hold up a third; 4 attempts instead of 5 reach
waits of 2, 4 and 8 minutes, which ticks of 2 minutes tell apart. `MaxRows`,
`MaxEntries`, `MaxClock`, `MaxAttempts`, `MaxRestarts`, `MaxTier`, `MaxEmails`, `MaxQuiet`,
`TickLength` and the `Workloads` are the only bounds on what the code leaves unbounded.
Code constants that the runs set smaller: `QueryLimit` (1000), `Limit` of the sweeps,
`Batch` (25), `MAX_ATTEMPTS` (5) and the amounts and windows of the rules; the proofs leave
them open.

**What the results assume of a deployment.** One service process for the chain of the
audit log (`SingleProcess`, section 4), and one Node process with its database for
everything about the dashboard: `loop` and the Map of the worker are of one process, and
several instances, as Vercel may start, are not covered. The threshold of IIA-AI-CM.04
(`IIA_OVERRIDE_RATE_THRESHOLD`) has its default.

**Deadlock.** A finished system is no error: requests end, scripts run out and bounds are
reached, so all runs switch the deadlock check off. What must go on is stated as liveness.

**Fairness.** `AuditTrail!FairSpec`: a thread inside the cursor keeps running its
statements; nobody has to call `_append`. `CompliancePipeline!FairSpec`: a request that
was received keeps running (`WF` of its steps, each enabled until taken); no request has
to arrive, fail or be overridden. Both are what the operating system's scheduler gives a
thread that does not wait; the only wait in the code is for the lock, inside one step of
the pipeline model, and `LockReleased` shows that whoever holds it gives it back.
`EveryRequestEnds` says that the service comes to rest again and again, with every request
received answered, failed or lost. `Outbox!OutboxFairSpec` assumes only that
time passes. That the worker is called is no fairness the repository can vouch for
(section 5), so it is the condition of `SettlesWhileCalled`: `WorkerIsCalled` says that as
long as a call would have something to do, one comes, by POST with a fresh key or none.
Without the condition the same run fails at once, by a clock that ticks and nothing else.
The other modules state no fairness and
no liveness.

## 4. The proofs

TLAPS checks the following for every value of the constants, from the named assumptions
of the modules (`ThreadsAssumption`, `PipelineAssumption`, `ConversionAssumption`,
`CardAssumption`, `LimitAssumption`, `NoLlmAssumption`, `DashboardAssumption`,
`WatchlistAssumption`, `GovernanceAssumption`, `OutboxAssumption`, `QuietAssumption`), all of
which TLC evaluates in the runs. `QuietAssumption` is about a bound of the model, not about
the code: the history `quiet` must be able to count as far as the longest backoff.

`SumsProofs`. The laws of `Sum`, the total of a function over a finite set: nothing for the
empty set, the same whichever element comes first, more with every element
(`SumAdd`), never less for a larger set (`SumMonotone`). `Sum` is a fold of the community
modules, hence a recursive function on the subsets of the set that begins with an element
of its choice. The library's induction theorems cannot be instantiated here, so each
induction is an argument on a least counterexample (`LeastElement`, by the library's
well-founded order): the smallest set for which the law fails, and why it does not.

`AuditTrailProofs`. `LogInv` adds one thing to types, dense numbers and durability:
`Counted`, that no thread has counted more rows than there are. From it `SpecTypeOK`,
`SpecSeqDense`, `SpecAckedDurable` and `SpecNoSpuriousConflict` follow with any number of
processes: a stale count runs into the unique index, which is why numbers stay dense even
without a common lock. Chain and forks need more: `ChainInv` says that every recorded row
links to the last recorded row before it with corrupt rows at most in between (`RowsOk`),
that whoever is past `ReadLast` holds the lock, and that what it read is still the end of
the chain (`AnchorFresh`). This is inductive only if all threads share one process
(`SingleProcess`, an explicit hypothesis of `SpecIntegrityOk` and `SpecForkFree`), which
is how `compliance_agents/Dockerfile` starts the service: one uvicorn process, and a
database file inside the container. `SpecImplementsLedger`, under the same hypothesis, is
the step simulation of the refinement: a hash contains the number of the row it belongs
to, so the link of a good row determines one row (`HashUnique`), the position the mapping
chooses is the one the row was linked to (`RowLinkIs`), and an `Insert` appends exactly
one entry to the abstract ledger while every other step but `ExternalWrite` stutters.

`CompliancePipelineProofs`. `CombinationEscalates`: no pair of verdicts is combined into
something milder than either. `SpecTypeOK`. `SpecDuplicateNamesOriginal` and
`SpecReplayIsDuplicate` rest on `DupInv`: `_check_duplicate` answers in one step and the
record is stored in a later one, so neither property is inductive; `PendingDuplicate` says
that the answer "duplicate" stays true in between, `PendingOriginal` that the answer
"original" may become stale, but not about a request answered before this one was
received. `SpecProcessedIsEvidenced` rests on `EvidenceInv`: from the step that logs the
decision until the client has its answer, and ever after, the entry is in the log.
`SpecSarGrounded` needs more, because the query, the INSERT and the audit entry of a report
are three steps: `SarInv` says that a request about to query has logged its decision, that
what the query found is carried until it is stored, and that stored reports stay grounded.
They do because window and causes of a report on its way are fixed (`Settled`): answered
requests do not change any more. The causes of an inquiry are in the log by `EvidenceInv`.
It holds for every `QueryLimit` because `OutOfReach` names the decisions cut off.
`SpecEvidenceOrder` rests on `TrailInv`: while a request runs, the steps of its trail that
are in the log are exactly the first `Logged(r)` ones, a number its program counter gives.

`CardPlatformProofs`. `LoadInv` carries, for each load, that an answer held for the
caller is a success only if the load was converted, and that a fresh trace id is in no
worker's set, so a load is never answered from the memory of an earlier call. For payments
`Accounted` counts: conversions of a payment are at most the workers that know it now plus
the restarts so far, from which `SpecPaymentConversionsBounded` follows with the library's
facts on cardinalities.

The same module, for `CardIssuance`. `GateInv` relates what a request has read to the histories: a tier
of 3 or more was read from a user who was approved while the request ran, and anything
else from one that had a reason to be refused. Both gate properties follow.

`DailyLimitProofs`. A request stores its record before it counts (`StoredFirst`), so the
last request to pass the velocity rule within an hour has counted every one that passed
before it (`Passed`, a subset of `RowsSince(Hour)` in that step); afterwards the set only
shrinks. `SpecVelocityBounded` follows by cardinality, for every user; the transactions of
nobody are counted for no one. `SpecDailyTotalBounded` has the same shape with `Counted`:
the last of the transactions let through has added up all of them when it passed R003, and
what it added up is no more than the whole of its rows (`SumMonotone`).

`WatchlistVersionsProofs`. `InHand` says what a handler holds between its transactions: a
version found or inserted is in the table. `SpecToldIsStored` follows. For
`SpecScreeningNotStale`, `NewestRow` shows that the choice of the active version returns a
row at least as new as every other, and `KnownReached` that for every version a client
knows of there is a row at least as new.

`GovernanceProofs`. `WindowsPast`: a window ends in the past, and a reader that has read
it has waited for the lock, so what is appended later is not older than its end. `Cut`
says what the query returned: the oldest entries of the window, and all before its end
unless the limit cut some off. `SpecWindowComplete` follows by the oldest entry that was
cut off (`OldestCut`, by the library's well-founded order). `AllVerified` says how far the
three verifications of the chain of a reader have come and that a broken chain stays
broken, from which `SpecVerdictsAgree` follows. `SweepEntries`, that a sweep leaves nothing
but system events in the log, gives `SpecNextSweepVerifies`. `SpecSatisfiedMeansClean`
unfolds the catalogue: what the mapped events of satisfied controls leave possible.

`DashboardProofs`. The argument for the handlers is the event loop: `TypeOK` says that
whoever is at a label of `Running` is the one that runs, so what it has checked stays true up
to its next await; `DepositInv`, `CardInv`, `EventInv` say what it has checked and created.
`SpecOneActiveCard`, `SpecFreshOnce` follow. `SpecReplayIsIdempotent`
needs `RowInv` and `ReplayInv`: the row a handler has found is the one a later request with
its key will find, whatever else the LIKE pattern matches.

`StepMoves` says what a step can do to deposits, ledger and answers at all: store the row
of a key without one, post the entry of a handler past its INSERT, add its amount to the
balance, tell its client, or nothing (`DepositMoves`). `BalanceInv` is carried by these: the balance
is exactly the total of `credited`, which holds every deposit that was answered as created or
is past its UPDATE and none without an entry. `SpecBalanceBracket` is then `SumMonotone`
twice. `SpecImplementsDepositLedger` is the step simulation: a key has one deposit
(`RowOfKey`), so each move takes one key one stage on and leaves every other key where it
was, and book and balance grow by its amount; `BalanceInv` says that a deposit is posted
before it is credited and credited before it is confirmed, never a second time.

The same module, for `Outbox`. `TableInv` says of every email that its wait and the minutes
since its last attempt make up at least the backoff of its attempts (`Orderly`), which is
not checked by the run but what makes `SpecAttemptsOrderly` true of every step: an email is
due when nothing of its wait is left. That no email overtakes an older one is `JobsFirst`: the
emails before an older one are fewer, so the batch is the beginning of what is due. `MapInv`
says that a key has had one run more than there were restarts only if the Map knows it, from
which `SpecKeyRunsOnce` follows. That a backoff is a number at all is `PowerNat`: the library
proves it for powers of two as the number of subsets.

**Only model-checked.** Liveness (`LockReleased`, `EveryRequestEnds`, `SettlesWhileCalled`),
which is out of the prover's reach. Every other property of a passing run is proved. Finding
runs exhibit violations and prove nothing.

## 5. What the models show about the code

Findings with a run that exhibits them:
1. `orchestrator.py:96` - a request is "already processed" as soon as an original row
   exists. If the original died before it was screened, or came through `/ingest`, every
   retry is a duplicate and the payload is never screened.
2. `screening/agent.py:401` - `_persist` gives no value for the NOT NULL column
   `rule_results`; `INSERT OR IGNORE` (`storage.py:210`) drops the row in silence, so no
   screening can be overridden and `screening_results` stays empty.
3. `converter_service/logic.py:60` - a payment is marked as processed before it is
   converted; if the conversion raises, the redelivery is answered with success.

Observed while modelling, without a run of their own:
- `audit_trail/agent.py:465`: with two processes on one database file another entry may
  come between the two SELECTs; number and link then disagree and the verifier reports a
  mismatch. Behind a quarantined row (`:409`) it does not even look.
- `audit_trail/agent.py:479`: if every row of a non-empty table has a zero hash, the next
  number is 1 whatever the count, and every append fails. `NoSpuriousConflict` excludes
  this case.
- `audit_trail/agent.py:137`: the entry for the rules holds the final decision, so after an
  escalation the log says the rules decided what the model decided.
- `data_ingestion/agent.py:75` and `:121`: overlapping requests can both store an original
  (or a watchlist version) for one content; `:126`: uploading an earlier content again
  does not make it active.
- `orchestrator.py:119`: a payload without `user_id` gets a SAR about `"unknown"` with no
  supporting entries. `SarGrounded` is therefore about known users.
- `reporting/agent.py:79`: `generate_sar` reads the oldest 1000 entries of its window and
  filters afterwards; behind a longer window its own decision is missing. `SarGrounded`
  says exactly which (`OutOfReach`), and the run reaches such states.
- `audit_trail/agent.py:252-265`: the payload of a human override names no user, so the
  filter of `reporting/agent.py:82-86` never lets an override into a SAR.
- `data_ingestion/agent.py:236`: a payload without timestamp is hashed with the time of
  its arrival and never recognised as a duplicate, although `models.py:85` calls the hash
  "Deterministic SHA-256 content hash used for deduplication". `ReplayIsDuplicate` is
  therefore about stamped payloads.
- `main.py:83`: R007 matches the entries a client sends, not the watchlist that is stored.
- `rules.py:169`, `:265`: the user is looked for as a JSON string in the payload, so a
  `user_id` that is a number is never found by R003 and R006; R002 skips other currencies
  than USD while R003 adds all of them up. Amounts are taken to be non-negative.
- `screening/rules.py:179`: R003 counts the current transaction twice, in the table and on
  top: it errs on the safe side, which is why `DailyTotalBounded` holds.
- `converter_service/logic.py:26`: a redelivery to another worker is converted again;
  `PaymentConversionsBounded` is the bound that is left.
- `card_platform_service/clients.py:97`: each call of a fund load draws a new trace id, so
  a load that timed out and is repeated is converted twice; nothing bounds this but the
  number of calls.
- `card_platform_service/clients.py:64`: one failed query leaves the connection unusable
  until a restart, while `/ready` goes on reporting it ready.
- `operations.ts:85`: a deposit whose handler failed before its ledger entry stays without
  a credit; its retry is answered with the existing deposit. `BalanceBracket` is what holds.
- `app/api/cards/route.ts:76`: the answer 202 says "Retry", but a retry returns the card
  without provisioning it.
- `webhooks.ts:35`: an event whose INSERT failed for another reason than its unique key is
  answered as a replay, and is not stored.
- `operations.ts:164`: the key is part of a LIKE pattern; `ReplayIsIdempotent` and `Like`
  say what is needed of keys: each has to match itself.
- `ledger.ts:79` calls the balance settled; it is credited when the deposit is created.
- `vercel.json` schedules `/api/cron/email-worker`, and a schedule of that kind calls with
  GET, while the route exports only POST. The repository holds nothing else that calls the
  worker but the command of `README.md:63` of the dashboard, to be typed by hand: as
  deployed, queued emails stay pending. `SettlesWhileCalled` has the calls as its condition.
- `email-worker/route.ts`: no email is really sent, an address that contains "fail" stands
  for a failed delivery; an error of `markSent` itself is counted as one, so a worker that
  sends would send again.
- `frameworks.py`: `compliance_report_generated`, `watchlist_versioned` and
  `risk_score_assigned` are mapped to controls and never recorded, although
  `foundry/agents/AuditTrailAgent.md:58` says that reports are; IIA-AI-CM.04 is not
  assessed in a window without a SAR, whatever the override rate. Its text says below 5%,
  the engine's default is 20%.
- `audit_trail/agent.py:352`: beyond the limit a sweep sees the oldest entries, not the
  newest. `WindowComplete` says exactly this.

## 6. Not modelled

Read-only endpoints. The user interface, the older copies under `api/`, deployment files,
tests, and the prose and schemas under `foundry/` and `docs/` keep no state of the running
system; the last three are used as statements of what the code should do. Abstracted on
purpose: payload normalisation (a payload is its identity, with or without a timestamp),
wording and sums of reports, signatures (a message that fails them is no message, or is
answered as refused), exchange rates, the counters of the rate limiter (a request may
always be answered 429), and the breakdown of the bias analysis by country, tier and
currency. The pipeline takes the verdict of the rules as an input, so that its state does
not multiply with `DailyLimit`'s; `should_run_llm` and the combination are shared.

## 7. Plan

1. **Done**: `AuditTrail`/`AuditLedger`, `ScreeningRules`, `CompliancePipeline` with all
   endpoints that change state, `DailyLimit` with all rules, `WatchlistVersions`,
   `FundConversion`, `CardIssuance`, `Dashboard`/`DepositLedger`, `Outbox`, `Governance`;
   proofs of all safety and action properties of the runs, and of both refinements.
2. **Next**: the rate limiter (`ratelimit.ts`) as a fixed-window counter with its own
   bound; the bias analysis by group.
3. **Abstract specifications**: a screening service with one result per payload, for the
   requests of `CompliancePipeline` that neither fail nor overlap.
4. **Proofs**: the refinement of item 3.
