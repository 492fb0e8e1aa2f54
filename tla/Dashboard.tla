------------------------------ MODULE Dashboard ------------------------------
(***************************************************************************)
(* The dashboard server, apps/gem-atr-digital-easyway: deposits with their *)
(* ledger, bitcoin cards, and banking webhooks, over one SQLite file.      *)
(*                                                                         *)
(* One Node process serves all requests.  better-sqlite3 is synchronous,   *)
(* so a handler keeps the event loop (loop) from one await to the next,    *)
(* but every statement commits by itself: any of them may throw, and the   *)
(* process may die between any two.  A step is one statement.              *)
(*                                                                         *)
(* The server runs in mock mode: in the other modes requireUser refuses    *)
(* everybody (auth.ts:20).  Hence there is one user, and the card provider *)
(* always says yes.  A request creates at most one row of each table, so   *)
(* it stands for their random ids.  Amounts are cents of one currency.     *)
(***************************************************************************)
EXTENDS Naturals, Sums

CONSTANTS
  Requests,    \* HTTP requests, client retries included
  Inputs,      \* what a request may carry: [kind, key, amount, valid]
  Keys,        \* idempotency keys, and event ids of webhooks
  Like,        \* <<k, l>>: the LIKE pattern made from k matches the key l
  NoRequest    \* no row; nobody in the event loop

Kinds == {"deposit", "card", "webhook"}

InputType == [kind : Kinds, key : Keys, amount : Nat, valid : BOOLEAN]

ASSUME DashboardAssumption ==
  /\ IsFiniteSet(Requests)
  /\ NoRequest \notin Requests
  /\ Inputs \subseteq InputType
  /\ Like \subseteq Keys \X Keys

VARIABLES
  pc,          \* pc[r]: the next statement of the handler of r
  loop,        \* the request whose handler holds the event loop
  input,       \* input[r]: what r carries
  deposits,    \* table deposits, by the request that created the row
  balance,     \* table ledger_accounts: the balance, 0 if there is no row
  entries,     \* table ledger_entries, by the request that posted it
  cards,       \* cards[r]: status in table bitcoin_cards, or "none"
  operations,  \* table operations_log: [op, by]
  events,      \* table webhook_events: [event, by, replay]
  found,       \* found[r]: the row r's handler found or created
  told,        \* told[r]: the response
  answered,    \* history: the requests answered before r arrived
  credited     \* history: the entries that were added to the balance

ledger == <<deposits, balance, entries, credited>>
tables == <<ledger, cards, operations, events>>
vars   == <<pc, loop, input, tables, found, told, answered>>

-----------------------------------------------------------------------------
Key(r)    == input[r].key
Amount(r) == input[r].amount
Total(S)  == Sum([r \in Requests |-> Amount(r)], S)

(* Labels at which a handler waits for the event loop after an await.      *)
Waiting == {"find_deposit", "find_card", "update_card", "record_event"}

(* Labels inside a run of the event loop.                                  *)
Running ==
  {"insert_deposit", "log_deposit", "ensure_account", "insert_entry",
   "update_balance", "read_entry", "check_active", "insert_card", "log_card",
   "read_card", "log_issued", "mark_replay", "respond"}

(* The first statement after the body was read.                            *)
FirstLabel ==
  [deposit |-> "find_deposit", card |-> "find_card",
   webhook |-> "record_event"]

(* The handler of r may execute the statement at this label, now.          *)
At(r, label) ==
  /\ pc[r] = label
  /\ loop = IF label \in Running THEN r ELSE NoRequest

(* It goes on in the same run of the loop, or gives the loop back.         *)
Continue(r, label) ==
  /\ pc' = [pc EXCEPT ![r] = label]
  /\ loop' = r

Release(r, label) ==
  /\ pc' = [pc EXCEPT ![r] = label]
  /\ loop' = NoRequest

Keeps(r, row) ==
  /\ found' = [found EXCEPT ![r] = row]
  /\ UNCHANGED <<input, told, answered>>

Log(op, r) == operations' = operations \cup {[op |-> op, by |-> r]}

-----------------------------------------------------------------------------
Init ==
  /\ pc         = [r \in Requests |-> "new"]
  /\ loop       = NoRequest
  /\ input      \in [Requests -> Inputs]
  /\ deposits   = {}
  /\ balance    = 0
  /\ entries    = {}
  /\ cards      = [r \in Requests |-> "none"]
  /\ operations = {}
  /\ events     = {}
  /\ found      = [r \in Requests |-> NoRequest]
  /\ told       = [r \in Requests |-> "none"]
  /\ answered   = [r \in Requests |-> {}]
  /\ credited   = {}

-----------------------------------------------------------------------------
(* requireUser, the rate limit and the await of the body; the history      *)
(* remembers who has been told about a row by now.                         *)
Receive(r) ==
  /\ pc[r] = "new"
  /\ loop = NoRequest
  /\ Release(r, FirstLabel[input[r].kind])
  /\ answered' = [answered EXCEPT ![r] =
                    {q \in Requests : told[q] \notin {"none", "error"}}]
  /\ UNCHANGED <<input, tables, found, told>>

(* HTTP 429, the rate limit, or 400, a body that does not validate.        *)
Reject(r) ==
  /\ pc[r] = "new"
  /\ loop = NoRequest
  /\ Release(r, "done")
  /\ told' = [told EXCEPT ![r] = "error"]
  /\ UNCHANGED <<input, tables, found, answered>>

-----------------------------------------------------------------------------
(* POST /api/deposits: createDeposit, then postEntry for a new deposit.    *)

WithKey(k) == {d \in deposits : Key(d) = k}

(* Variant of FindDeposit: a ledger credit whether or not idempotent.      *)
FindDeposit_Credits(r) ==
  /\ At(r, "find_deposit")
  /\ \/ /\ WithKey(Key(r)) = {}
        /\ Keeps(r, NoRequest)
        /\ Continue(r, "insert_deposit")
     \/ \E d \in WithKey(Key(r)) :
          /\ Keeps(r, d)
          /\ Continue(r, "ensure_account")
  /\ UNCHANGED tables

FindDeposit(r) ==
  /\ At(r, "find_deposit")
  /\ \/ /\ WithKey(Key(r)) = {}
        /\ Keeps(r, NoRequest)
        /\ Continue(r, "insert_deposit")
     \/ \E d \in WithKey(Key(r)) :
          /\ Keeps(r, d)
          /\ Continue(r, "respond")
  /\ UNCHANGED tables

(* idempotency_key is UNIQUE: a second row of a key is an error (Fail).    *)
InsertDeposit(r) ==
  /\ At(r, "insert_deposit")
  /\ WithKey(Key(r)) = {}
  /\ deposits' = deposits \cup {r}
  /\ Keeps(r, r)
  /\ Continue(r, "log_deposit")
  /\ UNCHANGED <<balance, entries, credited, cards, operations, events>>

LogDeposit(r) ==
  /\ At(r, "log_deposit")
  /\ Log("deposit_created", r)
  /\ Continue(r, "ensure_account")
  /\ UNCHANGED <<input, ledger, cards, events, found, told, answered>>

(* A new account has balance 0, like none.                                 *)
EnsureAccount(r) ==
  /\ At(r, "ensure_account")
  /\ Continue(r, "insert_entry")
  /\ UNCHANGED <<input, tables, found, told, answered>>

InsertEntry(r) ==
  /\ At(r, "insert_entry")
  /\ entries' = entries \cup {r}
  /\ Continue(r, "update_balance")
  /\ UNCHANGED <<input, deposits, balance, credited, cards, operations, events,
                 found, told, answered>>

(* Variant of UpdateBalance: SET balance = ?                               *)
UpdateBalance_Overwrites(r) ==
  /\ At(r, "update_balance")
  /\ balance' = Amount(r)
  /\ credited' = credited \cup {r}
  /\ Continue(r, "read_entry")
  /\ UNCHANGED <<input, deposits, entries, cards, operations, events, found,
                 told, answered>>

(* SET balance = balance + ?                                               *)
UpdateBalance(r) ==
  /\ At(r, "update_balance")
  /\ balance' = balance + Amount(r)
  /\ credited' = credited \cup {r}
  /\ Continue(r, "read_entry")
  /\ UNCHANGED <<input, deposits, entries, cards, operations, events, found,
                 told, answered>>

(* The statements that read back what was written may throw, too.          *)
ReadEntry(r) ==
  /\ At(r, "read_entry")
  /\ Continue(r, "respond")
  /\ UNCHANGED <<input, tables, found, told, answered>>

-----------------------------------------------------------------------------
(* POST /api/cards: requestCard, the provider, updateCardStatus.           *)

(* Variant of LoggedCards: looks for issued cards only.                    *)
LoggedCards_Issued(r) ==
  {q \in Requests : /\ [op |-> "card_status_changed", by |-> q] \in operations
                    /\ <<Key(r), Key(q)>> \in Like
                    /\ cards[q] # "none"}

(* operations_log rows whose metadata is LIKE the key, and have a card.    *)
LoggedCards(r) ==
  {q \in Requests : /\ [op |-> "card_requested", by |-> q] \in operations
                    /\ <<Key(r), Key(q)>> \in Like
                    /\ cards[q] # "none"}

FindCard(r) ==
  /\ At(r, "find_card")
  /\ \/ /\ LoggedCards(r) = {}
        /\ Keeps(r, NoRequest)
        /\ Continue(r, "check_active")
     \/ \E q \in LoggedCards(r) :
          /\ Keeps(r, q)
          /\ Continue(r, "respond")
  /\ UNCHANGED tables

(* Variant of Active: only issued cards are active.                        *)
Active_Issued == {q \in Requests : cards[q] = "issued"}

(* status IN ('requested','issued')                                        *)
Active == {q \in Requests : cards[q] \in {"requested", "issued"}}

CheckActive(r) ==
  /\ At(r, "check_active")
  /\ Continue(r, IF Active = {} THEN "insert_card" ELSE "respond")
  /\ UNCHANGED <<input, tables, found, told, answered>>

(* Variant of InsertCard: a status that is not a CardStatus.               *)
InsertCard_Pending(r) ==
  /\ At(r, "insert_card")
  /\ cards' = [cards EXCEPT ![r] = "pending"]
  /\ Keeps(r, r)
  /\ Continue(r, "log_card")
  /\ UNCHANGED <<ledger, operations, events>>

InsertCard(r) ==
  /\ At(r, "insert_card")
  /\ cards' = [cards EXCEPT ![r] = "requested"]
  /\ Keeps(r, r)
  /\ Continue(r, "log_card")
  /\ UNCHANGED <<ledger, operations, events>>

LogCard(r) ==
  /\ At(r, "log_card")
  /\ Log("card_requested", r)
  /\ Continue(r, "read_card")
  /\ UNCHANGED <<input, ledger, cards, events, found, told, answered>>

(* The row, then the await of issueCardWithProvider.                       *)
ReadCard(r) ==
  /\ At(r, "read_card")
  /\ Release(r, "update_card")
  /\ UNCHANGED <<input, tables, found, told, answered>>

UpdateCard(r) ==
  /\ At(r, "update_card")
  /\ cards' = [cards EXCEPT ![r] = "issued"]
  /\ Continue(r, "log_issued")
  /\ UNCHANGED <<input, ledger, operations, events, found, told, answered>>

LogIssued(r) ==
  /\ At(r, "log_issued")
  /\ Log("card_status_changed", r)
  /\ Continue(r, "respond")
  /\ UNCHANGED <<input, ledger, cards, events, found, told, answered>>

(* An error after the provider's answer: HTTP 202 with a warning.          *)
Warn(r) ==
  /\ At(r, "update_card") \/ At(r, "log_issued")
  /\ Release(r, "done")
  /\ told' = [told EXCEPT ![r] = "warned"]
  /\ UNCHANGED <<input, tables, found, answered>>

-----------------------------------------------------------------------------
(* POST /api/webhooks/banking: recordWebhookEvent.                         *)

Rows(e) == {x \in events : x.event = e}

(* The INSERT; UNIQUE(provider, event_id).                                 *)
RecordEvent(r) ==
  /\ At(r, "record_event")
  /\ Rows(Key(r)) = {}
  /\ events' = events \cup {[event |-> Key(r), by |-> r, replay |-> FALSE]}
  /\ Keeps(r, r)
  /\ Continue(r, "respond")
  /\ UNCHANGED <<ledger, cards, operations>>

(* Whatever error the INSERT raises is taken for a replay.                 *)
RecordFails(r) ==
  /\ At(r, "record_event")
  /\ Continue(r, "mark_replay")
  /\ UNCHANGED <<input, tables, found, told, answered>>

(* Variant of MarkReplay: the catch block says replay: false.              *)
MarkReplay_Fresh(r) ==
  /\ At(r, "mark_replay")
  /\ events' = {IF x.event = Key(r) THEN [x EXCEPT !.replay = TRUE] ELSE x :
                  x \in events}
  /\ Keeps(r, r)
  /\ Continue(r, "respond")
  /\ UNCHANGED <<ledger, cards, operations>>

MarkReplay(r) ==
  /\ At(r, "mark_replay")
  /\ events' = {IF x.event = Key(r) THEN [x EXCEPT !.replay = TRUE] ELSE x :
                  x \in events}
  /\ Continue(r, "respond")
  /\ UNCHANGED <<input, ledger, cards, operations, found, told, answered>>

-----------------------------------------------------------------------------
(* What a handler says at its end: HTTP 201, 200, 409, or 401.             *)
Answer(r) ==
  CASE input[r].kind = "deposit" ->
         IF found[r] = r THEN "created" ELSE "existing"
    [] input[r].kind = "card" ->
         IF found[r] = NoRequest THEN "conflict"
         ELSE IF found[r] = r THEN "issued" ELSE "existing"
    [] input[r].kind = "webhook" ->
         IF ~input[r].valid THEN "refused"
         ELSE IF found[r] = r THEN "fresh" ELSE "replay"

Respond(r) ==
  /\ At(r, "respond")
  /\ told' = [told EXCEPT ![r] = Answer(r)]
  /\ Release(r, "done")
  /\ UNCHANGED <<input, tables, found, answered>>

(* Any other error: HTTP 500.  The errors of record_event are caught.      *)
Fail(r) ==
  /\ \E label \in (Waiting \cup Running)
                  \ {"update_card", "log_issued", "record_event", "respond"} :
       At(r, label)
  /\ told' = [told EXCEPT ![r] = "error"]
  /\ Release(r, "done")
  /\ UNCHANGED <<input, tables, found, answered>>

(* The process dies and is restarted: only the tables stay.                *)
Crash ==
  /\ \E r \in Requests : pc[r] \in Waiting \cup Running
  /\ pc' = [r \in Requests |-> IF pc[r] \in Waiting \cup Running
                               THEN "lost" ELSE pc[r]]
  /\ loop' = NoRequest
  /\ UNCHANGED <<input, tables, found, told, answered>>

DepositStep(r) ==
  \/ FindDeposit(r) \/ InsertDeposit(r) \/ LogDeposit(r)
  \/ EnsureAccount(r) \/ InsertEntry(r) \/ UpdateBalance(r) \/ ReadEntry(r)

CardStep(r) ==
  \/ FindCard(r) \/ CheckActive(r) \/ InsertCard(r) \/ LogCard(r)
  \/ ReadCard(r) \/ UpdateCard(r) \/ LogIssued(r) \/ Warn(r)

WebhookStep(r) == RecordEvent(r) \/ RecordFails(r) \/ MarkReplay(r)

Next ==
  \/ \E r \in Requests :
       \/ Receive(r) \/ Reject(r)
       \/ DepositStep(r) \/ CardStep(r) \/ WebhookStep(r)
       \/ Respond(r) \/ Fail(r)
  \/ Crash

Spec == Init /\ [][Next]_vars

-----------------------------------------------------------------------------
Answers ==
  {"none", "error", "created", "existing", "conflict", "issued", "warned",
   "refused", "fresh", "replay"}

(* Requests, rows and responses have the types of operations.ts, and the   *)
(* event loop is held by exactly the handler that runs.                    *)
TypeOK ==
  /\ pc \in [Requests -> {"new", "done", "lost"} \cup Waiting \cup Running]
  /\ loop \in Requests \cup {NoRequest}
  /\ \A r \in Requests : pc[r] \in Running <=> loop = r
  /\ input \in [Requests -> Inputs]
  /\ deposits \subseteq Requests
  /\ balance \in Nat
  /\ entries \subseteq Requests
  /\ cards \in [Requests -> {"none", "requested", "issued"}]
  /\ operations \subseteq
       [op : {"deposit_created", "card_requested", "card_status_changed"},
        by : Requests]
  /\ events \subseteq [event : Keys, by : Requests, replay : BOOLEAN]
  /\ found \in [Requests -> Requests \cup {NoRequest}]
  /\ told \in [Requests -> Answers]
  /\ answered \in [Requests -> SUBSET Requests]
  /\ credited \subseteq Requests

-----------------------------------------------------------------------------
(* The deposit of a key, and how far its handler has brought it.           *)
DepositOf(k) == CHOOSE d \in deposits : Key(d) = k

Stage(d) ==
  CASE told[d] = "created" -> "confirmed"
    [] told[d] # "created" /\ d \in credited -> "credited"
    [] told[d] # "created" /\ d \in entries \ credited -> "posted"
    [] told[d] # "created" /\ d \notin entries \cup credited -> "stored"

StageOf(k)  == IF WithKey(k) = {} THEN "none" ELSE Stage(DepositOf(k))
AmountOf(k) == IF WithKey(k) = {} THEN 0 ELSE Amount(DepositOf(k))

Books ==
  INSTANCE DepositLedger WITH
    Amounts <- {i.amount : i \in Inputs},
    stage   <- [k \in Keys |-> StageOf(k)],
    amount  <- [k \in Keys |-> AmountOf(k)],
    book    <- Total(entries)

(* However often a deposit is sent, with whatever amounts, and wherever    *)
(* its handlers stop: book and balance change only when the one deposit of *)
(* a key is posted and credited, each at most once, with the amount of its *)
(* row, and never after the client was told so (deposits/route.ts:60).     *)
ImplementsDepositLedger == Books!Spec

(* The balance is at least what clients were told was created, and at most *)
(* what the entries add up to; these never exceed the deposits: a failure  *)
(* costs the user a credit, and never makes one up (ledger.ts:54-63).      *)
BalanceBracket ==
  /\ Total({r \in Requests : told[r] = "created"}) <= balance
  /\ balance <= Total(entries)
  /\ Total(entries) <= Total(deposits)

(* A client that was told about its deposit or card, and sends the request *)
(* again, is told about the same one: never a second one, and never that   *)
(* its own card is in the way (operations.ts:75-85, 158-181).  The key has *)
(* to match itself, as keys without quotes and backslashes do.             *)
RowAnswers == {"created", "existing", "issued", "warned"}

ReplayIsIdempotent ==
  \A r \in Requests : \A q \in answered[r] :
    /\ input[q].kind = input[r].kind
    /\ Key(q) = Key(r)
    /\ <<Key(r), Key(r)>> \in Like
    /\ told[q] \in RowAnswers
    /\ told[r] \notin {"none", "error"}
    => told[r] = "existing" /\ found[r] = found[q]

(* The user has at most one card, whatever fails between the two statuses, *)
(* and a card that a client was told is issued is (operations.ts:183-199). *)
OneActiveCard ==
  /\ \A q, r \in Active : q = r
  /\ \A r \in Requests : told[r] = "issued" => cards[r] = "issued"

(* Of the deliveries of an event at most one is taken for the first one,   *)
(* also after errors and restarts (webhooks.ts:26-41).                     *)
FreshOnce ==
  \A q, r \in Requests :
    told[q] = "fresh" /\ told[r] = "fresh" /\ Key(q) = Key(r) => q = r

=============================================================================
