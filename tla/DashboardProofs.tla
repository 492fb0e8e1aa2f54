-------------------------- MODULE DashboardProofs --------------------------
(***************************************************************************)
(* Proofs about the dashboard server: the handlers of Dashboard, for any   *)
(* number of requests, keys, amounts and LIKE patterns, and the email      *)
(* worker of Outbox, for any number of emails, keys and restarts.  The     *)
(* argument for the handlers is the event loop: what a handler has checked *)
(* stays so up to its next await, because TypeOK says that nobody else     *)
(* runs; and what it has created before an await is its own row.           *)
(***************************************************************************)
EXTENDS Dashboard, Outbox, SumsProofs, SequenceTheorems

-----------------------------------------------------------------------------
(* The labels of a handler that has not found or created a row yet, and    *)
(* those at which a deposit or a card is created and not answered.         *)
Rowless ==
  {"new", "find_deposit", "insert_deposit", "find_card", "check_active",
   "insert_card", "record_event", "mark_replay"}

Crediting ==
  {"log_deposit", "ensure_account", "insert_entry", "update_balance",
   "read_entry"}

Issuing == {"log_card", "read_card", "update_card", "log_issued"}

Final == {"respond", "done", "lost"}

(* A handler is at the labels of its own route only.                       *)
RouteInv ==
  \A r \in Requests :
    /\ pc[r] \in {"find_deposit", "insert_deposit"} \cup Crediting
         => input[r].kind = "deposit"
    /\ pc[r] \in {"find_card", "check_active", "insert_card"} \cup Issuing
         => input[r].kind = "card"
    /\ pc[r] \in {"record_event", "mark_replay"} => input[r].kind = "webhook"
    /\ pc[r] \in Rowless => found[r] = NoRequest
    /\ pc[r] \in Crediting \cup Issuing => found[r] = r
    /\ pc[r] = "respond" /\ input[r].kind = "deposit" => found[r] # NoRequest
    /\ told[r] # "none" => pc[r] = "done"
    /\ \A q \in answered[r] : told[q] \notin {"none", "error"}

(* A deposit is the row of the handler that created it; its key is unique; *)
(* entries are posted for deposits.                                        *)
DepositInv ==
  /\ \A r \in Requests :
       /\ pc[r] \in Crediting => r \in deposits
       /\ r \in deposits => found[r] = r /\ pc[r] \in Crediting \cup Final
       /\ r \in entries => r \in deposits
  /\ \A d, e \in deposits : Key(d) = Key(e) => d = e

(* A card is inserted when there is none, issued when it was requested.    *)
Logged(r) == [op |-> "card_requested", by |-> r] \in operations

CardInv ==
  /\ \A r \in Requests :
       /\ pc[r] \in {"log_card", "read_card", "update_card"}
            => cards[r] = "requested"
       /\ pc[r] = "log_issued" => cards[r] = "issued"
       /\ pc[r] \in {"read_card", "update_card", "log_issued"} => Logged(r)
       /\ pc[r] = "insert_card" => Active = {}
       /\ cards[r] # "none" => pc[r] \in Issuing \cup Final
       /\ /\ pc[r] = "respond"
          /\ input[r].kind = "card"
          /\ found[r] = r
          => cards[r] = "issued"
       /\ told[r] = "issued" => cards[r] = "issued"
  /\ \A q, r \in Active : q = r

(* An event has one row, by the handler that takes it for a fresh one.     *)
EventOf(r, x) == x.event = Key(r) /\ x.by = r

EventInv ==
  /\ \A x, y \in events : x.event = y.event => x = y
  /\ \A r \in Requests :
       /\ /\ pc[r] = "respond"
          /\ input[r].kind = "webhook"
          /\ found[r] = r
          => \E x \in events : EventOf(r, x)
       /\ told[r] = "fresh" => \E x \in events : EventOf(r, x)

IInv == TypeOK /\ RouteInv /\ DepositInv /\ CardInv /\ EventInv

(* The row a deposit or card handler found is one that its key finds.      *)
Finds(r, d) ==
  \/ input[r].kind = "deposit" /\ d \in WithKey(Key(r))
  \/ input[r].kind = "card" /\ d \in LoggedCards(r)

RowInv ==
  \A r \in Requests :
    /\ <<Key(r), Key(r)>> \in Like
    /\ \/ pc[r] = "respond" /\ input[r].kind # "webhook"
                            /\ found[r] # NoRequest
       \/ told[r] \in RowAnswers
    => Finds(r, found[r])

(* ... and a request sent again finds it, and never creates another.       *)
Again(q, r) ==
  /\ q \in answered[r]
  /\ input[q].kind = input[r].kind
  /\ Key(q) = Key(r)
  /\ <<Key(r), Key(r)>> \in Like
  /\ told[q] \in RowAnswers

ReplayInv ==
  \A q, r \in Requests :
    Again(q, r) =>
      /\ pc[r] \in {"find_deposit", "find_card"} \cup Final
      /\ found[q] # r
      /\ pc[r] = "respond" => found[r] = found[q]
      /\ told[r] \notin {"none", "error"}
           => told[r] = "existing" /\ found[r] = found[q]

(* The balance is the sum of the entries whose handler came to update it;  *)
(* what a client is told was created is among them.                        *)
PastUpdate(r) ==
  \/ pc[r] = "read_entry"
  \/ pc[r] = "respond" /\ input[r].kind = "deposit" /\ found[r] = r
  \/ told[r] = "created"

BalanceInv ==
  /\ balance = Total(credited)
  /\ credited \subseteq entries
  /\ \A r \in Requests :
       /\ pc[r] \in {"log_deposit", "ensure_account", "insert_entry"}
            => r \notin entries
       /\ pc[r] = "update_balance" => r \in entries
       /\ r \in credited => pc[r] \in {"read_entry"} \cup Final
       /\ PastUpdate(r) => r \in credited

-----------------------------------------------------------------------------
EventRows == [event : Keys, by : Requests, replay : BOOLEAN]

LEMMA MarkedRow ==
  ASSUME NEW x \in EventRows
  PROVE  /\ [x EXCEPT !.replay = TRUE] \in EventRows
         /\ [x EXCEPT !.replay = TRUE].event = x.event
         /\ [x EXCEPT !.replay = TRUE].by = x.by
BY DEF EventRows

LEMMA TypeOKStep == IInv /\ [Next]_vars => TypeOK'
<1> SUFFICES ASSUME IInv, [Next]_vars PROVE TypeOK'
  OBVIOUS
<1> USE DashboardAssumption DEF IInv, At, Continue, Release, Keeps, Log,
        tables, ledger, Waiting, Running, FirstLabel, InputType, Kinds, TypeOK,
        Answers, Answer, Key, Amount, Rows
<1>1. ASSUME NEW r \in Requests, Receive(r) PROVE TypeOK'
  BY <1>1 DEF Receive
<1>2. ASSUME NEW r \in Requests, Reject(r) PROVE TypeOK'
  BY <1>2 DEF Reject
<1>3. ASSUME NEW r \in Requests, FindDeposit(r) PROVE TypeOK'
  <2>1. PICK d \in Requests \cup {NoRequest} :
          /\ Keeps(r, d)
          /\ Continue(r, "insert_deposit") \/ Continue(r, "respond")
    BY <1>3 DEF FindDeposit, WithKey
  <2>2. UNCHANGED tables /\ At(r, "find_deposit")
    BY <1>3 DEF FindDeposit
  <2> QED
    BY <2>1, <2>2
<1>4. ASSUME NEW r \in Requests, InsertDeposit(r) PROVE TypeOK'
  BY <1>4 DEF InsertDeposit
<1>5. ASSUME NEW r \in Requests, LogDeposit(r) PROVE TypeOK'
  BY <1>5 DEF LogDeposit
<1>6. ASSUME NEW r \in Requests, EnsureAccount(r) PROVE TypeOK'
  BY <1>6 DEF EnsureAccount
<1>7. ASSUME NEW r \in Requests, InsertEntry(r) PROVE TypeOK'
  BY <1>7 DEF InsertEntry
<1>8. ASSUME NEW r \in Requests, UpdateBalance(r) PROVE TypeOK'
  BY <1>8 DEF UpdateBalance
<1>9. ASSUME NEW r \in Requests, ReadEntry(r) PROVE TypeOK'
  BY <1>9 DEF ReadEntry
<1>10. ASSUME NEW r \in Requests, FindCard(r) PROVE TypeOK'
  <2>1. PICK d \in Requests \cup {NoRequest} :
          Keeps(r, d) /\ (Continue(r, "check_active") \/ Continue(r, "respond"))
    BY <1>10 DEF FindCard, LoggedCards
  <2>2. UNCHANGED tables /\ At(r, "find_card")
    BY <1>10 DEF FindCard
  <2> QED
    BY <2>1, <2>2
<1>11. ASSUME NEW r \in Requests, CheckActive(r) PROVE TypeOK'
  BY <1>11 DEF CheckActive
<1>12. ASSUME NEW r \in Requests, InsertCard(r) PROVE TypeOK'
  BY <1>12 DEF InsertCard
<1>13. ASSUME NEW r \in Requests, LogCard(r) PROVE TypeOK'
  BY <1>13 DEF LogCard
<1>14. ASSUME NEW r \in Requests, ReadCard(r) PROVE TypeOK'
  BY <1>14 DEF ReadCard
<1>15. ASSUME NEW r \in Requests, UpdateCard(r) PROVE TypeOK'
  BY <1>15 DEF UpdateCard
<1>16. ASSUME NEW r \in Requests, LogIssued(r) PROVE TypeOK'
  BY <1>16 DEF LogIssued
<1>17. ASSUME NEW r \in Requests, Warn(r) PROVE TypeOK'
  BY <1>17 DEF Warn
<1>18. ASSUME NEW r \in Requests, RecordEvent(r) PROVE TypeOK'
  <2>1. [event |-> Key(r), by |-> r, replay |-> FALSE] \in EventRows
    BY DEF EventRows
  <2>2. events' \subseteq EventRows
    BY <1>18, <2>1 DEF RecordEvent, EventRows
  <2> QED
    BY <1>18, <2>2 DEF RecordEvent, EventRows
<1>19. ASSUME NEW r \in Requests, RecordFails(r) PROVE TypeOK'
  BY <1>19 DEF RecordFails
<1>20. ASSUME NEW r \in Requests, MarkReplay(r) PROVE TypeOK'
  <2>1. events \subseteq EventRows
    BY DEF EventRows
  <2>2. events' \subseteq EventRows
    BY <1>20, <2>1, MarkedRow DEF MarkReplay
  <2> QED
    BY <1>20, <2>2 DEF MarkReplay, EventRows
<1>21. ASSUME NEW r \in Requests, Respond(r) PROVE TypeOK'
  BY <1>21 DEF Respond
<1>22. ASSUME NEW r \in Requests, Fail(r) PROVE TypeOK'
  BY <1>22 DEF Fail
<1>23. CASE Crash
  BY <1>23 DEF Crash
<1>24. CASE UNCHANGED vars
  BY <1>24 DEF vars
<1> QED
  BY <1>1, <1>2, <1>3, <1>4, <1>5, <1>6, <1>7, <1>8, <1>9, <1>10, <1>11,
     <1>12, <1>13, <1>14, <1>15, <1>16, <1>17, <1>18, <1>19, <1>20, <1>21,
     <1>22, <1>23, <1>24 DEF Next, DepositStep, CardStep, WebhookStep

LEMMA RouteInvStep == IInv /\ [Next]_vars => RouteInv'
<1> SUFFICES ASSUME IInv, [Next]_vars PROVE RouteInv'
  OBVIOUS
<1> USE DashboardAssumption DEF IInv, At, Continue, Release, Keeps, Log,
        tables, ledger, Waiting, Running, FirstLabel, InputType, Kinds, TypeOK,
        RouteInv, WithKey, LoggedCards, Rowless, Crediting, Issuing, Answer
<1>1. ASSUME NEW r \in Requests, Receive(r) PROVE RouteInv'
  BY <1>1 DEF Receive
<1>2. ASSUME NEW r \in Requests, Reject(r) PROVE RouteInv'
  BY <1>2 DEF Reject
<1>3. ASSUME NEW r \in Requests, FindDeposit(r) PROVE RouteInv'
  BY <1>3 DEF FindDeposit
<1>4. ASSUME NEW r \in Requests, InsertDeposit(r) PROVE RouteInv'
  BY <1>4 DEF InsertDeposit
<1>5. ASSUME NEW r \in Requests, LogDeposit(r) PROVE RouteInv'
  BY <1>5 DEF LogDeposit
<1>6. ASSUME NEW r \in Requests, EnsureAccount(r) PROVE RouteInv'
  BY <1>6 DEF EnsureAccount
<1>7. ASSUME NEW r \in Requests, InsertEntry(r) PROVE RouteInv'
  BY <1>7 DEF InsertEntry
<1>8. ASSUME NEW r \in Requests, UpdateBalance(r) PROVE RouteInv'
  BY <1>8 DEF UpdateBalance
<1>9. ASSUME NEW r \in Requests, ReadEntry(r) PROVE RouteInv'
  BY <1>9 DEF ReadEntry
<1>10. ASSUME NEW r \in Requests, FindCard(r) PROVE RouteInv'
  <2>1. PICK d \in Requests \cup {NoRequest} :
          Keeps(r, d) /\ (\/ Continue(r, "check_active") /\ d = NoRequest
                          \/ Continue(r, "respond"))
    BY <1>10 DEF FindCard, LoggedCards
  <2>2. UNCHANGED tables /\ At(r, "find_card")
    BY <1>10 DEF FindCard
  <2> QED
    BY <2>1, <2>2
<1>11. ASSUME NEW r \in Requests, CheckActive(r) PROVE RouteInv'
  BY <1>11 DEF CheckActive
<1>12. ASSUME NEW r \in Requests, InsertCard(r) PROVE RouteInv'
  BY <1>12 DEF InsertCard
<1>13. ASSUME NEW r \in Requests, LogCard(r) PROVE RouteInv'
  BY <1>13 DEF LogCard
<1>14. ASSUME NEW r \in Requests, ReadCard(r) PROVE RouteInv'
  BY <1>14 DEF ReadCard
<1>15. ASSUME NEW r \in Requests, UpdateCard(r) PROVE RouteInv'
  BY <1>15 DEF UpdateCard
<1>16. ASSUME NEW r \in Requests, LogIssued(r) PROVE RouteInv'
  BY <1>16 DEF LogIssued
<1>17. ASSUME NEW r \in Requests, Warn(r) PROVE RouteInv'
  BY <1>17 DEF Warn
<1>18. ASSUME NEW r \in Requests, RecordEvent(r) PROVE RouteInv'
  BY <1>18 DEF RecordEvent
<1>19. ASSUME NEW r \in Requests, RecordFails(r) PROVE RouteInv'
  BY <1>19 DEF RecordFails
<1>20. ASSUME NEW r \in Requests, MarkReplay(r) PROVE RouteInv'
  BY <1>20 DEF MarkReplay
<1>21. ASSUME NEW r \in Requests, Respond(r) PROVE RouteInv'
  BY <1>21 DEF Respond
<1>22. ASSUME NEW r \in Requests, Fail(r) PROVE RouteInv'
  BY <1>22 DEF Fail
<1>23. CASE Crash
  BY <1>23 DEF Crash
<1>24. CASE UNCHANGED vars
  BY <1>24 DEF vars
<1> QED
  BY <1>1, <1>2, <1>3, <1>4, <1>5, <1>6, <1>7, <1>8, <1>9, <1>10, <1>11,
     <1>12, <1>13, <1>14, <1>15, <1>16, <1>17, <1>18, <1>19, <1>20, <1>21,
     <1>22, <1>23, <1>24 DEF Next, DepositStep, CardStep, WebhookStep

LEMMA DepositInvStep == IInv /\ [Next]_vars => DepositInv'
<1> SUFFICES ASSUME IInv, [Next]_vars PROVE DepositInv'
  OBVIOUS
<1> USE DashboardAssumption DEF IInv, At, Continue, Release, Keeps, Log,
        tables, ledger, Waiting, Running, FirstLabel, InputType, Kinds, TypeOK,
        RouteInv, DepositInv, Rowless, Crediting, Issuing, Final, WithKey, Key
<1>1. ASSUME NEW r \in Requests, Receive(r) PROVE DepositInv'
  BY <1>1 DEF Receive
<1>2. ASSUME NEW r \in Requests, Reject(r) PROVE DepositInv'
  BY <1>2 DEF Reject
<1>3. ASSUME NEW r \in Requests, FindDeposit(r) PROVE DepositInv'
  BY <1>3 DEF FindDeposit
<1>4. ASSUME NEW r \in Requests, InsertDeposit(r) PROVE DepositInv'
  BY <1>4 DEF InsertDeposit
<1>5. ASSUME NEW r \in Requests, LogDeposit(r) PROVE DepositInv'
  BY <1>5 DEF LogDeposit
<1>6. ASSUME NEW r \in Requests, EnsureAccount(r) PROVE DepositInv'
  BY <1>6 DEF EnsureAccount
<1>7. ASSUME NEW r \in Requests, InsertEntry(r) PROVE DepositInv'
  BY <1>7 DEF InsertEntry
<1>8. ASSUME NEW r \in Requests, UpdateBalance(r) PROVE DepositInv'
  BY <1>8 DEF UpdateBalance
<1>9. ASSUME NEW r \in Requests, ReadEntry(r) PROVE DepositInv'
  BY <1>9 DEF ReadEntry
<1>10. ASSUME NEW r \in Requests, FindCard(r) PROVE DepositInv'
  BY <1>10 DEF FindCard
<1>11. ASSUME NEW r \in Requests, CheckActive(r) PROVE DepositInv'
  BY <1>11 DEF CheckActive
<1>12. ASSUME NEW r \in Requests, InsertCard(r) PROVE DepositInv'
  BY <1>12 DEF InsertCard
<1>13. ASSUME NEW r \in Requests, LogCard(r) PROVE DepositInv'
  BY <1>13 DEF LogCard
<1>14. ASSUME NEW r \in Requests, ReadCard(r) PROVE DepositInv'
  BY <1>14 DEF ReadCard
<1>15. ASSUME NEW r \in Requests, UpdateCard(r) PROVE DepositInv'
  BY <1>15 DEF UpdateCard
<1>16. ASSUME NEW r \in Requests, LogIssued(r) PROVE DepositInv'
  BY <1>16 DEF LogIssued
<1>17. ASSUME NEW r \in Requests, Warn(r) PROVE DepositInv'
  BY <1>17 DEF Warn
<1>18. ASSUME NEW r \in Requests, RecordEvent(r) PROVE DepositInv'
  BY <1>18 DEF RecordEvent
<1>19. ASSUME NEW r \in Requests, RecordFails(r) PROVE DepositInv'
  BY <1>19 DEF RecordFails
<1>20. ASSUME NEW r \in Requests, MarkReplay(r) PROVE DepositInv'
  BY <1>20 DEF MarkReplay
<1>21. ASSUME NEW r \in Requests, Respond(r) PROVE DepositInv'
  BY <1>21 DEF Respond
<1>22. ASSUME NEW r \in Requests, Fail(r) PROVE DepositInv'
  BY <1>22 DEF Fail
<1>23. CASE Crash
  BY <1>23 DEF Crash
<1>24. CASE UNCHANGED vars
  BY <1>24 DEF vars
<1> QED
  BY <1>1, <1>2, <1>3, <1>4, <1>5, <1>6, <1>7, <1>8, <1>9, <1>10, <1>11,
     <1>12, <1>13, <1>14, <1>15, <1>16, <1>17, <1>18, <1>19, <1>20, <1>21,
     <1>22, <1>23, <1>24 DEF Next, DepositStep, CardStep, WebhookStep

LEMMA CardInvStep == IInv /\ [Next]_vars => CardInv'
<1> SUFFICES ASSUME IInv, [Next]_vars PROVE CardInv'
  OBVIOUS
<1> USE DashboardAssumption DEF IInv, At, Continue, Release, Keeps, Log,
        tables, ledger, Waiting, Running, FirstLabel, InputType, Kinds, TypeOK,
        RouteInv, CardInv, Logged, Rowless, Crediting, Issuing, Final, Active,
        Answer
<1>1. ASSUME NEW r \in Requests, Receive(r) PROVE CardInv'
  BY <1>1 DEF Receive
<1>2. ASSUME NEW r \in Requests, Reject(r) PROVE CardInv'
  BY <1>2 DEF Reject
<1>3. ASSUME NEW r \in Requests, FindDeposit(r) PROVE CardInv'
  BY <1>3 DEF FindDeposit
<1>4. ASSUME NEW r \in Requests, InsertDeposit(r) PROVE CardInv'
  BY <1>4 DEF InsertDeposit
<1>5. ASSUME NEW r \in Requests, LogDeposit(r) PROVE CardInv'
  BY <1>5 DEF LogDeposit
<1>6. ASSUME NEW r \in Requests, EnsureAccount(r) PROVE CardInv'
  BY <1>6 DEF EnsureAccount
<1>7. ASSUME NEW r \in Requests, InsertEntry(r) PROVE CardInv'
  BY <1>7 DEF InsertEntry
<1>8. ASSUME NEW r \in Requests, UpdateBalance(r) PROVE CardInv'
  BY <1>8 DEF UpdateBalance
<1>9. ASSUME NEW r \in Requests, ReadEntry(r) PROVE CardInv'
  BY <1>9 DEF ReadEntry
<1>10. ASSUME NEW r \in Requests, FindCard(r) PROVE CardInv'
  <2>1. cards[r] = "none" /\ r \notin LoggedCards(r)
    BY <1>10 DEF FindCard, LoggedCards
  <2>2. PICK d \in (Requests \cup {NoRequest}) \ {r} :
          Keeps(r, d) /\ (Continue(r, "check_active") \/ Continue(r, "respond"))
    BY <1>10, <2>1 DEF FindCard, LoggedCards
  <2>3. UNCHANGED tables /\ At(r, "find_card")
    BY <1>10 DEF FindCard
  <2> QED
    BY <2>1, <2>2, <2>3
<1>11. ASSUME NEW r \in Requests, CheckActive(r) PROVE CardInv'
  BY <1>11 DEF CheckActive
<1>12. ASSUME NEW r \in Requests, InsertCard(r) PROVE CardInv'
  <2>1. pc[r] = "insert_card" /\ Active = {} /\ cards[r] = "none"
    BY <1>12 DEF InsertCard
  <2>2. \A q \in Requests : pc[q] \in Running => q = r
    BY <1>12 DEF InsertCard
  <2>3. Active' = {r}
    BY <1>12, <2>1 DEF InsertCard
  <2>4. \A q \in Requests : Logged(q)' <=> Logged(q)
    BY <1>12 DEF InsertCard
  <2> HIDE DEF Logged
  <2> QED
    BY <1>12, <2>1, <2>2, <2>3, <2>4 DEF InsertCard
<1>13. ASSUME NEW r \in Requests, LogCard(r) PROVE CardInv'
  BY <1>13 DEF LogCard
<1>14. ASSUME NEW r \in Requests, ReadCard(r) PROVE CardInv'
  BY <1>14 DEF ReadCard
<1>15. ASSUME NEW r \in Requests, UpdateCard(r) PROVE CardInv'
  <2>1. cards[r] = "requested" /\ Logged(r) /\ Active' = Active
    BY <1>15 DEF UpdateCard
  <2>2. \A q \in Requests : pc[q] \notin Running
    BY <1>15 DEF UpdateCard
  <2>3. \A q \in Requests : Logged(q)' <=> Logged(q)
    BY <1>15 DEF UpdateCard
  <2> HIDE DEF Logged, Active
  <2> QED
    BY <1>15, <2>1, <2>2, <2>3 DEF UpdateCard
<1>16. ASSUME NEW r \in Requests, LogIssued(r) PROVE CardInv'
  BY <1>16 DEF LogIssued
<1>17. ASSUME NEW r \in Requests, Warn(r) PROVE CardInv'
  BY <1>17 DEF Warn
<1>18. ASSUME NEW r \in Requests, RecordEvent(r) PROVE CardInv'
  BY <1>18 DEF RecordEvent
<1>19. ASSUME NEW r \in Requests, RecordFails(r) PROVE CardInv'
  BY <1>19 DEF RecordFails
<1>20. ASSUME NEW r \in Requests, MarkReplay(r) PROVE CardInv'
  BY <1>20 DEF MarkReplay
<1>21. ASSUME NEW r \in Requests, Respond(r) PROVE CardInv'
  BY <1>21 DEF Respond
<1>22. ASSUME NEW r \in Requests, Fail(r) PROVE CardInv'
  BY <1>22 DEF Fail
<1>23. CASE Crash
  BY <1>23 DEF Crash
<1>24. CASE UNCHANGED vars
  BY <1>24 DEF vars
<1> QED
  BY <1>1, <1>2, <1>3, <1>4, <1>5, <1>6, <1>7, <1>8, <1>9, <1>10, <1>11,
     <1>12, <1>13, <1>14, <1>15, <1>16, <1>17, <1>18, <1>19, <1>20, <1>21,
     <1>22, <1>23, <1>24 DEF Next, DepositStep, CardStep, WebhookStep

LEMMA EventInvStep == IInv /\ [Next]_vars => EventInv'
<1> SUFFICES ASSUME IInv, [Next]_vars PROVE EventInv'
  OBVIOUS
<1> USE DashboardAssumption DEF IInv, At, Continue, Release, Keeps, Log,
        tables, ledger, Waiting, Running, FirstLabel, InputType, Kinds, TypeOK,
        RouteInv, EventInv, EventOf, Rowless, Crediting, Issuing, Final, Rows,
        Key, Answer
<1>1. ASSUME NEW r \in Requests, Receive(r) PROVE EventInv'
  BY <1>1 DEF Receive
<1>2. ASSUME NEW r \in Requests, Reject(r) PROVE EventInv'
  BY <1>2 DEF Reject
<1>3. ASSUME NEW r \in Requests, FindDeposit(r) PROVE EventInv'
  BY <1>3 DEF FindDeposit
<1>4. ASSUME NEW r \in Requests, InsertDeposit(r) PROVE EventInv'
  BY <1>4 DEF InsertDeposit
<1>5. ASSUME NEW r \in Requests, LogDeposit(r) PROVE EventInv'
  BY <1>5 DEF LogDeposit
<1>6. ASSUME NEW r \in Requests, EnsureAccount(r) PROVE EventInv'
  BY <1>6 DEF EnsureAccount
<1>7. ASSUME NEW r \in Requests, InsertEntry(r) PROVE EventInv'
  BY <1>7 DEF InsertEntry
<1>8. ASSUME NEW r \in Requests, UpdateBalance(r) PROVE EventInv'
  BY <1>8 DEF UpdateBalance
<1>9. ASSUME NEW r \in Requests, ReadEntry(r) PROVE EventInv'
  BY <1>9 DEF ReadEntry
<1>10. ASSUME NEW r \in Requests, FindCard(r) PROVE EventInv'
  BY <1>10 DEF FindCard
<1>11. ASSUME NEW r \in Requests, CheckActive(r) PROVE EventInv'
  BY <1>11 DEF CheckActive
<1>12. ASSUME NEW r \in Requests, InsertCard(r) PROVE EventInv'
  BY <1>12 DEF InsertCard
<1>13. ASSUME NEW r \in Requests, LogCard(r) PROVE EventInv'
  BY <1>13 DEF LogCard
<1>14. ASSUME NEW r \in Requests, ReadCard(r) PROVE EventInv'
  BY <1>14 DEF ReadCard
<1>15. ASSUME NEW r \in Requests, UpdateCard(r) PROVE EventInv'
  BY <1>15 DEF UpdateCard
<1>16. ASSUME NEW r \in Requests, LogIssued(r) PROVE EventInv'
  BY <1>16 DEF LogIssued
<1>17. ASSUME NEW r \in Requests, Warn(r) PROVE EventInv'
  BY <1>17 DEF Warn
<1>18. ASSUME NEW r \in Requests, RecordEvent(r) PROVE EventInv'
  <2> DEFINE x == [event |-> Key(r), by |-> r, replay |-> FALSE]
  <2>1. events' = events \cup {x} /\ \A y \in events : y.event # x.event
    BY <1>18 DEF RecordEvent
  <2>2. EventOf(r, x)
    OBVIOUS
  <2>3. \A y, z \in events : y.event = z.event => y = z
    OBVIOUS
  <2> HIDE DEF x
  <2>4. \A y, z \in events' : y.event = z.event => y = z
    BY ONLY <2>1, <2>3
  <2> QED
    BY <1>18, <2>1, <2>2, <2>4 DEF RecordEvent
<1>19. ASSUME NEW r \in Requests, RecordFails(r) PROVE EventInv'
  BY <1>19 DEF RecordFails
<1>20. ASSUME NEW r \in Requests, MarkReplay(r) PROVE EventInv'
  <2> DEFINE f(x) == IF x.event = Key(r) THEN [x EXCEPT !.replay = TRUE] ELSE x
  <2>1. events' = {f(x) : x \in events}
    BY <1>20 DEF MarkReplay
  <2>2. \A x \in events : f(x).event = x.event /\ f(x).by = x.by
    BY MarkedRow DEF EventRows
  <2> HIDE DEF f
  <2>3. ASSUME NEW y \in events', NEW z \in events', y.event = z.event
        PROVE  y = z
    <3>1. PICK u \in events, v \in events : y = f(u) /\ z = f(v)
      BY <2>1
    <3>2. u = v
      BY <2>2, <2>3, <3>1
    <3> QED
      BY <3>1, <3>2
  <2>4. ASSUME NEW q \in Requests, NEW x \in events, EventOf(q, x)
        PROVE  \E y \in events' : EventOf(q, y)'
    <3>1. f(x) \in events'
      BY <2>1
    <3>2. f(x).event = Key(q)' /\ f(x).by = q
      BY <1>20, <2>2, <2>4 DEF MarkReplay
    <3> QED
      BY <3>1, <3>2
  <2>5. \A q \in Requests : (\E x \in events : EventOf(q, x))
                          => (\E y \in events' : EventOf(q, y)')
    BY <2>4
  <2>6. UNCHANGED <<input, found, told>> /\ found[r] # r
    BY <1>20 DEF MarkReplay
  <2>7. \A q \in Requests \ {r} : pc'[q] = pc[q]
    BY <1>20 DEF MarkReplay
  <2> QED
    BY ONLY EventInv, <2>3, <2>5, <2>6, <2>7 DEF EventInv
<1>21. ASSUME NEW r \in Requests, Respond(r) PROVE EventInv'
  BY <1>21 DEF Respond
<1>22. ASSUME NEW r \in Requests, Fail(r) PROVE EventInv'
  BY <1>22 DEF Fail
<1>23. CASE Crash
  BY <1>23 DEF Crash
<1>24. CASE UNCHANGED vars
  BY <1>24 DEF vars
<1> QED
  BY <1>1, <1>2, <1>3, <1>4, <1>5, <1>6, <1>7, <1>8, <1>9, <1>10, <1>11,
     <1>12, <1>13, <1>14, <1>15, <1>16, <1>17, <1>18, <1>19, <1>20, <1>21,
     <1>22, <1>23, <1>24 DEF Next, DepositStep, CardStep, WebhookStep

LEMMA InitIInv == Init => IInv /\ RowInv /\ ReplayInv
<1> SUFFICES ASSUME Init PROVE IInv /\ RowInv /\ ReplayInv
  OBVIOUS
<1> USE DashboardAssumption DEF Init
<1>1. TypeOK
  BY DEF TypeOK, Answers, Waiting, Running
<1>2. RouteInv /\ DepositInv /\ CardInv /\ EventInv
  BY DEF RouteInv, DepositInv, CardInv, EventInv, Rowless, Crediting, Issuing,
         Active
<1>3. RowInv /\ ReplayInv
  BY DEF RowInv, ReplayInv, Again, RowAnswers
<1> QED
  BY <1>1, <1>2, <1>3 DEF IInv

LEMMA StepIInv == IInv /\ [Next]_vars => IInv'
BY TypeOKStep, RouteInvStep, DepositInvStep, CardInvStep, EventInvStep DEF IInv

-----------------------------------------------------------------------------
(* No step takes back a row, or a request.                                 *)
LEMMA RowsStay ==
  ASSUME IInv, [Next]_vars
  PROVE  /\ UNCHANGED input
         /\ deposits \subseteq deposits'
         /\ operations \subseteq operations'
         /\ \A q \in Requests : cards[q] # "none" => cards'[q] # "none"
<1> USE DEF IInv, TypeOK, At, Continue, Release, Keeps, Log, tables, ledger
<1>1. ASSUME NEW r \in Requests,
             Receive(r) \/ Reject(r) \/ Respond(r) \/ Fail(r)
      PROVE  UNCHANGED <<input, tables>>
  BY <1>1 DEF Receive, Reject, Respond, Fail
<1>2. ASSUME NEW r \in Requests, DepositStep(r)
      PROVE  /\ UNCHANGED <<input, cards>>
             /\ deposits \subseteq deposits' /\ operations \subseteq operations'
  BY <1>2 DEF DepositStep, FindDeposit, InsertDeposit, LogDeposit,
     EnsureAccount, InsertEntry, UpdateBalance, ReadEntry
<1>3. ASSUME NEW r \in Requests, CardStep(r)
      PROVE  /\ UNCHANGED <<input, deposits>>
             /\ operations \subseteq operations'
             /\ \A q \in Requests : cards[q] # "none" => cards'[q] # "none"
  BY <1>3 DEF CardStep, FindCard, CheckActive, InsertCard, LogCard, ReadCard,
     UpdateCard, LogIssued, Warn
<1>4. ASSUME NEW r \in Requests, WebhookStep(r)
      PROVE  UNCHANGED <<input, deposits, cards, operations>>
  BY <1>4 DEF WebhookStep, RecordEvent, RecordFails, MarkReplay
<1>5. ASSUME Crash \/ UNCHANGED vars
      PROVE  UNCHANGED <<input, tables>>
  BY <1>5 DEF Crash, vars
<1> QED
  BY <1>1, <1>2, <1>3, <1>4, <1>5 DEF Next

LEMMA FindsStays ==
  ASSUME IInv, [Next]_vars, NEW q \in Requests, NEW d, Finds(q, d)
  PROVE  Finds(q, d)'
BY RowsStay DEF Finds, WithKey, LoggedCards, Key

(* What a step of r does to the control of another request: nothing but    *)
(* losing it in a crash.                                                   *)
LEMMA OthersStay ==
  ASSUME IInv, [Next]_vars, NEW q \in Requests
  PROVE  \/ UNCHANGED <<pc[q], found[q], told[q], answered[q]>>
         \/ pc'[q] = "lost" /\ UNCHANGED <<found[q], told[q], answered[q]>>
         \/ Receive(q) \/ Reject(q) \/ DepositStep(q) \/ CardStep(q)
         \/ WebhookStep(q) \/ Respond(q) \/ Fail(q)
<1> USE DEF IInv, TypeOK, At, Continue, Release, Keeps, Log, tables, ledger
<1>1. ASSUME NEW r \in Requests \ {q},
             Receive(r) \/ Reject(r) \/ Respond(r) \/ Fail(r)
      PROVE  UNCHANGED <<pc[q], found[q], told[q], answered[q]>>
  BY <1>1 DEF Receive, Reject, Respond, Fail
<1>2. ASSUME NEW r \in Requests \ {q}, DepositStep(r)
      PROVE  UNCHANGED <<pc[q], found[q], told[q], answered[q]>>
  BY <1>2 DEF DepositStep, FindDeposit, InsertDeposit, LogDeposit,
     EnsureAccount, InsertEntry, UpdateBalance, ReadEntry
<1>3. ASSUME NEW r \in Requests \ {q}, CardStep(r)
      PROVE  UNCHANGED <<pc[q], found[q], told[q], answered[q]>>
  BY <1>3 DEF CardStep, FindCard, CheckActive, InsertCard, LogCard, ReadCard,
     UpdateCard, LogIssued, Warn
<1>4. ASSUME NEW r \in Requests \ {q}, WebhookStep(r)
      PROVE  UNCHANGED <<pc[q], found[q], told[q], answered[q]>>
  BY <1>4 DEF WebhookStep, RecordEvent, RecordFails, MarkReplay
<1>5. CASE Crash
  BY <1>5 DEF Crash
<1>6. CASE UNCHANGED vars
  BY <1>6 DEF vars
<1> QED
  BY <1>1, <1>2, <1>3, <1>4, <1>5, <1>6 DEF Next

LEMMA RowInvStep == IInv /\ RowInv /\ [Next]_vars => RowInv'
<1> SUFFICES ASSUME IInv, RowInv, [Next]_vars, NEW r \in Requests,
                    (<<Key(r), Key(r)>> \in Like)',
                    (\/ pc[r] = "respond" /\ input[r].kind # "webhook"
                                          /\ found[r] # NoRequest
                     \/ told[r] \in RowAnswers)'
             PROVE  Finds(r, found[r])'
  BY DEF RowInv
<1>0. Key(r)' = Key(r) /\ input' = input
  BY RowsStay DEF Key
<1>f. \A d : Finds(r, d) => Finds(r, d)'
  BY FindsStays
<1> USE DashboardAssumption
    DEF IInv, TypeOK, RouteInv, RowInv, At, Continue, Release, Keeps, Waiting,
        Running, Rowless, Crediting, Issuing, RowAnswers, FirstLabel
<1>1. CASE UNCHANGED <<found[r], told[r]>> /\ pc'[r] \in {pc[r], "lost"}
  BY <1>1, <1>0, <1>f
<1>2. CASE Receive(r) \/ Reject(r) \/ Fail(r)
  BY <1>2, <1>0, <1>f DEF Receive, Reject, Fail
<1>3. CASE Respond(r)
  <2>1. input[r].kind # "webhook" /\ found[r] # NoRequest
    BY <1>3 DEF Respond, Answer, InputType, Kinds
  <2> QED
    BY <1>3, <1>0, <1>f, <2>1 DEF Respond
<1>4. CASE DepositStep(r)
  <2>1. CASE FindDeposit(r)
    BY <2>1, <1>0, <1>f DEF FindDeposit, Finds
  <2>2. CASE ReadEntry(r)
    BY <2>2, <1>0, <1>f DEF ReadEntry, DepositInv, Finds, WithKey
  <2> QED
    BY <1>4, <2>1, <2>2 DEF DepositStep, InsertDeposit, LogDeposit,
       EnsureAccount, InsertEntry, UpdateBalance
<1>5. CASE CardStep(r)
  <2>1. CASE FindCard(r)
    BY <2>1, <1>0, <1>f DEF FindCard, Finds
  <2>2. CASE LogIssued(r) \/ Warn(r)
    <3>1. Logged(r) /\ cards[r] # "none" /\ <<Key(r), Key(r)>> \in Like
      BY <2>2, <1>0 DEF LogIssued, Warn, CardInv
    <3>2. Finds(r, r)
      BY <3>1, <2>2 DEF Finds, LoggedCards, Logged, LogIssued, Warn
    <3> QED
      BY <2>2, <3>2, <1>f DEF LogIssued, Warn
  <2> QED
    BY <1>5, <2>1, <2>2 DEF CardStep, CheckActive, InsertCard, LogCard,
       ReadCard, UpdateCard
<1>6. CASE WebhookStep(r)
  BY <1>6, <1>0 DEF WebhookStep, RecordEvent, RecordFails, MarkReplay
<1> QED
  BY <1>1, <1>2, <1>3, <1>4, <1>5, <1>6, OthersStay

LEMMA ReplayInvStep == IInv /\ RowInv /\ ReplayInv /\ [Next]_vars => ReplayInv'
<1> SUFFICES ASSUME IInv, RowInv, ReplayInv, [Next]_vars,
                    NEW q \in Requests, NEW r \in Requests, Again(q, r)'
             PROVE  (/\ pc[r] \in {"find_deposit", "find_card"} \cup Final
                     /\ found[q] # r
                     /\ pc[r] = "respond" => found[r] = found[q]
                     /\ told[r] \notin {"none", "error"}
                          => told[r] = "existing" /\ found[r] = found[q])'
  BY DEF ReplayInv
<1> USE DashboardAssumption
    DEF IInv, TypeOK, RouteInv, At, Continue, Release, Keeps, Waiting,
        Running, Rowless, Crediting, Issuing, Final, RowAnswers, FirstLabel
<1>0. Key(r)' = Key(r) /\ Key(q)' = Key(q) /\ input' = input
  BY RowsStay DEF Key
<1>1. CASE Receive(r)
  <2>1. /\ UNCHANGED <<found, told>>
        /\ pc[r] = "new" /\ told[r] = "none"
        /\ pc'[r] \in {"find_deposit", "find_card", "record_event"}
        /\ pc'[r] = "record_event" => input[r].kind = "webhook"
    BY <1>1 DEF Receive, InputType, Kinds
  <2>2. Finds(q, found[q])
    BY <2>1, <1>0 DEF Again, RowInv
  <2>3. found[q] # r /\ input[q].kind # "webhook"
    BY <2>1, <2>2 DEF Finds, DepositInv, CardInv, WithKey, LoggedCards
  <2> QED
    BY <2>1, <2>3, <1>0 DEF Again
<1>2. CASE ~Receive(r)
  <2>1. UNCHANGED <<answered[r]>>
    BY <1>2, OthersStay DEF Reject, DepositStep, CardStep, WebhookStep,
       Respond, Fail, FindDeposit, InsertDeposit, LogDeposit, EnsureAccount,
       InsertEntry, UpdateBalance, ReadEntry, FindCard, CheckActive,
       InsertCard, LogCard, ReadCard, UpdateCard, LogIssued, Warn,
       RecordEvent, RecordFails, MarkReplay, tables, ledger
  <2>2. pc[q] = "done" /\ told[q] # "none"
    BY <2>1 DEF Again
  <2>3. UNCHANGED <<found[q], told[q]>>
    BY <2>2, OthersStay DEF Receive, Reject, DepositStep, CardStep,
       WebhookStep, Respond, Fail, FindDeposit, InsertDeposit, LogDeposit,
       EnsureAccount, InsertEntry, UpdateBalance, ReadEntry, FindCard,
       CheckActive, InsertCard, LogCard, ReadCard, UpdateCard, LogIssued,
       Warn, RecordEvent, RecordFails, MarkReplay
  <2>4. Again(q, r)
    BY <2>1, <2>3, <1>0 DEF Again
  <2>5. /\ pc[r] \in {"find_deposit", "find_card"} \cup Final
        /\ found[q] # r
        /\ pc[r] = "respond" => found[r] = found[q]
        /\ told[r] \notin {"none", "error"}
             => told[r] = "existing" /\ found[r] = found[q]
    BY <2>4 DEF ReplayInv
  <2>6. Finds(q, found[q])
    BY <2>4 DEF Again, RowInv
  <2>7. CASE UNCHANGED <<found[r], told[r]>> /\ pc'[r] \in {pc[r], "lost"}
    BY <2>3, <2>5, <2>7
  <2>8. CASE Respond(r)
    <3>1. found[r] = found[q] /\ found[q] # r /\ found[q] # NoRequest
          /\ input[r].kind # "webhook"
      BY <2>4, <2>5, <2>6, <2>8 DEF Respond, Finds, Again, WithKey, LoggedCards
    <3>2. Answer(r) = "existing"
      BY <3>1 DEF Answer, InputType, Kinds
    <3> QED
      BY <2>3, <2>8, <3>1, <3>2 DEF Respond
  <2>9. CASE Fail(r) \/ Reject(r)
    BY <2>3, <2>5, <2>9 DEF Fail, Reject
  <2>10. CASE FindDeposit(r)
    <3>1. found[q] \in WithKey(Key(r))
      BY <2>4, <2>6, <2>10 DEF FindDeposit, Finds, Again
    <3>2. \A d \in WithKey(Key(r)) : d = found[q]
      BY <3>1 DEF WithKey, DepositInv
    <3> QED
      BY <2>3, <2>5, <2>10, <3>1, <3>2 DEF FindDeposit
  <2>11. CASE FindCard(r)
    <3>1. found[q] \in LoggedCards(r)
      BY <2>4, <2>6, <2>11 DEF FindCard, Finds, Again, LoggedCards
    <3>2. \A d \in LoggedCards(r) : d = found[q]
      BY <3>1 DEF LoggedCards, CardInv, Active
    <3> QED
      BY <2>3, <2>5, <2>11, <3>1, <3>2 DEF FindCard
  <2>12. CASE DepositStep(r) /\ ~FindDeposit(r)
    BY <2>5, <2>12 DEF DepositStep, InsertDeposit, LogDeposit, EnsureAccount,
       InsertEntry, UpdateBalance, ReadEntry
  <2>13. CASE CardStep(r) /\ ~FindCard(r)
    BY <2>5, <2>13 DEF CardStep, CheckActive, InsertCard, LogCard, ReadCard,
       UpdateCard, LogIssued, Warn
  <2>14. CASE WebhookStep(r)
    BY <2>4, <2>5, <2>6, <2>14
       DEF WebhookStep, RecordEvent, RecordFails, MarkReplay, Finds, Again
  <2> QED
    BY <1>2, <2>7, <2>8, <2>9, <2>10, <2>11, <2>12, <2>13, <2>14, OthersStay
<1> QED
  BY <1>1, <1>2

-----------------------------------------------------------------------------
(* The balance.                                                            *)
LEMMA TotalFacts ==
  ASSUME IInv, NEW T \in SUBSET Requests, NEW S \in SUBSET T
  PROVE  /\ Total(S) \in Nat /\ Total(T) \in Nat
         /\ Total(S) <= Total(T)
         /\ \A r \in Requests \ S : Total(S \cup {r}) = Total(S) + Amount(r)
<1> DEFINE f == [r \in Requests |-> Amount(r)]
<1>1. IsFiniteSet(S) /\ IsFiniteSet(T)
  BY DashboardAssumption, FS_Subset
<1>2. \A r \in Requests : f[r] \in Nat /\ f[r] = Amount(r)
  BY DashboardAssumption DEF IInv, TypeOK, InputType, Amount
<1>3. \A U : Total(U) = Sum(f, U)
  BY DEF Total
<1> HIDE DEF f
<1>4. Sum(f, S) \in Nat /\ Sum(f, T) \in Nat /\ Sum(f, S) <= Sum(f, T)
  BY <1>1, <1>2, SumNat, SumMonotone
<1>5. ASSUME NEW r \in Requests \ S
      PROVE  Sum(f, S \cup {r}) = Sum(f, S) + f[r]
  BY <1>1, <1>2, SumAdd
<1> QED
  BY <1>2, <1>3, <1>4, <1>5

LEMMA InitBalanceInv == Init => BalanceInv
<1> SUFFICES ASSUME Init PROVE BalanceInv
  OBVIOUS
<1>1. Total({}) = 0
  BY SumEmpty DEF Total
<1> QED
  BY <1>1 DEF Init, BalanceInv, PastUpdate

(* What a step does to the deposits: nothing, or one of these for one r.   *)
Quiet ==
  /\ UNCHANGED ledger
  /\ \A q \in Requests : told'[q] = "created" <=> told[q] = "created"

Stored(r) ==
  /\ pc[r] = "insert_deposit" /\ pc'[r] = "log_deposit"
  /\ WithKey(Key(r)) = {}
  /\ deposits' = deposits \cup {r}
  /\ UNCHANGED <<balance, entries, credited, told>>

Posted(r) ==
  /\ pc[r] = "insert_entry" /\ pc'[r] = "update_balance"
  /\ entries' = entries \cup {r}
  /\ UNCHANGED <<deposits, balance, credited, told>>

Added(r) ==
  /\ pc[r] = "update_balance" /\ pc'[r] = "read_entry"
  /\ credited' = credited \cup {r}
  /\ balance' = balance + Amount(r)
  /\ UNCHANGED <<deposits, entries, told>>

Confirmed(r) ==
  /\ pc[r] = "respond" /\ pc'[r] = "done"
  /\ input[r].kind = "deposit" /\ found[r] = r
  /\ told' = [told EXCEPT ![r] = "created"]
  /\ UNCHANGED ledger

DepositMoves ==
  Quiet \/ \E r \in Requests : Stored(r) \/ Posted(r) \/ Added(r) \/ Confirmed(r)

LEMMA StepMoves == IInv /\ [Next]_vars => DepositMoves
<1> SUFFICES ASSUME IInv, [Next]_vars PROVE DepositMoves
  OBVIOUS
<1>1. ASSUME NEW r \in Requests, Receive(r) PROVE Quiet
  BY <1>1 DEF Receive, Quiet, tables
<1>2. ASSUME NEW r \in Requests, Reject(r) \/ Fail(r) PROVE Quiet
  <2>1. told[r] # "created" /\ told' = [told EXCEPT ![r] = "error"]
    BY <1>2 DEF Reject, Fail, At, IInv, RouteInv, Waiting, Running
  <2> QED
    BY <1>2, <2>1 DEF Reject, Fail, Quiet, tables, IInv, TypeOK
<1>3. ASSUME NEW r \in Requests,
             \/ FindDeposit(r) \/ LogDeposit(r) \/ EnsureAccount(r)
             \/ ReadEntry(r)
      PROVE  Quiet
  BY <1>3 DEF FindDeposit, LogDeposit, EnsureAccount, ReadEntry, Quiet,
              tables, ledger, Keeps
<1>4. ASSUME NEW r \in Requests, InsertDeposit(r) PROVE Stored(r)
  BY <1>4 DEF InsertDeposit, Stored, Keeps, At, Continue, IInv, TypeOK
<1>5. ASSUME NEW r \in Requests, InsertEntry(r) PROVE Posted(r)
  BY <1>5 DEF InsertEntry, Posted, At, Continue, IInv, TypeOK
<1>6. ASSUME NEW r \in Requests, UpdateBalance(r) PROVE Added(r)
  BY <1>6 DEF UpdateBalance, Added, At, Continue, IInv, TypeOK
<1>7. ASSUME NEW r \in Requests, CardStep(r) \/ WebhookStep(r) PROVE Quiet
  <2>1. CASE Warn(r)
    <3>1. told[r] # "created" /\ told' = [told EXCEPT ![r] = "warned"]
      BY <2>1 DEF Warn, At, IInv, RouteInv
    <3> QED
      BY <2>1, <3>1 DEF Warn, Quiet, tables, IInv, TypeOK
  <2>2. CASE ~Warn(r)
    <3>1. UNCHANGED <<ledger, told>>
      BY <1>7, <2>2
         DEF CardStep, FindCard, CheckActive, InsertCard, LogCard, ReadCard,
             UpdateCard, LogIssued, WebhookStep, RecordEvent, RecordFails,
             MarkReplay, tables, Keeps
    <3> QED
      BY <3>1 DEF Quiet
  <2> QED
    BY <2>1, <2>2
<1>8. ASSUME NEW r \in Requests, Respond(r) PROVE Quiet \/ Confirmed(r)
  <2>1. /\ told[r] # "created" /\ pc[r] = "respond" /\ pc'[r] = "done"
        /\ told' = [told EXCEPT ![r] = Answer(r)] /\ UNCHANGED ledger
    BY <1>8 DEF Respond, At, Release, IInv, TypeOK, RouteInv, tables
  <2>2. CASE Answer(r) = "created"
    <3>1. input[r].kind = "deposit" /\ found[r] = r
      BY <2>2, DashboardAssumption DEF Answer, IInv, TypeOK, InputType, Kinds
    <3> QED
      BY <2>1, <2>2, <3>1 DEF Confirmed
  <2>3. CASE Answer(r) # "created"
    BY <2>1, <2>3 DEF Quiet, IInv, TypeOK
  <2> QED
    BY <2>2, <2>3
<1>9. ASSUME Crash PROVE Quiet
  BY <1>9 DEF Crash, tables, Quiet
<1>10. ASSUME UNCHANGED vars PROVE Quiet
  BY <1>10 DEF vars, tables, Quiet
<1> QED
  BY <1>1, <1>2, <1>3, <1>4, <1>5, <1>6, <1>7, <1>8, <1>9, <1>10
     DEF Next, DepositStep, DepositMoves

(* The label from which a handler comes to a label of the deposit route.   *)
LEMMA Predecessors ==
  ASSUME IInv, [Next]_vars, NEW r \in Requests
  PROVE  /\ \/ pc'[r] = pc[r]
            \/ pc'[r] \in Final
            \/ pc'[r] \notin Crediting
            \/ pc'[r] = "log_deposit" /\ pc[r] = "insert_deposit"
            \/ pc'[r] = "ensure_account" /\ pc[r] = "log_deposit"
            \/ pc'[r] = "insert_entry" /\ pc[r] = "ensure_account"
            \/ /\ pc'[r] = "update_balance" /\ pc[r] = "insert_entry"
               /\ r \in entries'
            \/ /\ pc'[r] = "read_entry" /\ pc[r] = "update_balance"
               /\ r \in credited'
         /\ pc[r] \in {"read_entry"} \cup Final
              => pc'[r] \in {"read_entry"} \cup Final
         /\ /\ pc'[r] = "respond" /\ input[r].kind = "deposit"
            /\ found'[r] = r
            => pc[r] = "read_entry" \/ (pc[r] = "respond" /\ found[r] = r)
<1> DEFINE Goal ==
      /\ \/ pc'[r] = pc[r]
         \/ pc'[r] \in Final
         \/ pc'[r] \notin Crediting
         \/ pc'[r] = "log_deposit" /\ pc[r] = "insert_deposit"
         \/ pc'[r] = "ensure_account" /\ pc[r] = "log_deposit"
         \/ pc'[r] = "insert_entry" /\ pc[r] = "ensure_account"
         \/ /\ pc'[r] = "update_balance" /\ pc[r] = "insert_entry"
            /\ r \in entries'
         \/ /\ pc'[r] = "read_entry" /\ pc[r] = "update_balance"
            /\ r \in credited'
      /\ pc[r] \in {"read_entry"} \cup Final
           => pc'[r] \in {"read_entry"} \cup Final
      /\ /\ pc'[r] = "respond" /\ input[r].kind = "deposit"
         /\ found'[r] = r
         => pc[r] = "read_entry" \/ (pc[r] = "respond" /\ found[r] = r)
<1> USE DEF IInv, TypeOK, RouteInv, DepositInv, At, Continue, Release, Keeps,
            Waiting, Running, Rowless, Crediting, Issuing, Final
<1>1. ASSUME UNCHANGED <<pc[r], found[r]>> \/ pc'[r] = "lost" PROVE Goal
  BY <1>1
<1>2. ASSUME Receive(r) \/ Reject(r) \/ Respond(r) \/ Fail(r) PROVE Goal
  BY <1>2, DashboardAssumption
     DEF Receive, Reject, Respond, Fail, FirstLabel, InputType, Kinds
<1>3. ASSUME FindDeposit(r) PROVE Goal
  <2>1. PICK d \in (Requests \cup {NoRequest}) \ {r} :
          /\ Keeps(r, d)
          /\ Continue(r, "insert_deposit") \/ Continue(r, "respond")
    BY <1>3, DashboardAssumption DEF FindDeposit, WithKey
  <2>2. pc[r] = "find_deposit"
    BY <1>3 DEF FindDeposit
  <2> QED
    BY <2>1, <2>2
<1>4. ASSUME \/ InsertDeposit(r) \/ LogDeposit(r) \/ EnsureAccount(r)
             \/ InsertEntry(r) \/ UpdateBalance(r) \/ ReadEntry(r)
      PROVE  Goal
  BY <1>4 DEF InsertDeposit, LogDeposit, EnsureAccount, InsertEntry,
              UpdateBalance, ReadEntry
<1>5. ASSUME CardStep(r) PROVE Goal
  BY <1>5 DEF CardStep, FindCard, CheckActive, InsertCard, LogCard, ReadCard,
              UpdateCard, LogIssued, Warn
<1>6. ASSUME WebhookStep(r) PROVE Goal
  BY <1>6 DEF WebhookStep, RecordEvent, RecordFails, MarkReplay
<1> HIDE DEF Goal
<1>7. Goal
  BY ONLY <1>1, <1>2, <1>3, <1>4, <1>5, <1>6, OthersStay, IInv, [Next]_vars
     DEF DepositStep
<1> QED
  BY <1>7 DEF Goal

(* Where a handler is after a step, as far as the balance goes.            *)
LEMMA StepLabels ==
  ASSUME IInv, BalanceInv, [Next]_vars, NEW r \in Requests
  PROVE  /\ pc'[r] \in {"log_deposit", "ensure_account", "insert_entry"}
              => r \notin entries'
         /\ pc'[r] = "update_balance" => r \in entries'
         /\ r \in credited' => pc'[r] \in {"read_entry"} \cup Final
         /\ PastUpdate(r)' => r \in credited'
<1>1. \/ r \in entries' <=> r \in entries
      \/ /\ pc[r] = "insert_entry" /\ pc'[r] = "update_balance"
         /\ r \in entries'
  BY StepMoves
     DEF DepositMoves, Quiet, Stored, Posted, Added, Confirmed, ledger
<1>2. \/ r \in credited' <=> r \in credited
      \/ /\ pc[r] = "update_balance" /\ pc'[r] = "read_entry"
         /\ r \in credited'
  BY StepMoves
     DEF DepositMoves, Quiet, Stored, Posted, Added, Confirmed, ledger
<1>3. told'[r] = "created" =>
        \/ told[r] = "created"
        \/ pc[r] = "respond" /\ input[r].kind = "deposit" /\ found[r] = r
  BY StepMoves
     DEF DepositMoves, Quiet, Stored, Posted, Added, Confirmed, IInv, TypeOK
<1>4. pc[r] = "insert_deposit" => r \notin entries
  BY DEF IInv, DepositInv, Crediting, Final
<1>5. UNCHANGED input
  BY RowsStay
<1> QED
  BY <1>1, <1>2, <1>3, <1>4, <1>5, Predecessors
     DEF BalanceInv, PastUpdate, Crediting, Final

LEMMA BalanceInvStep == IInv /\ BalanceInv /\ [Next]_vars => BalanceInv'
<1> SUFFICES ASSUME IInv, BalanceInv, [Next]_vars PROVE BalanceInv'
  OBVIOUS
<1>1. UNCHANGED input
  BY RowsStay
<1>2. credited \subseteq entries /\ credited \subseteq Requests
  BY DEF BalanceInv, IInv, TypeOK
<1>3. balance' = Total(credited)' /\ credited' \subseteq entries'
  <2>1. CASE UNCHANGED <<balance, credited>> /\ entries \subseteq entries'
    BY <1>1, <1>2, <2>1 DEF BalanceInv, Total, Amount
  <2>2. ASSUME NEW r \in Requests, Added(r)
        PROVE  balance' = Total(credited)' /\ credited' \subseteq entries'
    <3> DEFINE A == credited \cup {r}
    <3>1. r \in entries /\ r \notin credited
      BY <2>2 DEF Added, BalanceInv, Final
    <3>2. Total(A) = Total(credited) + Amount(r)
      BY <1>2, <3>1, TotalFacts
    <3>3. Total(A)' = Total(A) /\ credited' = A
      BY <1>1, <2>2 DEF Added, Total, Amount
    <3>4. balance' = Total(A)'
      BY <2>2, <3>2, <3>3 DEF Added, BalanceInv
    <3> QED
      BY <1>2, <2>2, <3>1, <3>3, <3>4 DEF Added
  <2> QED
    BY <2>1, <2>2, StepMoves
       DEF DepositMoves, Quiet, Stored, Posted, Confirmed, ledger
<1> QED
  BY <1>3, StepLabels DEF BalanceInv

-----------------------------------------------------------------------------
LEMMA SpecInv == Spec => [](IInv /\ RowInv /\ ReplayInv /\ BalanceInv)
<1> DEFINE Inv == IInv /\ RowInv /\ ReplayInv /\ BalanceInv
<1>1. Init => Inv
  BY InitIInv, InitBalanceInv
<1>2. Inv /\ [Next]_vars => Inv'
  BY StepIInv, RowInvStep, ReplayInvStep, BalanceInvStep
<1> QED
  BY <1>1, <1>2, PTL DEF Spec

(* Types, and mutual exclusion in the event loop (loop is not a variable   *)
(* of the code: what Node guarantees between two awaits).                  *)
THEOREM SpecTypeOK == Spec => []TypeOK
<1>1. IInv => TypeOK
  BY DEF IInv
<1> QED
  BY <1>1, SpecInv, PTL

(* The balance covers what clients were told was created, and is backed by *)
(* the entries, and these by the deposits; for any number of requests and  *)
(* any amounts (ledger.ts:54-63).                                          *)
THEOREM SpecBalanceBracket == Spec => []BalanceBracket
<1>1. IInv /\ BalanceInv => BalanceBracket
  <2> SUFFICES ASSUME IInv, BalanceInv PROVE BalanceBracket
    OBVIOUS
  <2> DEFINE Created == {r \in Requests : told[r] = "created"}
  <2>1. /\ Created \subseteq credited
        /\ credited \subseteq entries
        /\ entries \subseteq deposits
        /\ deposits \subseteq Requests
    BY DEF BalanceInv, PastUpdate, IInv, TypeOK, DepositInv
  <2>2. Total(Created) <= Total(credited) /\ Total(credited) = balance
    BY <2>1, TotalFacts DEF BalanceInv
  <2>3. Total(credited) <= Total(entries)
    BY <2>1, TotalFacts
  <2>4. Total(entries) <= Total(deposits)
    BY <2>1, TotalFacts
  <2> QED
    BY <2>2, <2>3, <2>4 DEF BalanceBracket
<1> QED
  BY <1>1, SpecInv, PTL

(* Implementation: the row of a key is the deposit of that key.            *)
LEMMA RowOfKey ==
  ASSUME IInv, NEW k
  PROVE  /\ WithKey(k) # {} =>
              DepositOf(k) \in deposits /\ Key(DepositOf(k)) = k
         /\ \A d \in deposits :
              Key(d) = k => WithKey(k) # {} /\ DepositOf(k) = d
<1>1. \A d \in deposits : Key(d) = k =>
        DepositOf(k) \in deposits /\ Key(DepositOf(k)) = k
  BY DEF DepositOf
<1> QED
  BY <1>1 DEF WithKey, IInv, DepositInv

LEMMA InitLedger == Init => Books!Init
<1> SUFFICES ASSUME Init PROVE Books!Init
  OBVIOUS
<1>1. \A k : WithKey(k) = {}
  BY DEF Init, WithKey
<1>2. Total(entries) = 0
  BY SumEmpty DEF Init, Total
<1> QED
  BY <1>1, <1>2 DEF Init, Books!Init, StageOf, AmountOf

LEMMA StepLedger ==
  IInv /\ BalanceInv /\ [Next]_vars => [Books!Next]_(Books!ledgerVars)
<1> SUFFICES ASSUME IInv, BalanceInv, [Next]_vars
             PROVE  Books!Next \/ UNCHANGED Books!ledgerVars
  OBVIOUS
<1>1. UNCHANGED input
  BY RowsStay
<1>2. \A S : Total(S)' = Total(S)
  BY <1>1 DEF Total, Amount
<1>3. \A q : Key(q)' = Key(q) /\ Amount(q)' = Amount(q)
  BY <1>1 DEF Key, Amount
<1>4. ASSUME deposits' = deposits
      PROVE  \A k : /\ WithKey(k)' = WithKey(k)
                    /\ DepositOf(k)' = DepositOf(k)
                    /\ AmountOf(k)' = AmountOf(k)
  <2>1. \A k : WithKey(k)' = WithKey(k)
    BY <1>1, <1>4 DEF WithKey, Key
  <2>2. \A k : DepositOf(k)' = DepositOf(k)
    BY <1>1, <1>4 DEF DepositOf, Key
  <2>3. \A k : AmountOf(k)' = AmountOf(k)
    BY <1>1, <2>1, <2>2 DEF AmountOf, Amount
  <2> QED
    BY <2>1, <2>2, <2>3
<1>5. CASE Quiet
  <2>1. UNCHANGED <<deposits, balance, entries, credited>>
    BY <1>5 DEF Quiet, ledger
  <2>2. \A q \in Requests : Stage(q)' = Stage(q)
    BY <1>5, <2>1 DEF Quiet, Stage
  <2>3. \A k : StageOf(k)' = StageOf(k)
    BY <1>4, <2>1, <2>2, RowOfKey DEF StageOf, IInv, TypeOK
  <2>4. Total(entries)' = Total(entries)
    BY <1>2, <2>1
  <2> QED
    BY <1>4, <2>1, <2>3, <2>4 DEF Books!ledgerVars
<1>6. ASSUME NEW r \in Requests, Stored(r) PROVE Books!Create(Key(r))
  <2>0. PICK k \in Keys : k = Key(r)
    BY DashboardAssumption DEF Key, IInv, TypeOK, InputType
  <2>1. Amount(r) \in {i.amount : i \in Inputs}
    BY DEF Amount, IInv, TypeOK, InputType
  <2>2. /\ deposits' = deposits \cup {r} /\ r \notin deposits
        /\ told[r] = "none" /\ r \notin entries /\ r \notin credited
    BY <1>6 DEF Stored, WithKey, IInv, TypeOK, RouteInv, DepositInv,
                BalanceInv, Crediting, Final
  <2>3. StageOf(k) = "none" /\ AmountOf(k) = 0
    BY <1>6, <2>0 DEF Stored, StageOf, AmountOf
  <2>4. WithKey(k)' = {r}
    BY <1>6, <1>3, <2>0, <2>2 DEF Stored, WithKey
  <2>5. DepositOf(k)' = r
    BY <1>3, <2>0, <2>4 DEF WithKey, DepositOf
  <2>6. Stage(r)' = "stored"
    BY <1>6, <2>2 DEF Stored, Stage
  <2>7. StageOf(k)' = "stored" /\ AmountOf(k)' = Amount(r)
    BY <1>3, <2>4, <2>5, <2>6 DEF StageOf, AmountOf
  <2>8. ASSUME NEW l \in Keys \ {k}
        PROVE  StageOf(l)' = StageOf(l) /\ AmountOf(l)' = AmountOf(l)
    <3>1. WithKey(l)' = WithKey(l)
      BY <1>3, <2>0, <2>2, <2>8 DEF WithKey
    <3>2. CASE WithKey(l) = {}
      BY <3>1, <3>2 DEF StageOf, AmountOf
    <3>3. CASE WithKey(l) # {}
      <4>1. PICK d \in deposits : Key(d) = l
        BY <3>3 DEF WithKey
      <4>2. DepositOf(l) = d
        BY <4>1, RowOfKey
      <4>3. DepositOf(l)' = d
        BY <1>3, <2>0, <2>2, <2>8, <4>1 DEF DepositOf, IInv, DepositInv
      <4>4. Stage(d)' = Stage(d)
        BY <1>6 DEF Stored, Stage
      <4> QED
        BY <1>3, <3>1, <3>3, <4>2, <4>3, <4>4 DEF StageOf, AmountOf
    <3> QED
      BY <3>2, <3>3
  <2>9. UNCHANGED <<balance, entries>> /\ Total(entries)' = Total(entries)
    BY <1>2, <1>6 DEF Stored
  <2>10. [l \in Keys |-> StageOf(l)]' =
           [[l \in Keys |-> StageOf(l)] EXCEPT ![k] = "stored"]
    BY <2>7, <2>8
  <2>11. [l \in Keys |-> AmountOf(l)]' =
           [[l \in Keys |-> AmountOf(l)] EXCEPT ![k] = Amount(r)]
    BY <2>7, <2>8
  <2>12. [l \in Keys |-> StageOf(l)][k] = "none"
    BY <2>3
  <2>13. Books!Advance(k, "none", "stored")
    BY <2>10, <2>12 DEF Books!Advance
  <2> QED
    BY <2>0, <2>1, <2>9, <2>11, <2>13 DEF Books!Create
(* The three steps of a deposit that is in its table.                      *)
<1>7. ASSUME NEW r \in deposits, deposits' = deposits,
             \A q \in deposits \ {r} : Stage(q)' = Stage(q),
             NEW from, Stage(r) = from, NEW to, Stage(r)' = to,
             NEW k \in Keys, k = Key(r)
      PROVE  /\ Books!Advance(k, from, to)
             /\ [l \in Keys |-> AmountOf(l)]' = [l \in Keys |-> AmountOf(l)]
             /\ [l \in Keys |-> AmountOf(l)][k] = Amount(r)
  <2>1. DepositOf(k) = r /\ WithKey(k) # {}
    BY <1>7, RowOfKey
  <2>2. DepositOf(k)' = r /\ WithKey(k)' # {}
    BY <1>4, <1>7, <2>1
  <2>3. StageOf(k) = from /\ StageOf(k)' = to
    BY <1>7, <2>1, <2>2 DEF StageOf
  <2>4. ASSUME NEW l \in Keys \ {k} PROVE StageOf(l)' = StageOf(l)
    <3>1. CASE WithKey(l) = {}
      BY <1>4, <1>7, <3>1 DEF StageOf
    <3>2. CASE WithKey(l) # {}
      <4>1. DepositOf(l) \in deposits \ {r}
        BY <1>7, <2>4, <3>2, RowOfKey
      <4>2. PICK d \in deposits \ {r} : d = DepositOf(l)
        BY <4>1
      <4>3. d = DepositOf(l)' /\ WithKey(l)' # {}
        BY <1>4, <1>7, <3>2, <4>2
      <4>4. Stage(d)' = Stage(d)
        BY <1>7, <4>2
      <4> QED
        BY <3>2, <4>2, <4>3, <4>4 DEF StageOf
    <3> QED
      BY <3>1, <3>2
  <2>5. [l \in Keys |-> StageOf(l)]' =
          [[l \in Keys |-> StageOf(l)] EXCEPT ![k] = to]
    BY <2>3, <2>4
  <2>6. Books!Advance(k, from, to)
    BY <2>3, <2>5 DEF Books!Advance
  <2>7. \A l \in Keys : AmountOf(l)' = AmountOf(l)
    BY <1>4, <1>7
  <2>8. AmountOf(k) = Amount(r)
    BY <2>1 DEF AmountOf
  <2> QED
    BY <2>6, <2>7, <2>8
<1>8. \A r \in Requests : Key(r) \in Keys
  BY DashboardAssumption DEF Key, IInv, TypeOK, InputType
<1>9. ASSUME NEW r \in Requests, Posted(r) PROVE Books!Post(Key(r))
  <2>1. /\ r \in deposits /\ r \notin entries /\ r \notin credited
        /\ told[r] = "none" /\ entries \subseteq Requests
    BY <1>9 DEF Posted, IInv, TypeOK, RouteInv, DepositInv, BalanceInv,
                Crediting
  <2>2. Stage(r) = "stored" /\ Stage(r)' = "posted"
    BY <1>9, <2>1 DEF Posted, Stage
  <2>3. \A q \in deposits \ {r} : Stage(q)' = Stage(q)
    BY <1>9 DEF Posted, Stage
  <2>4. Total(entries)' = Total(entries) + Amount(r)
    BY <1>2, <1>9, <2>1, TotalFacts DEF Posted
  <2>5. PICK k \in Keys : k = Key(r)
    BY <1>8
  <2>6. /\ Books!Advance(k, "stored", "posted")
        /\ [l \in Keys |-> AmountOf(l)]' = [l \in Keys |-> AmountOf(l)]
        /\ [l \in Keys |-> AmountOf(l)][k] = Amount(r)
    BY <1>7, <1>9, <2>1, <2>2, <2>3, <2>5 DEF Posted
  <2> QED
    BY <1>9, <2>4, <2>5, <2>6 DEF Posted, Books!Post
<1>10. ASSUME NEW r \in Requests, Added(r) PROVE Books!Credit(Key(r))
  <2>1. /\ r \in deposits /\ r \in entries /\ r \notin credited
        /\ told[r] = "none"
    BY <1>10 DEF Added, IInv, TypeOK, RouteInv, DepositInv, BalanceInv, Final
  <2>2. Stage(r) = "posted" /\ Stage(r)' = "credited"
    BY <1>10, <2>1 DEF Added, Stage
  <2>3. \A q \in deposits \ {r} : Stage(q)' = Stage(q)
    BY <1>10 DEF Added, Stage
  <2>4. Total(entries)' = Total(entries)
    BY <1>2, <1>10 DEF Added
  <2>5. PICK k \in Keys : k = Key(r)
    BY <1>8
  <2>6. /\ Books!Advance(k, "posted", "credited")
        /\ [l \in Keys |-> AmountOf(l)]' = [l \in Keys |-> AmountOf(l)]
        /\ [l \in Keys |-> AmountOf(l)][k] = Amount(r)
    BY <1>7, <1>10, <2>1, <2>2, <2>3, <2>5 DEF Added
  <2> QED
    BY <1>10, <2>4, <2>5, <2>6 DEF Added, Books!Credit
<1>11. ASSUME NEW r \in Requests, Confirmed(r) PROVE Books!Confirm(Key(r))
  <2>1. /\ r \in deposits /\ r \in credited /\ told[r] # "created"
        /\ told' = [told EXCEPT ![r] = "created"]
        /\ told \in [Requests -> Answers]
        /\ UNCHANGED <<deposits, balance, entries, credited>>
    BY <1>11 DEF Confirmed, ledger, IInv, TypeOK, RouteInv, DepositInv,
                 BalanceInv, PastUpdate
  <2>2. Stage(r) = "credited" /\ Stage(r)' = "confirmed"
    BY <2>1 DEF Stage, IInv, TypeOK
  <2>3. \A q \in deposits \ {r} : Stage(q)' = Stage(q)
    BY <2>1 DEF Stage, IInv, TypeOK
  <2>4. Total(entries)' = Total(entries)
    BY <1>2, <2>1
  <2>5. PICK k \in Keys : k = Key(r)
    BY <1>8
  <2>6. /\ Books!Advance(k, "credited", "confirmed")
        /\ [l \in Keys |-> AmountOf(l)]' = [l \in Keys |-> AmountOf(l)]
        /\ [l \in Keys |-> AmountOf(l)][k] = Amount(r)
    BY <1>7, <2>1, <2>2, <2>3, <2>5
  <2> QED
    BY <1>11, <2>1, <2>4, <2>5, <2>6 DEF Books!Confirm
<1> QED
  BY <1>5, <1>6, <1>8, <1>9, <1>10, <1>11, StepMoves
     DEF DepositMoves, Books!Next

(* A deposit goes its way once: with the amount it was first sent with,    *)
(* from its row to its entry, the balance and the client; whatever other   *)
(* requests, errors and restarts come between (deposits/route.ts:60).      *)
THEOREM SpecImplementsDepositLedger == Spec => ImplementsDepositLedger
BY InitLedger, StepLedger, SpecInv, PTL
   DEF Spec, ImplementsDepositLedger, Books!Spec

(* A retry of an answered request finds the row of its first answer        *)
(* (operations.ts:75-85, 158-181).                                         *)
THEOREM SpecReplayIsIdempotent == Spec => []ReplayIsIdempotent
<1>1. IInv /\ ReplayInv => ReplayIsIdempotent
  BY DEF ReplayInv, ReplayIsIdempotent, Again, IInv, TypeOK
<1> QED
  BY <1>1, SpecInv, PTL

(* Never two cards: check and insert share a run of the event loop         *)
(* (operations.ts:183-199).                                                *)
THEOREM SpecOneActiveCard == Spec => []OneActiveCard
<1>1. IInv => OneActiveCard
  BY DEF IInv, CardInv, OneActiveCard
<1> QED
  BY <1>1, SpecInv, PTL

(* Never two fresh deliveries of an event (webhooks.ts:26-41).             *)
THEOREM SpecFreshOnce == Spec => []FreshOnce
<1>1. IInv => FreshOnce
  <2> SUFFICES ASSUME IInv, NEW q \in Requests, NEW r \in Requests,
                      told[q] = "fresh", told[r] = "fresh", Key(q) = Key(r)
               PROVE  q = r
    BY DEF FreshOnce
  <2>1. PICK x \in events, y \in events : EventOf(q, x) /\ EventOf(r, y)
    BY DEF IInv, EventInv
  <2> QED
    BY <2>1 DEF IInv, EventInv, EventOf
<1> QED
  BY <1>1, SpecInv, PTL

-----------------------------------------------------------------------------
(* The email worker of the same process: Outbox.                           *)

(* An email of the table, and the minutes since it was last tried: its     *)
(* wait means something only while it is pending, and what is left of a    *)
(* backoff and those minutes make up at least the whole backoff.           *)
Orderly(row, minutes) ==
  /\ row \in RowType /\ minutes \in Nat
  /\ row.status = "pending" => row.attempts < MAX_ATTEMPTS
  /\ row.status = "failed" => row.attempts = MAX_ATTEMPTS
  /\ row.status # "pending" => row.wait = 0
  /\ row.status = "pending" /\ row.attempts > 0
       => row.wait + minutes >= computeBackoffMinutes(row.attempts)

TableInv ==
  /\ outbox \in Seq(RowType) /\ quiet \in Seq(Nat)
  /\ Len(quiet) = Len(outbox)
  /\ \A i \in DOMAIN outbox : Orderly(outbox[i], quiet[i])

(* In the life of a process a key has had a run only if the Map knows it.  *)
MapInv ==
  /\ cronIdempotency \in [RunKeys -> ReportType \cup {NoReport}]
  /\ restarts \in 0..MaxRestarts
  /\ runs \in [RunKeys \cup {NoKey} -> Nat]
  /\ \A k \in RunKeys :
       runs[k] <= restarts + (IF cronIdempotency[k] = NoReport THEN 0 ELSE 1)

OutboxInv == TableInv /\ MapInv

-----------------------------------------------------------------------------
LEMMA OutboxConstants ==
  /\ Batch \in Nat /\ MAX_ATTEMPTS \in Nat /\ TickLength \in Nat
  /\ MAX_ATTEMPTS > 0 /\ TickLength > 0
  /\ MaxQuiet \in Nat /\ MaxEmails \in Nat /\ MaxRestarts \in Nat
  /\ NoKey \notin RunKeys
  /\ NoReport \notin ReportType
BY OutboxAssumption DEF ReportType

(* A power of two counts the subsets of a set.                             *)
LEMMA PowerNat == ASSUME NEW n \in Nat PROVE 2 ^ n \in Nat
<1>1. IsFiniteSet(1..n) /\ Cardinality(1..n) = n
  BY FS_Interval
<1>2. /\ IsFiniteSet(SUBSET (1..n))
      /\ Cardinality(SUBSET (1..n)) = 2 ^ Cardinality(1..n)
  BY <1>1, FS_SUBSET
<1>3. Cardinality(SUBSET (1..n)) \in Nat
  BY <1>2, FS_CardinalityType
<1> QED
  BY <1>1, <1>2, <1>3

LEMMA BackoffRange ==
  ASSUME NEW n \in Nat PROVE computeBackoffMinutes(n) \in 0..60
<1> DEFINE m == IF n = 0 THEN 1 ELSE n
<1>1. 2 ^ m \in Nat
  BY PowerNat
<1> HIDE DEF m
<1>2. Lesser(60, 2 ^ m) \in 0..60
  BY <1>1 DEF Lesser
<1> QED
  BY <1>2 DEF computeBackoffMinutes, m

(* A sequence changed element by element.                                  *)
LEMMA MappedSeq ==
  ASSUME NEW T, NEW s \in Seq(T), NEW t \in [DOMAIN s -> T]
  PROVE  t \in Seq(T) /\ Len(t) = Len(s)
<1>1. Len(s) \in Nat /\ DOMAIN s = 1..Len(s)
  BY LenProperties
<1>2. t \in [1..Len(s) -> T]
  BY <1>1
<1>3. t \in Seq(T)
  BY <1>1, <1>2, SeqDef
<1>4. Len(t) \in Nat /\ 1..Len(t) = 1..Len(s)
  BY <1>1, <1>2, <1>3, LenProperties
<1>5. Len(t) = Len(s)
  BY <1>1, <1>4
<1> QED
  BY <1>3, <1>5

(* The rows, one by one.                                                   *)
LEMMA OutboxRows ==
  ASSUME OutboxTypeOK
  PROVE  /\ Len(outbox) \in Nat
         /\ DOMAIN outbox = 1..Len(outbox)
         /\ DOMAIN quiet = DOMAIN outbox
         /\ IsFiniteSet(DOMAIN outbox)
         /\ \A i \in DOMAIN outbox : outbox[i] \in RowType /\ quiet[i] \in Nat
<1>1. outbox \in Seq(RowType) /\ quiet \in Seq(Nat) /\ Len(quiet) = Len(outbox)
  BY DEF OutboxTypeOK
<1>2. Len(outbox) \in Nat /\ DOMAIN outbox = 1..Len(outbox)
  BY <1>1, LenProperties
<1>3. DOMAIN quiet = DOMAIN outbox
  BY <1>1, <1>2, LenProperties
<1>4. IsFiniteSet(1..Len(outbox))
  BY <1>2, FS_Interval
<1>5. \A i \in DOMAIN outbox : outbox[i] \in RowType /\ quiet[i] \in Nat
  BY <1>1, <1>2, <1>3, ElementOfSeq
<1> QED
  BY <1>2, <1>3, <1>4, <1>5

Marked(row, status, wait) ==
  [row EXCEPT !.status = status, !.attempts = @ + 1, !.wait = wait]

LEMMA MarkedTyped ==
  ASSUME NEW row \in RowType, row.attempts + 1 \in 0..MAX_ATTEMPTS,
         NEW status \in Statuses, NEW wait \in 0..60
  PROVE  /\ Marked(row, status, wait) \in RowType
         /\ Marked(row, status, wait).status = status
         /\ Marked(row, status, wait).attempts = row.attempts + 1
         /\ Marked(row, status, wait).wait = wait
<1> DEFINE m == row.attempts + 1
<1>1. Marked(row, status, wait) =
        [row EXCEPT !.status = status, !.attempts = m, !.wait = wait]
  BY DEF Marked, RowType
<1> HIDE DEF m
<1>2. [row EXCEPT !.status = status, !.attempts = m, !.wait = wait] \in RowType
  BY DEF m, RowType
<1> QED
  BY <1>1, <1>2 DEF m, Marked, RowType

LEMMA MarkedRows ==
  ASSUME NEW row \in RowType, row.attempts + 1 \in 0..MAX_ATTEMPTS
  PROVE  /\ markSent(row) \in RowType
         /\ markSent(row).status = "sent"
         /\ markSent(row).attempts = row.attempts + 1
         /\ markSent(row).wait = 0
         /\ markFailed(row) \in RowType
         /\ markFailed(row).status = "failed"
         /\ markFailed(row).attempts = row.attempts + 1
         /\ markFailed(row).wait = 0
         /\ markRetry(row) \in RowType
         /\ markRetry(row).status = row.status
         /\ markRetry(row).attempts = row.attempts + 1
         /\ markRetry(row).wait = computeBackoffMinutes(row.attempts + 1)
<1> DEFINE b == computeBackoffMinutes(row.attempts + 1)
<1>1. b \in 0..60 /\ {"sent", "failed", row.status} \subseteq Statuses /\ 0 \in 0..60
  BY OutboxConstants, BackoffRange DEF RowType, Statuses
<1>2. /\ markSent(row) = Marked(row, "sent", 0)
      /\ markFailed(row) = Marked(row, "failed", 0)
      /\ markRetry(row) = Marked(row, row.status, b)
  BY DEF markSent, markFailed, markRetry, Marked, RowType
<1> HIDE DEF b
<1> QED
  BY <1>1, <1>2, MarkedTyped DEF b

(* What becomes of a job.                                                  *)
AttemptOf(old, new) ==
  /\ new \in RowType
  /\ new.attempts = old.attempts + 1
  /\ new.status = "pending" =>
       /\ new.attempts < MAX_ATTEMPTS
       /\ new.wait = computeBackoffMinutes(new.attempts)
  /\ new.status = "failed" => new.attempts = MAX_ATTEMPTS
  /\ new.status # "pending" => new.wait = 0

LEMMA AttemptFacts ==
  ASSUME OutboxTypeOK, NEW broken, NEW i \in DOMAIN outbox,
         outbox[i].status = "pending"
  PROVE  AttemptOf(outbox[i], Attempted(i, broken))
<1>1. PICK row \in RowType :
        /\ row = outbox[i] /\ row.status = "pending"
        /\ row.attempts \in Nat /\ row.attempts + 1 \in 0..MAX_ATTEMPTS
  BY OutboxRows, OutboxConstants DEF OutboxTypeOK, RowType
<1>2. PICK tried : /\ tried = Attempted(i, broken)
                   /\ \/ tried = markSent(row)
                      \/ /\ tried = markFailed(row)
                         /\ row.attempts + 1 >= MAX_ATTEMPTS
                      \/ /\ tried = markRetry(row)
                         /\ ~(row.attempts + 1 >= MAX_ATTEMPTS)
  BY <1>1 DEF Attempted
<1> SUFFICES AttemptOf(row, tried)
  BY <1>1, <1>2
<1>3. CASE tried = markSent(row)
  BY <1>1, <1>3, MarkedRows DEF AttemptOf
<1>4. CASE tried = markFailed(row) /\ row.attempts + 1 >= MAX_ATTEMPTS
  <2>1. row.attempts + 1 = MAX_ATTEMPTS
    BY <1>1, <1>4, OutboxConstants
  <2> QED
    BY <1>1, <1>4, <2>1, MarkedRows DEF AttemptOf
<1>5. CASE tried = markRetry(row) /\ ~(row.attempts + 1 >= MAX_ATTEMPTS)
  <2>1. row.attempts + 1 < MAX_ATTEMPTS
    BY <1>1, <1>5, OutboxConstants
  <2> QED
    BY <1>1, <1>5, <2>1, MarkedRows DEF AttemptOf
<1> QED
  BY <1>2, <1>3, <1>4, <1>5

LEMMA JobsDue == Jobs \subseteq Due /\ Due \subseteq DOMAIN outbox
BY DEF Jobs, Due

(* The batch is the beginning of the emails that are due.                  *)
LEMMA JobsFirst ==
  ASSUME OutboxTypeOK, NEW i \in Jobs, NEW j \in Due, j < i
  PROVE  j \in Jobs
<1> DEFINE Before(n) == {m \in Due : m < n}
<1>1. \A n : IsFiniteSet(Before(n)) /\ Cardinality(Before(n)) \in Nat
  BY OutboxRows, JobsDue, FS_Subset, FS_CardinalityType
<1>2. Before(j) \subseteq Before(i)
  BY OutboxRows, JobsDue
<1>3. Cardinality(Before(j)) <= Cardinality(Before(i))
  BY <1>1, <1>2, FS_Subset
<1>4. Cardinality(Before(i)) < Batch
  BY DEF Jobs
<1>5. Cardinality(Before(j)) < Batch
  BY <1>1, <1>3, <1>4, OutboxConstants
<1> QED
  BY <1>5 DEF Jobs

LEMMA ReportTyped ==
  ASSUME OutboxTypeOK, NEW broken PROVE Report(broken) \in ReportType
<1>1. IsFiniteSet(Jobs)
  BY OutboxRows, JobsDue, FS_Subset
<1>2. Cardinality(Jobs) \in Nat
  BY <1>1, FS_CardinalityType
<1>3. ASSUME NEW status PROVE Ended(broken, status) \in Nat
  <2>1. IsFiniteSet({i \in Jobs : Attempted(i, broken).status = status})
    BY <1>1, FS_Subset
  <2> QED
    BY <2>1, FS_CardinalityType DEF Ended
<1> QED
  BY <1>2, <1>3 DEF Report, ReportType

-----------------------------------------------------------------------------
LEMMA OutboxInvFacts == OutboxInv => OutboxTypeOK
BY DEF OutboxInv, TableInv, MapInv, Orderly, OutboxTypeOK

LEMMA InitOutboxInv == OutboxInit => OutboxInv
<1> SUFFICES ASSUME OutboxInit PROVE OutboxInv
  OBVIOUS
<1>1. TableInv
  BY EmptySeq DEF OutboxInit, TableInv
<1>2. MapInv
  BY OutboxConstants DEF OutboxInit, NoReports, MapInv
<1> QED
  BY <1>1, <1>2 DEF OutboxInv

(* The table after each kind of step.                                      *)
LEMMA EnqueueTable ==
  ASSUME OutboxInv, NEW recipient \in Recipients, Enqueue(recipient)
  PROVE  TableInv'
<1> DEFINE row == [recipient |-> recipient, status |-> "pending",
                   attempts |-> 0, wait |-> 0]
<1>1. Orderly(row, 0)
  BY OutboxConstants DEF Orderly, RowType, Statuses
<1>2. outbox' = Append(outbox, row) /\ quiet' = Append(quiet, 0)
  BY DEF Enqueue
<1>3. row \in RowType
  BY <1>1 DEF Orderly
<1> HIDE DEF row
<1>4. outbox \in Seq(RowType) /\ quiet \in Seq(Nat) /\ Len(quiet) = Len(outbox)
  BY DEF OutboxInv, TableInv
<1>5. /\ outbox' \in Seq(RowType) /\ quiet' \in Seq(Nat)
      /\ Len(outbox') = Len(outbox) + 1 /\ Len(quiet') = Len(quiet) + 1
      /\ \A i \in 1..Len(outbox) : outbox'[i] = outbox[i] /\ quiet'[i] = quiet[i]
      /\ outbox'[Len(outbox) + 1] = row /\ quiet'[Len(outbox) + 1] = 0
  BY <1>2, <1>3, <1>4, AppendProperties
<1>6. Len(outbox) \in Nat /\ DOMAIN outbox = 1..Len(outbox)
  BY <1>4, LenProperties
<1>7. DOMAIN outbox' = 1..Len(outbox')
  BY <1>5, LenProperties
<1>8. ASSUME NEW i \in DOMAIN outbox' PROVE Orderly(outbox'[i], quiet'[i])
  <2>1. i \in DOMAIN outbox \/ i = Len(outbox) + 1
    BY <1>5, <1>6, <1>7
  <2> QED
    BY <1>1, <1>5, <1>6, <2>1 DEF OutboxInv, TableInv
<1>9. Len(quiet') = Len(outbox')
  BY <1>4, <1>5
<1> QED
  BY <1>5, <1>8, <1>9 DEF TableInv

(* A table changed row by row is in order if each row is.                  *)
LEMMA RowByRow ==
  ASSUME OutboxInv,
         outbox' = [i \in DOMAIN outbox |-> outbox'[i]],
         quiet' = [i \in DOMAIN quiet |-> quiet'[i]],
         \A i \in DOMAIN outbox : Orderly(outbox'[i], quiet'[i])
  PROVE  TableInv'
<1>1. /\ outbox \in Seq(RowType) /\ quiet \in Seq(Nat)
      /\ Len(quiet) = Len(outbox) /\ DOMAIN quiet = DOMAIN outbox
  BY OutboxInvFacts, OutboxRows DEF OutboxInv, TableInv
<1>2. outbox' \in [DOMAIN outbox -> RowType] /\ quiet' \in [DOMAIN quiet -> Nat]
  BY <1>1 DEF Orderly
<1>3. outbox' \in Seq(RowType) /\ Len(outbox') = Len(outbox)
  <2>1. \A s \in Seq(RowType) : \A t \in [DOMAIN s -> RowType] :
          t \in Seq(RowType) /\ Len(t) = Len(s)
    BY MappedSeq
  <2> QED
    BY ONLY <1>1, <1>2, <2>1
<1>4. quiet' \in Seq(Nat) /\ Len(quiet') = Len(quiet)
  <2>1. \A s \in Seq(Nat) : \A t \in [DOMAIN s -> Nat] :
          t \in Seq(Nat) /\ Len(t) = Len(s)
    BY MappedSeq
  <2> QED
    BY ONLY <1>1, <1>2, <2>1
<1>5. DOMAIN outbox' = DOMAIN outbox
  OBVIOUS
<1>6. \A i \in DOMAIN outbox' : Orderly(outbox'[i], quiet'[i])
  BY <1>5
<1> QED
  BY <1>1, <1>3, <1>4, <1>6 DEF TableInv

LEMMA TickTable ==
  ASSUME OutboxInv, Tick
  PROVE  TableInv'
<1> DEFINE rowOf(i) ==
             [outbox[i] EXCEPT !.wait =
                IF @ <= TickLength THEN 0 ELSE @ - TickLength]
           minutesOf(i) ==
             IF outbox[i].attempts = 0 \/ outbox[i].status # "pending"
             THEN 0 ELSE Lesser(MaxQuiet, quiet[i] + TickLength)
<1>1. ASSUME NEW i \in DOMAIN outbox PROVE Orderly(rowOf(i), minutesOf(i))
  <2>1. PICK row, minutes : row = outbox[i] /\ minutes = quiet[i]
    OBVIOUS
  <2> DEFINE left == IF row.wait <= TickLength THEN 0 ELSE row.wait - TickLength
             new  == [row EXCEPT !.wait = left]
             since == IF row.attempts = 0 \/ row.status # "pending"
                      THEN 0 ELSE Lesser(MaxQuiet, minutes + TickLength)
  <2>2. Orderly(row, minutes)
    BY <2>1 DEF OutboxInv, TableInv
  <2>3. /\ row \in RowType /\ row.wait \in 0..60
        /\ row.attempts \in 0..MAX_ATTEMPTS /\ minutes \in Nat
    BY <2>2 DEF Orderly, RowType
  <2>4. left \in 0..60 /\ left + TickLength >= row.wait
    BY <2>3, OutboxConstants
  <2>5. row.status # "pending" => left = 0
    BY <2>2, OutboxConstants DEF Orderly
  <2>6. since \in Nat
    BY <2>3, OutboxConstants DEF Lesser
  <2>7. ASSUME row.status = "pending", row.attempts > 0
        PROVE  left + since >= computeBackoffMinutes(row.attempts)
    <3>1. row.attempts \in 1..(MAX_ATTEMPTS - 1)
      BY <2>2, <2>3, <2>7, OutboxConstants DEF Orderly
    <3>2. /\ computeBackoffMinutes(row.attempts) <= MaxQuiet
          /\ computeBackoffMinutes(row.attempts) \in Nat
      BY <3>1, QuietAssumption, BackoffRange, OutboxConstants
    <3>3. row.wait + minutes >= computeBackoffMinutes(row.attempts)
      BY <2>2, <2>7 DEF Orderly
    <3>4. since = Lesser(MaxQuiet, minutes + TickLength)
      BY <2>7, <3>1, OutboxConstants
    <3> HIDE DEF left, since
    <3> QED
      BY <2>3, <2>4, <3>2, <3>3, <3>4, OutboxConstants DEF Lesser
  <2> HIDE DEF left, since
  <2>8. /\ new \in RowType /\ new.wait = left
        /\ new.status = row.status /\ new.attempts = row.attempts
    BY <2>3, <2>4 DEF RowType
  <2>9. Orderly(new, since)
    <3> HIDE DEF new
    <3> QED
      BY <2>2, <2>5, <2>6, <2>7, <2>8 DEF Orderly
  <2>10. rowOf(i) = new /\ minutesOf(i) = since
    BY <2>1, <2>3 DEF left, since, RowType
  <2> QED
    BY <2>9, <2>10
<1>2. /\ outbox' = [i \in DOMAIN outbox |-> rowOf(i)]
      /\ quiet' = [i \in DOMAIN quiet |-> minutesOf(i)]
  BY DEF Tick
<1> HIDE DEF rowOf, minutesOf
<1>3. DOMAIN quiet = DOMAIN outbox
  BY OutboxInvFacts, OutboxRows
<1>4. /\ outbox' = [i \in DOMAIN outbox |-> outbox'[i]]
      /\ quiet' = [i \in DOMAIN quiet |-> quiet'[i]]
      /\ \A i \in DOMAIN outbox : Orderly(outbox'[i], quiet'[i])
  BY <1>1, <1>2, <1>3
<1> QED
  BY <1>4, RowByRow

LEMMA CommitTable ==
  ASSUME OutboxInv, NEW k, NEW broken, Commit(k, broken)
  PROVE  TableInv'
<1> DEFINE rowOf(i) == IF i \in Jobs THEN Attempted(i, broken) ELSE outbox[i]
           minutesOf(i) == IF i \in Jobs THEN 0 ELSE quiet[i]
<1>1. ASSUME NEW i \in DOMAIN outbox PROVE Orderly(rowOf(i), minutesOf(i))
  <2>1. CASE i \in Jobs
    <3>1. outbox[i].status = "pending"
      BY <2>1, JobsDue DEF Due
    <3>2. PICK old \in RowType, new \in RowType :
            /\ old = outbox[i] /\ new = Attempted(i, broken)
            /\ AttemptOf(old, new)
      BY <3>1, AttemptFacts, OutboxInvFacts, OutboxRows DEF AttemptOf
    <3>3. old.attempts \in 0..MAX_ATTEMPTS
      BY <3>2 DEF RowType
    <3>4. new.attempts \in Nat
      BY <3>2, <3>3, OutboxConstants DEF AttemptOf
    <3>5. computeBackoffMinutes(new.attempts) \in Nat
      BY <3>4, BackoffRange
    <3>6. Orderly(new, 0)
      BY <3>2, <3>5 DEF AttemptOf, Orderly
    <3> QED
      BY <2>1, <3>2, <3>6
  <2>2. CASE i \notin Jobs
    BY <2>2 DEF OutboxInv, TableInv
  <2> QED
    BY <2>1, <2>2
<1>2. /\ outbox' = [i \in DOMAIN outbox |-> rowOf(i)]
      /\ quiet' = [i \in DOMAIN quiet |-> minutesOf(i)]
  BY DEF Commit, Transacted
<1> HIDE DEF rowOf, minutesOf
<1>3. DOMAIN quiet = DOMAIN outbox
  BY OutboxInvFacts, OutboxRows
<1>4. /\ outbox' = [i \in DOMAIN outbox |-> outbox'[i]]
      /\ quiet' = [i \in DOMAIN quiet |-> quiet'[i]]
      /\ \A i \in DOMAIN outbox : Orderly(outbox'[i], quiet'[i])
  BY <1>1, <1>2, <1>3
<1> QED
  BY <1>4, RowByRow

LEMMA TableStep == OutboxInv /\ [OutboxNext]_outboxVars => TableInv'
<1> SUFFICES ASSUME OutboxInv, [OutboxNext]_outboxVars PROVE TableInv'
  OBVIOUS
<1>1. ASSUME NEW recipient \in Recipients, Enqueue(recipient) PROVE TableInv'
  BY <1>1, EnqueueTable
<1>2. CASE Tick
  BY <1>2, TickTable
<1>3. ASSUME NEW k \in RunKeys \cup {NoKey}, Work(k) \/ WorkAndDie(k)
      PROVE  TableInv'
  BY <1>3, CommitTable DEF Work, WorkAndDie
<1>4. CASE Restart
  BY <1>4 DEF Restart, OutboxInv, TableInv
<1>5. CASE UNCHANGED outboxVars
  BY <1>5 DEF outboxVars, OutboxInv, TableInv
<1> QED
  BY <1>1, <1>2, <1>3, <1>4, <1>5 DEF OutboxNext

LEMMA MapStep == OutboxInv /\ [OutboxNext]_outboxVars => MapInv'
<1> SUFFICES ASSUME OutboxInv, [OutboxNext]_outboxVars PROVE MapInv'
  OBVIOUS
<1> USE OutboxConstants DEF OutboxInv, MapInv
<1>1. CASE UNCHANGED <<cronIdempotency, restarts, runs>>
  BY <1>1
<1>2. ASSUME NEW k \in RunKeys \cup {NoKey}, NEW broken, Fresh(k),
             Commit(k, broken), Remember(k, broken), UNCHANGED restarts
      PROVE  MapInv'
  <2>1. Report(broken) \in ReportType
    BY OutboxInvFacts, ReportTyped
  <2>2. Report(broken) # NoReport
    BY <2>1
  <2>3. runs' = [runs EXCEPT ![k] = IF k = NoKey THEN 0 ELSE @ + 1]
    BY <1>2 DEF Commit
  <2>4. runs' \in [RunKeys \cup {NoKey} -> Nat]
    BY <2>3
  <2>5. CASE k = NoKey
    <3>1. cronIdempotency' = cronIdempotency /\ \A j \in RunKeys : runs'[j] = runs[j]
      BY <1>2, <2>3, <2>5 DEF Remember
    <3> QED
      BY <1>2, <2>4, <3>1
  <2>6. CASE k \in RunKeys
    <3>1. cronIdempotency' = [cronIdempotency EXCEPT ![k] = Report(broken)]
      BY <1>2, <2>6 DEF Remember
    <3>2. cronIdempotency' \in [RunKeys -> ReportType \cup {NoReport}]
      BY <2>1, <3>1
    <3>3. runs[k] <= restarts /\ runs[k] \in Nat
      BY <1>2, <2>6 DEF Fresh
    <3>4. runs'[k] = runs[k] + 1 /\ cronIdempotency'[k] # NoReport
      BY <2>2, <2>3, <2>6, <3>1
    <3>5. \A j \in RunKeys \ {k} :
            runs'[j] = runs[j] /\ cronIdempotency'[j] = cronIdempotency[j]
      BY <2>3, <3>1
    <3> QED
      BY <1>2, <2>4, <3>2, <3>3, <3>4, <3>5
  <2> QED
    BY <2>5, <2>6
<1>3. ASSUME NEW k \in RunKeys \cup {NoKey}, NEW broken, Fresh(k),
             Commit(k, broken), restarts < MaxRestarts,
             cronIdempotency' = NoReports, restarts' = restarts + 1
      PROVE  MapInv'
  <2>1. runs' = [runs EXCEPT ![k] = IF k = NoKey THEN 0 ELSE @ + 1]
    BY <1>3 DEF Commit
  <2>2. runs' \in [RunKeys \cup {NoKey} -> Nat]
    BY <2>1
  <2>3. /\ cronIdempotency' \in [RunKeys -> ReportType \cup {NoReport}]
        /\ \A j \in RunKeys : cronIdempotency'[j] = NoReport
    BY <1>3 DEF NoReports
  <2>4. restarts' \in 0..MaxRestarts
    BY <1>3
  <2>5. ASSUME NEW j \in RunKeys PROVE runs'[j] <= restarts'
    <3>1. CASE j = k
      BY <1>3, <2>1, <3>1 DEF Fresh
    <3>2. CASE j # k
      BY <1>3, <2>1, <3>2
    <3> QED
      BY <3>1, <3>2
  <2> QED
    BY <2>2, <2>3, <2>4, <2>5
<1>4. CASE Restart
  <2>1. /\ cronIdempotency' \in [RunKeys -> ReportType \cup {NoReport}]
        /\ \A j \in RunKeys : cronIdempotency'[j] = NoReport
    BY <1>4 DEF Restart, NoReports
  <2> QED
    BY <1>4, <2>1 DEF Restart
<1> QED
  BY <1>1, <1>2, <1>3, <1>4
  DEF OutboxNext, Enqueue, Tick, Work, WorkAndDie, outboxVars

LEMMA SpecOutboxInv == OutboxSpec => []OutboxInv
<1>1. OutboxInv /\ [OutboxNext]_outboxVars => OutboxInv'
  BY TableStep, MapStep DEF OutboxInv
<1> QED
  BY <1>1, InitOutboxInv, PTL DEF OutboxSpec

-----------------------------------------------------------------------------
(* The outbox never leaves its types, and an email is pending exactly as   *)
(* long as attempts are left to it, unless it was sent (schema.ts:61-72).  *)
THEOREM SpecOutboxTypeOK == OutboxSpec => []OutboxTypeOK
BY SpecOutboxInv, OutboxInvFacts, PTL

(* However often a call is repeated, and between whatever restarts: a key  *)
(* stands for one run at most in the life of a process (route.ts:31-35).   *)
THEOREM SpecKeyRunsOnce == OutboxSpec => []KeyRunsOnce
<1>1. OutboxInv => KeyRunsOnce
  BY OutboxConstants DEF OutboxInv, MapInv, KeyRunsOnce
<1> QED
  BY <1>1, SpecOutboxInv, PTL

(* A settled email is not touched any more; one that failed is tried again *)
(* only when its backoff is over; and no email is tried before an older    *)
(* one that is due too (route.ts:37-46, 54-70).                            *)
THEOREM SpecAttemptsOrderly == OutboxSpec => AttemptsOrderly
<1> DEFINE OrderlyStep ==
      \A i \in DOMAIN outbox :
        /\ outbox[i].status # "pending" => outbox'[i] = outbox[i]
        /\ outbox'[i].attempts # outbox[i].attempts =>
             /\ outbox'[i].attempts = outbox[i].attempts + 1
             /\ \/ outbox[i].attempts = 0
                \/ quiet[i] >= computeBackoffMinutes(outbox[i].attempts)
             /\ \A j \in Due :
                  j < i => outbox'[j].attempts # outbox[j].attempts
<1>1. ASSUME OutboxInv, OutboxNext PROVE OrderlyStep
  <2> DEFINE Untried ==
        \A i \in DOMAIN outbox :
          /\ outbox[i].status # "pending" => outbox'[i] = outbox[i]
          /\ outbox'[i].attempts = outbox[i].attempts
  <2>1. Untried => OrderlyStep
    OBVIOUS
  <2>2. OutboxTypeOK /\ \A i \in DOMAIN outbox : Orderly(outbox[i], quiet[i])
    BY <1>1, OutboxInvFacts DEF OutboxInv, TableInv
  <2>3. ASSUME NEW recipient \in Recipients, Enqueue(recipient) PROVE Untried
    <3>1. \A i \in DOMAIN outbox : outbox'[i] = outbox[i]
      BY <2>2, <2>3, OutboxRows, AppendProperties DEF Enqueue, OutboxTypeOK
    <3> QED
      BY <3>1
  <2>4. CASE Tick
    <3>1. ASSUME NEW i \in DOMAIN outbox, NEW row \in RowType, row = outbox[i]
          PROVE  /\ outbox'[i].attempts = row.attempts
                 /\ row.wait = 0 => outbox'[i] = row
      <4>1. outbox'[i] = [row EXCEPT !.wait =
                            IF row.wait <= TickLength THEN 0
                            ELSE row.wait - TickLength]
        BY <2>4, <3>1 DEF Tick, RowType
      <4>2. outbox'[i].attempts = row.attempts
        BY <4>1 DEF RowType
      <4>3. ASSUME row.wait = 0 PROVE outbox'[i] = row
        <5>1. outbox'[i] = [row EXCEPT !.wait = 0]
          BY <4>1, <4>3, OutboxConstants
        <5> QED
          BY <4>3, <5>1 DEF RowType
      <4> QED
        BY <4>2, <4>3
    <3> QED
      BY <2>2, <3>1 DEF Orderly
  <2>5. ASSUME NEW k, NEW broken, Commit(k, broken) PROVE OrderlyStep
    <3>1. \A i \in DOMAIN outbox :
            outbox'[i] = IF i \in Jobs THEN Attempted(i, broken) ELSE outbox[i]
      BY <2>5 DEF Commit, Transacted
    <3>2. ASSUME NEW i \in Jobs
          PROVE  /\ outbox[i].status = "pending" /\ outbox[i].wait = 0
                 /\ outbox[i].attempts \in Nat
                 /\ outbox'[i].attempts = outbox[i].attempts + 1
      <4>1. i \in DOMAIN outbox /\ outbox[i].status = "pending" /\ outbox[i].wait = 0
        BY JobsDue DEF Due
      <4>2. outbox[i] \in RowType
        BY <2>2, <4>1 DEF Orderly
      <4>3. AttemptOf(outbox[i], outbox'[i])
        BY <2>2, <3>1, <4>1, AttemptFacts
      <4> QED
        BY <4>1, <4>2, <4>3, OutboxConstants DEF AttemptOf, RowType
    <3>3. ASSUME NEW i \in DOMAIN outbox, outbox[i].status # "pending"
          PROVE  outbox'[i] = outbox[i]
      BY <3>1, <3>2, <3>3
    <3>4. ASSUME NEW i \in DOMAIN outbox, outbox'[i].attempts # outbox[i].attempts
          PROVE  /\ outbox'[i].attempts = outbox[i].attempts + 1
                 /\ \/ outbox[i].attempts = 0
                    \/ quiet[i] >= computeBackoffMinutes(outbox[i].attempts)
                 /\ \A j \in Due :
                      j < i => outbox'[j].attempts # outbox[j].attempts
      <4>1. i \in Jobs
        BY <3>1, <3>4
      <4>2. \/ outbox[i].attempts = 0
            \/ quiet[i] >= computeBackoffMinutes(outbox[i].attempts)
        <5>1. quiet[i] \in Nat
          BY <2>2, <3>4 DEF Orderly
        <5>2. outbox[i].attempts > 0 =>
                0 + quiet[i] >= computeBackoffMinutes(outbox[i].attempts)
          BY <2>2, <3>2, <4>1 DEF Orderly
        <5> QED
          BY <3>2, <4>1, <5>1, <5>2
      <4>3. ASSUME NEW j \in Due, j < i
            PROVE  outbox'[j].attempts # outbox[j].attempts
        <5>1. j \in Jobs
          BY <2>2, <4>1, <4>3, JobsFirst
        <5> QED
          BY <3>2, <5>1
      <4> QED
        BY <3>2, <4>1, <4>2, <4>3
    <3> QED
      BY <3>3, <3>4
  <2>6. CASE Restart
    BY <2>6 DEF Restart
  <2> HIDE DEF OrderlyStep
  <2> QED
    BY <1>1, <2>1, <2>3, <2>4, <2>5, <2>6 DEF OutboxNext, Work, WorkAndDie
<1>2. OutboxInv /\ [OutboxNext]_outboxVars => [OrderlyStep]_outboxVars
  BY <1>1
<1> QED
  BY <1>2, SpecOutboxInv, PTL DEF OutboxSpec, AttemptsOrderly

=============================================================================
