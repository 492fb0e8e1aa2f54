--------------------------- MODULE DepositLedger ---------------------------
(***************************************************************************)
(* What the dashboard promises about deposits ("Emits ledger credit on     *)
(* creation", deposits/route.ts): a deposit is known by its idempotency    *)
(* key, has the amount it was first sent with, and goes forward only, from *)
(* its row to its ledger entry, the balance and the answer "created".      *)
(***************************************************************************)
EXTENDS Naturals

CONSTANTS Keys, Amounts

VARIABLES
  stage,    \* stage[k]: how far the deposit with key k has come
  amount,   \* amount[k]: its amount
  book,     \* the total of the ledger entries
  balance   \* the balance of the account

ledgerVars == <<stage, amount, book, balance>>

Advance(k, from, to) ==
  /\ stage[k] = from
  /\ stage' = [stage EXCEPT ![k] = to]

Init ==
  /\ stage   = [k \in Keys |-> "none"]
  /\ amount  = [k \in Keys |-> 0]
  /\ book    = 0
  /\ balance = 0

Create(k) ==
  /\ Advance(k, "none", "stored")
  /\ \E a \in Amounts : amount' = [amount EXCEPT ![k] = a]
  /\ UNCHANGED <<book, balance>>

Post(k) ==
  /\ Advance(k, "stored", "posted")
  /\ book' = book + amount[k]
  /\ UNCHANGED <<amount, balance>>

Credit(k) ==
  /\ Advance(k, "posted", "credited")
  /\ balance' = balance + amount[k]
  /\ UNCHANGED <<amount, book>>

Confirm(k) ==
  /\ Advance(k, "credited", "confirmed")
  /\ UNCHANGED <<amount, book, balance>>

Next == \E k \in Keys : Create(k) \/ Post(k) \/ Credit(k) \/ Confirm(k)

Spec == Init /\ [][Next]_ledgerVars

=============================================================================
