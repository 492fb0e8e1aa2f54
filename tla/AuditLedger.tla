----------------------------- MODULE AuditLedger -----------------------------
(***************************************************************************)
(* What the audit log promises to its callers (agent.py, header and        *)
(* _append docstring): recording an entry is ONE step that puts it at the  *)
(* next position, links it to the previous recorded entry and hands it     *)
(* back.  Rows put there by a failed external run may only be skipped.     *)
(***************************************************************************)
EXTENDS Naturals, Sequences

CONSTANTS Writers, External

VARIABLES
  ledger,   \* sequence of [writer, back]: back is the position linked to
  receipts  \* positions handed back to callers

ledgerVars == <<ledger, receipts>>

Recorded(i) == ledger[i].writer # External

Init == ledger = << >> /\ receipts = {}

(* k is the previous recorded entry, or a corrupt row after it; 0: genesis *)
Linkable(k) == \A i \in (k + 1)..Len(ledger) : ~Recorded(i)

Record(w) ==
  /\ \E k \in 0..Len(ledger) :
       /\ Linkable(k)
       /\ ledger' = Append(ledger, [writer |-> w, back |-> k])
  /\ receipts' = receipts \cup {Len(ledger) + 1}

Corrupt ==
  /\ ledger' = Append(ledger, [writer |-> External, back |-> 0])
  /\ UNCHANGED receipts

Next == (\E w \in Writers : Record(w)) \/ Corrupt

Spec == Init /\ [][Next]_ledgerVars

=============================================================================
