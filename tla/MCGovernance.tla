---------------------------- MODULE MCGovernance ----------------------------
(* The TLC instance of Governance.                                         *)
EXTENDS Governance, TLC

CONSTANTS s1, s2, p1

Past0(events) ==
  [i \in DOMAIN events |->
     [event |-> events[i], ts |-> 0, by |-> Requests]]

(* One log without and one with a system_event.                            *)
Logs ==
  { Past0(<<"sar_generated", "transaction_blocked">>),
    Past0(<<"transaction_blocked", "sar_generated", "system_event">>) }

Symmetry == Permutations(Sweeps)
=============================================================================
