---------------------------- MODULE MCDashboard ----------------------------
(* The TLC instance of Dashboard.                                          *)
EXTENDS Dashboard, TLC

CONSTANTS r1, r2, r3, k1, k2

(* One deposit sent with two amounts, another one, a card requested with   *)
(* two keys, and one event, signed or not.                                 *)
Messages ==
  { [kind |-> "deposit", key |-> k1, amount |-> 1, valid |-> TRUE],
    [kind |-> "deposit", key |-> k1, amount |-> 2, valid |-> TRUE],
    [kind |-> "deposit", key |-> k2, amount |-> 2, valid |-> TRUE],
    [kind |-> "card",    key |-> k1, amount |-> 0, valid |-> TRUE],
    [kind |-> "card",    key |-> k2, amount |-> 0, valid |-> TRUE],
    [kind |-> "webhook", key |-> k1, amount |-> 0, valid |-> TRUE],
    [kind |-> "webhook", key |-> k1, amount |-> 0, valid |-> FALSE] }

(* k2 has a wildcard in a place where k1 has some character.               *)
LikeKeys == {<<k1, k1>>, <<k2, k2>>, <<k2, k1>>}

Symmetry == Permutations(Requests)
=============================================================================
