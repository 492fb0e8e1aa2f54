---------------------------- MODULE MCCardIssuance ----------------------------
(* TLC instances of CardIssuance.                                          *)
EXTENDS CardIssuance, TLC

CONSTANTS u1, u2, q1, q2

OneUserEach == (q1 :> u1) @@ (q2 :> u2)
=============================================================================
