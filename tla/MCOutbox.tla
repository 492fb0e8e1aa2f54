------------------------------- MODULE MCOutbox -------------------------------
(* The TLC instance of Outbox.                                             *)
EXTENDS Outbox

CONSTANTS ok, fail, k1
=============================================================================
