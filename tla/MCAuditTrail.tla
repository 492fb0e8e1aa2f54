---------------------------- MODULE MCAuditTrail ----------------------------
(* TLC instances of AuditTrail.                                            *)
EXTENDS AuditTrail, TLC

CONSTANTS t1, t2, t3, p1

(* The deployed service: one uvicorn process, requests on a thread pool.   *)
ThreeThreads == (t1 :> p1) @@ (t2 :> p1) @@ (t3 :> p1)
=============================================================================
