------------------------ MODULE MCCompliancePipeline ------------------------
(* TLC instances of CompliancePipeline.                                    *)
EXTENDS CompliancePipeline, TLC

CONSTANTS s1, s2, s3, i1, i2, i3, q1, c1, c2, u1, u2

(* s1, s3, i1 and i2 carry one payload: retries, or several clients at     *)
(* once; s2 and i3 carry another one, of another user and not stamped; q1  *)
(* asks about the user of the first.                                       *)
TwoPayloads == [r \in Requests |-> IF r \in {s2, i3} THEN c2 ELSE c1]

TwoUsers == (c1 :> u1) @@ (c2 :> u2)

(* Two screenings; a payload ingested twice and screened; a payload that   *)
(* is not stamped, ingested and screened; a screening and an inquiry about *)
(* its user.                                                               *)
Mixed == {{s1, s2}, {s1, i1, i2}, {s2, i3}, {s1, q1}}

(* A payload screened twice.                                               *)
Retried == {{s1, s3}}

(* Two providers: one fails or names no risk, the other may answer.        *)
Unsure == {<<"timeout", "severe">>, <<"timeout", "low">>, <<"high", "low">>}

Severe == {<<"timeout">>, <<"critical">>}
=============================================================================
