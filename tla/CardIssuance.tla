----------------------------- MODULE CardIssuance -----------------------------
(***************************************************************************)
(* Issuing a card: /api/v1/cards/issue of the card platform service, gated *)
(* by the KYC tier that CardPlatformLogic reads from the users table over  *)
(* ONE database connection, opened when the process starts and shared by   *)
(* all request threads.  psycopg2 opens a transaction with the first query *)
(* and refuses every query after a failed one until a rollback; clients.py *)
(* never rolls back.  The users table is changed by others.                *)
(***************************************************************************)
EXTENDS Naturals, FiniteSets

CONSTANTS
  Users,
  Requests,   \* card requests
  UserOf,     \* the user each request is for
  MaxTier,    \* bound on the tiers explored
  NoTier      \* the user has no row

ASSUME CardAssumption ==
  /\ UserOf \in [Requests -> Users]
  /\ MaxTier \in Nat
  /\ NoTier \notin 0..MaxTier

Tiers == (0..MaxTier) \cup {NoTier}

VARIABLES
  tier,      \* users.kyc_tier
  db_conn,   \* "none", "open", or "aborted" after a failed query
  pc,        \* pc[q]: where request q is
  kyc,       \* kyc[q]: the KYC status read, [status, tier]
  issued,    \* the requests for which the card provider was called
  approved,  \* history: requests whose user was at Tier 3+ while they ran
  refusable  \* history: requests that met a reason to refuse while they ran

issuanceVars == <<tier, db_conn, pc, kyc, issued, approved, refusable>>

-----------------------------------------------------------------------------
Failed   == [status |-> "failed", tier |-> 0]
NotFound == [status |-> "not_found", tier |-> 0]

(* Variants: one tier too low, one too high.                               *)
is_kyc_tier_approved_Low(k)  == k.status = "tier" /\ k.tier >= 2
is_kyc_tier_approved_High(k) == k.status = "tier" /\ k.tier > 3

is_kyc_tier_approved(k) == k.status = "tier" /\ k.tier >= 3

Approved(t) == t # NoTier /\ t >= 3

Running(q) == pc[q] \in {"kyc", "decide"}

(* The history of the running requests, given the next tiers.              *)
Observe(tiers, conn) ==
  /\ approved' = approved \cup {q \in Requests :
                                  Running(q) /\ Approved(tiers[UserOf[q]])}
  /\ refusable' = refusable \cup {q \in Requests :
                     Running(q) /\ (~Approved(tiers[UserOf[q]]) \/ conn # "open")}

IssuanceInit ==
  /\ tier      \in [Users -> Tiers]
  /\ db_conn   \in {"none", "open"}
  /\ pc        = [q \in Requests |-> "new"]
  /\ kyc       = [q \in Requests |-> Failed]
  /\ issued    = {}
  /\ approved  = {}
  /\ refusable = {}

ReceiveRequest(q) ==
  /\ pc[q] = "new"
  /\ pc' = [pc EXCEPT ![q] = "kyc"]
  /\ approved'  = IF Approved(tier[UserOf[q]]) THEN approved \cup {q}
                                               ELSE approved
  /\ refusable' = IF Approved(tier[UserOf[q]]) /\ db_conn = "open"
                  THEN refusable ELSE refusable \cup {q}
  /\ UNCHANGED <<tier, db_conn, kyc, issued>>

Read(q, status) ==
  /\ kyc' = [kyc EXCEPT ![q] = status]
  /\ pc'  = [pc EXCEPT ![q] = "decide"]
  /\ UNCHANGED <<tier, issued>>

(* SELECT kyc_tier FROM users: the row, or none.                           *)
QueryAnswers(q) ==
  /\ pc[q] = "kyc"
  /\ db_conn = "open"
  /\ Read(q, IF tier[UserOf[q]] = NoTier THEN NotFound
             ELSE [status |-> "tier", tier |-> tier[UserOf[q]]])
  /\ UNCHANGED <<db_conn, approved, refusable>>

(* The query fails: the status is "KYC status check failed".               *)
QueryFails(q) ==
  /\ pc[q] = "kyc"
  /\ db_conn = "open"
  /\ db_conn' = "aborted"
  /\ Read(q, Failed)
  /\ Observe(tier, "aborted")

(* No connection, or one whose transaction is aborted.                     *)
QueryRefused(q) ==
  /\ pc[q] = "kyc"
  /\ db_conn # "open"
  /\ Read(q, Failed)
  /\ UNCHANGED <<db_conn, approved, refusable>>

(* The 403, or issue_new_card, which checks the same status again.         *)
Decide(q) ==
  /\ pc[q] = "decide"
  /\ IF is_kyc_tier_approved(kyc[q])
     THEN issued' = issued \cup {q} /\ pc' = [pc EXCEPT ![q] = "issued"]
     ELSE UNCHANGED issued /\ pc' = [pc EXCEPT ![q] = "refused"]
  /\ UNCHANGED <<tier, db_conn, kyc, approved, refusable>>

(* A KYC review changes a tier at any time.                                *)
ChangeTier(u) ==
  /\ \E t \in Tiers \ {tier[u]} : tier' = [tier EXCEPT ![u] = t]
  /\ Observe(tier', db_conn)
  /\ UNCHANGED <<db_conn, pc, kyc, issued>>

(* The process is restarted: the connection is tried anew.                 *)
RestartPlatform ==
  /\ db_conn' \in {"none", "open"}
  /\ pc' = [q \in Requests |-> IF Running(q) THEN "lost" ELSE pc[q]]
  /\ UNCHANGED <<tier, kyc, issued, approved, refusable>>

IssuanceNext ==
  \/ \E q \in Requests : \/ ReceiveRequest(q) \/ QueryAnswers(q) \/ QueryFails(q)
                         \/ QueryRefused(q) \/ Decide(q)
  \/ \E u \in Users : ChangeTier(u)
  \/ RestartPlatform

IssuanceSpec == IssuanceInit /\ [][IssuanceNext]_issuanceVars

-----------------------------------------------------------------------------
(* What was read is a tier of the table, "not found" or "failed"           *)
(* (clients.py:48-66).                                                     *)
IssuanceTypeOK ==
  /\ tier \in [Users -> Tiers]
  /\ db_conn \in {"none", "open", "aborted"}
  /\ pc \in [Requests -> {"new", "kyc", "decide", "issued", "refused", "lost"}]
  /\ kyc \in [Requests -> [status : {"failed", "not_found", "tier"},
                           tier : 0..MaxTier]]
  /\ issued \subseteq Requests
  /\ approved \subseteq Requests
  /\ refusable \subseteq Requests

(* A card is issued only to a user who was at Tier 3 or above at some time *)
(* while the request ran, whatever reviews happen meanwhile                *)
(* (main.py:45-48, clients.py:81).                                         *)
IssuedWasApproved == issued \subseteq approved

(* A 403 has a reason: the tier was too low, or the database failed, while *)
(* the request ran; a user at Tier 3 is not turned away (clients.py:90).   *)
RefusedForAReason == \A q \in Requests : pc[q] = "refused" => q \in refusable

=============================================================================
