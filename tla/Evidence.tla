------------------------------ MODULE Evidence ------------------------------
(***************************************************************************)
(* What a reader of a stored receipt is told: GET /v1/verify and the       *)
(* hosted page check its signature, and they and the pack grade it         *)
(* (internal/grade/grade.go) from the receipt's body and the context and   *)
(* decision records it names.  The module only reads the tables of         *)
(* AuthorizeService.  A policy hash is never empty, so of grade F only the *)
(* invalid signature is left.                                              *)
(***************************************************************************)
EXTENDS AuthorizeService

CONSTANTS
    PlanOf,  \* [Keys -> BOOLEAN]: the calls carry a plan digest (it is part of the key)
    DiffOf,  \* [Stamps -> BOOLEAN]: the call that built the context carries a diff URL
    TtlOf,   \* [Policies -> [Keys -> BOOLEAN]]: the rule sets a TTL
    Gates,   \* [Policies -> [Keys -> BOOLEAN]]: requires_approval of the decision
    TextBodies  \* body_json is TEXT (SQLite), not JSONB (Postgres)

ASSUME EvidenceAssumption ==
    /\ TextBodies \in BOOLEAN
    /\ PlanOf \in [Keys -> BOOLEAN] /\ DiffOf \in [Stamps -> BOOLEAN]
    /\ TtlOf \in [Policies -> [Keys -> BOOLEAN]] /\ Gates \in [Policies -> [Keys -> BOOLEAN]]
    /\ \A p \in Policies, k \in Keys :  \* policy.Evaluate; a denial may have either value
        VerdictOf[p][k] # "deny" => Gates[p][k] = (VerdictOf[p][k] = "require_approval")

-----------------------------------------------------------------------------
(* GetKey of the receipt's key_id, or the key of the process.              *)
VerifyKey == IF keyRow # Null THEN keyRow ELSE signer

(* The bytes read back are digested again.  JSONB returns another text of  *)
(* the same JSON, with its own key order and a space after every colon and *)
(* comma; the canonical form that was signed has none.                     *)
DigestMatches == TextBodies
Valid(row) == DigestMatches /\ row.signer = VerifyKey

(* Only finalizeIssuance puts a credential grant into a body.              *)
\* Seeded fault: the role and TTL of the policy are taken for a grant.
GrantInPolicy(id) == HasRole[id.policy][id.key]
Granted(id) == id.outcome = "issued_credentials"

ApprovalRequired(id) == Gates[id.policy][id.key] \/ id.approval # Null
ApprovalApproved(id) == id.approval # Null /\ id.outcome = "approval_approved"

Missing(id) ==
    {f \in {"approval", "plan_digest", "diff_url", "role_arn", "ttl"} :
        CASE f = "approval" -> ApprovalRequired(id) /\ ~ApprovalApproved(id)
          [] f = "plan_digest" -> ~PlanOf[id.key]
          [] f = "diff_url" -> ~DiffOf[id.context]
          [] f = "role_arn" -> ~(Granted(id) /\ HasRole[id.policy][id.key])
          [] f = "ttl" -> ~(Granted(id) /\ TtlOf[id.policy][id.key])}

Grade(valid, id) ==
    LET missing == Missing(id) IN
    IF ~valid THEN "F"
    ELSE IF "approval" \in missing THEN "D"
    ELSE IF {"plan_digest", "diff_url"} \subseteq missing THEN "C"
    ELSE IF missing # {} THEN "B"
    ELSE "A"

(* The verify pages grade what they have verified; the pack summary says   *)
(* Valid: true of every receipt.                                           *)
VerifyGrade(row) == Grade(Valid(row), row.id)
PackGrade(row) == Grade(TRUE, row.id)

(* approvals.json of a pack: the row of the receipt's approval, as it is   *)
(* when the pack is made.                                                  *)
PackApproval(row) == approvals[row.id.approval].status

-----------------------------------------------------------------------------
(* A pack does not contradict itself: the approval that approvals.json     *)
(* shows with a decision is decided the way the signed receipt says,       *)
(* whatever was clicked, approved or issued since the decision.            *)
PackAgrees ==
    \A row \in receipts :
        /\ row.id.outcome = "approval_approved" => PackApproval(row) = "approved"
        /\ row.id.outcome = "approval_denied" => PackApproval(row) = "denied"

(* Receipts are "offline-verifiable across gateway restarts" with one      *)
(* persistent signing key: every stored receipt passes VerifyReceipt.      *)
StoredReceiptsVerify == Cardinality(SignerKeys) = 1 => \A row \in receipts : Valid(row)

(* The best grade vouches for something, even in a pack that verifies      *)
(* nothing: such a receipt records credentials the broker handed out, and  *)
(* what was done needed no approval or had it, under the policy it names.  *)
BestGradeIsEarned ==
    \A row \in receipts : PackGrade(row) = "A" =>
        /\ row.supersedes \in minted
        /\ \E issuing \in receipts :
            issuing.id = row.supersedes /\ AuthorizedIssuance(issuing)

(* "A: approval (if required) + policy hash + plan digest + scoped role +  *)
(* short TTL": the record of an approved issuance with all of it is an A.  *)
ApprovedEarnsBestGrade ==
    \A row \in receipts :
        /\ Valid(row) /\ Granted(row.id)
        /\ PlanOf[row.id.key] /\ DiffOf[row.id.context]
        /\ HasRole[row.id.policy][row.id.key] /\ TtlOf[row.id.policy][row.id.key]
        => VerifyGrade(row) = "A"

=============================================================================
