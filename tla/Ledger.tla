------------------------------- MODULE Ledger -------------------------------
(***************************************************************************)
(* The durable rows of the gateway and the statements that write them, as  *)
(* the SQLite store executes them (internal/ledger/sqlstore).  The module  *)
(* has no state: the components declare the tables as variables and use    *)
(* the operators below inside one action per transaction.                  *)
(*                                                                         *)
(* A receipt is content addressed: its identifier is the digest of its     *)
(* signed body, so an identifier is modelled by the record of what the     *)
(* body says.  The body holds neither the idempotency key nor the receipt  *)
(* it supersedes; the key is still determined by it, through the context.  *)
(***************************************************************************)
CONSTANTS
    Keys,         \* idempotency keys (one per distinct intent and workload)
    ApprovalIds,  \* identifiers newApprovalID may draw
    Stamps,       \* what the bodies of two receipts of the same kind differ in:
                  \* the second they were made in (and a context its diff_url;
                  \* request_id is part of the key)
    Policies,     \* contents of the policy file, named by their hash
    VerdictOf,    \* [Policies -> [Keys -> Verdicts]]: what policy.Evaluate says
    HasRole,      \* [Policies -> [Keys -> BOOLEAN]]: the rule names an aws_role_arn
    SignerKeys,   \* key pairs a process may sign with under the same key_id
    Null          \* the SQL NULL

Verdicts == {"allow", "deny", "require_approval"}

ASSUME VerdictAssumption == VerdictOf \in [Policies -> [Keys -> Verdicts]]
ASSUME RoleAssumption == HasRole \in [Policies -> [Keys -> BOOLEAN]]

IdemStatus == {"pending_approval", "approved_ready", "issuing", "allowed", "denied"}
ApprovalStatus == {"pending", "approved", "denied"}
Decisions == {"approved", "denied"}
OutcomeStatus == {"approval_pending", "approval_approved", "approval_denied",
                  "issuing_credentials", "issued_credentials", "denied"}

-----------------------------------------------------------------------------
(* Receipts.                                                               *)

ReceiptId == [key : Keys,            \* of the context the decision was made in
              context : Stamps,      \* when that context was built
              at : Stamps,           \* created_at of this receipt
              policy : Policies,
              outcome : OutcomeStatus,
              approval : ApprovalIds \cup {Null}]

ASSUME NullAssumption ==
    Null \notin ReceiptId /\ Null \notin ApprovalIds /\ Null \notin SignerKeys

ReceiptRow == [id : ReceiptId, supersedes : ReceiptId \cup {Null}, signer : SignerKeys]

Stored(rows) == {row.id : row \in rows}

(* INSERT ... ON CONFLICT(receipt_id) DO NOTHING: the first row of an      *)
(* identifier stays, whatever the second one supersedes or is signed with. *)
\* Seeded fault: ON CONFLICT DO UPDATE.
PutReceiptReplaces(rows, row) == {other \in rows : other.id # row.id} \cup {row}
PutReceipt(rows, row) ==
    IF row.id \in Stored(rows) THEN rows ELSE rows \cup {row}

(* ledger.MakeReceipt for the receipt that opens the history of a key.     *)
OutcomeFor(verdict) ==
    CASE verdict = "deny" -> "denied"
      [] verdict = "require_approval" -> "approval_pending"
      [] verdict = "allow" -> "issuing_credentials"

\* Seeded fault: the receipt does not carry the approval.
UnlinkedBase(k, at, p, approval) ==
    [key |-> k, context |-> at, at |-> at, policy |-> p,
     outcome |-> OutcomeFor(VerdictOf[p][k]), approval |-> Null]
BaseReceipt(k, at, p, approval) ==
    [key |-> k, context |-> at, at |-> at, policy |-> p,
     outcome |-> OutcomeFor(VerdictOf[p][k]), approval |-> approval]

(* ... and for one that supersedes prev: it keeps the context, decision    *)
(* and policy of the receipt it follows.                                   *)
\* Seeded fault: the receipt names a context of its own second.
NextReceiptRedated(prev, at, outcome, approval) ==
    [prev EXCEPT !.context = at, !.at = at, !.outcome = outcome, !.approval = approval]
NextReceipt(prev, at, outcome, approval) ==
    [prev EXCEPT !.at = at, !.outcome = outcome, !.approval = approval]

-----------------------------------------------------------------------------
(* Policy versions: INSERT ... ON CONFLICT(policy_hash) DO NOTHING.        *)
\* Seeded fault: the policy version is not written.
PutNoPolicyVersion(rows, p) == rows
PutPolicyVersion(rows, p) == rows \cup {p}

(* Contexts and decisions: content addressed and inserted in the same way. *)
(* Both are built by the call that opens the history of a key: a context   *)
(* from the call and its stamp, a decision from that and the policy.       *)
ContextId == [key : Keys, at : Stamps]
DecisionId == [key : Keys, at : Stamps, policy : Policies]

BuildContext(k, at) == [key |-> k, at |-> at]
BuildDecision(context, p) == [key |-> context.key, at |-> context.at, policy |-> p]

PutContext(rows, context) == rows \cup {context}
PutDecision(rows, decision) == rows \cup {decision}

(* context_id and decision_id of a receipt.                                *)
ContextOf(id) == BuildContext(id.key, id.context)
DecisionOf(id) == BuildDecision(ContextOf(id), id.policy)

(* Keys: INSERT ... ON CONFLICT(key_id) DO NOTHING.  Every process signs   *)
(* under one key_id, so the table is its single row.                       *)
PutKey(row, key) == IF row = Null THEN key ELSE row

-----------------------------------------------------------------------------
(* Idempotency keys, approvals and the Slack outbox.                       *)

IdemRow == [status : IdemStatus,
            approval : ApprovalIds \cup {Null},
            latest : ReceiptId \cup {Null},
            final : ReceiptId \cup {Null}]
NoIdem == [status |-> "absent", approval |-> Null, latest |-> Null, final |-> Null]

ApprovalRow == [key : Keys, status : ApprovalStatus, posted : BOOLEAN]
NoApproval == [key |-> Null, status |-> "absent", posted |-> FALSE]

\* due: next_attempt_at has passed.  attempt_count only feeds nextAttempt,
\* which Backoff models.
OutboxRow == [status : {"pending", "sent"}, due : BOOLEAN]
NoOutbox == [status |-> "absent", due |-> FALSE]
QueuedRow == [status |-> "pending", due |-> TRUE]

(* INSERT INTO approvals ... ON CONFLICT(approval_id) DO UPDATE: the       *)
(* status is overwritten, slack_msg_ts (posted) is kept when the new value *)
(* is NULL.                                                                *)
PutApproval(old, new) == [new EXCEPT !.posted = old.posted \/ new.posted]

(* approvals.idem_key is UNIQUE: a second approval row of a key fails the  *)
(* transaction.                                                            *)
\* Seeded fault: no UNIQUE constraint on approvals.idem_key.
UniqueUnchecked(rows, k) == TRUE
MayInsertApproval(rows, k) == \A a \in ApprovalIds : rows[a].key # k

=============================================================================
