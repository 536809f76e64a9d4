-------------------------- MODULE AuthorizeService --------------------------
(***************************************************************************)
(* internal/api/authorize_service.go over the SQLite store: concurrent     *)
(* POST /v1/authorize requests, Slack decisions, edits of the policy file, *)
(* failing storage, a failing credential broker, and restarts of the       *)
(* gateway.                                                                *)
(*                                                                         *)
(* A transaction is one action: its first statement is an INSERT (the      *)
(* signing key), so SQLite serialises the write transactions and rolls a   *)
(* failing one back.  What a request does outside a transaction is a step  *)
(* of its own; reads of rows that are never changed once written           *)
(* (receipts, policy versions) are merged into the step that follows.      *)
(***************************************************************************)
EXTENDS Ledger, FiniteSets, Naturals

CONSTANTS
    Requests,       \* slots for authorize calls; a slot is used again after its answer
    KeyOf,          \* [Requests -> Keys]: ComputeIdemKey of the calls of a slot
    SlackConfigured,\* a notifier and a channel are configured
    ReadFaults      \* a failing read is reported as "no row" (sqlstore returns ok = false)

ASSUME KeyOfAssumption == KeyOf \in [Requests -> Keys]
ASSUME SwitchAssumption == SlackConfigured \in BOOLEAN /\ ReadFaults \in BOOLEAN

VARIABLES
    policyFile,     \* the policy on disk
    policyVersions, \* table policy_versions
    contexts,       \* table contexts
    decisions,      \* table decisions
    idem,           \* table idempotency_keys
    approvals,      \* table approvals
    outbox,         \* table slack_outbox
    receipts,       \* table receipts
    keyRow,         \* the row of the signing key in table keys
    signer,         \* the key pair of the running process
    minted,         \* issuing receipts the broker has handed out credentials for
    pc,             \* where each request is
    work,           \* what each request holds in its local variables
    resp            \* the last answer of each request

records == <<policyVersions, contexts, decisions>>
tables == <<records, idem, approvals, outbox, receipts, keyRow>>
vars == <<policyFile, records, idem, approvals, outbox, receipts,
          keyRow, signer, minted, pc, work, resp>>

Steps == {"idle", "lookup", "evaluate", "first", "reread", "ready", "mint",
          "final", "posting", "inline", "done"}

(* The receipt is the one the request works from: the latest one in        *)
(* "ready", the issuing one in "mint" and "final", its own in "posting".   *)
Work == [at : Stamps \cup {Null}, policy : Policies \cup {Null},
         receipt : ReceiptId \cup {Null}]
NoWork == [at |-> Null, policy |-> Null, receipt |-> Null]

Answers == [verdict : Verdicts \cup {"none", "error"},
            receipt : ReceiptId \cup {Null},
            approval : ApprovalIds \cup {Null},
            credentials : BOOLEAN,
            error : {"none", "dangling", "policy", "storage", "broker", "state",
                     "unsupported"}]

Answer(verdict, receipt, approval) ==
    [verdict |-> verdict, receipt |-> receipt, approval |-> approval,
     credentials |-> FALSE, error |-> "none"]
NoAnswer == Answer("none", Null, Null)
Error(why) == [Answer("error", Null, Null) EXCEPT !.error = why]

-----------------------------------------------------------------------------
(* Control of one request.                                                 *)

Goto(r, from, to) == pc[r] = from /\ pc' = [pc EXCEPT ![r] = to]

(* The request answers and forgets its local variables.                    *)
Respond(r, from, answer) ==
    /\ Goto(r, from, "done")
    /\ work' = [work EXCEPT ![r] = NoWork]
    /\ resp' = [resp EXCEPT ![r] = answer]

PutSigningKey == keyRow' = PutKey(keyRow, signer)

Row(id, supersedes) == [id |-> id, supersedes |-> supersedes, signer |-> signer]

(* The answer to a request whose key is already decided or pending.  A     *)
(* status it has no answer for is a denial with an error and no receipt.   *)
FinalReceipt(row) == IF row.final # Null THEN row.final ELSE row.latest
HandleExisting(row) ==
    CASE row.status \in {"allowed", "denied"} ->
           IF FinalReceipt(row) \in Stored(receipts)
           THEN Answer(IF row.status = "denied" THEN "deny" ELSE "allow",
                       FinalReceipt(row), Null)
           ELSE Error("dangling")
      [] row.status = "pending_approval" ->
           IF row.latest \in Stored(receipts)
           THEN Answer("require_approval", row.latest, row.approval)
           ELSE Error("dangling")
      [] OTHER -> [Answer("deny", Null, Null) EXCEPT !.error = "unsupported"]

-----------------------------------------------------------------------------
Init ==
    /\ policyFile \in Policies
    /\ policyVersions = {} /\ contexts = {} /\ decisions = {}
    /\ idem = [k \in Keys |-> NoIdem]
    /\ approvals = [a \in ApprovalIds |-> NoApproval]
    /\ outbox = [a \in ApprovalIds |-> NoOutbox]
    /\ receipts = {}
    /\ keyRow = Null
    /\ signer \in SignerKeys
    /\ minted = {}
    /\ pc = [r \in Requests |-> "idle"]
    /\ work = [r \in Requests |-> NoWork]
    /\ resp = [r \in Requests |-> NoAnswer]

(* A call arrives, or the client calls again: the handler takes its stamp. *)
Start(r) ==
    /\ \/ Goto(r, "idle", "lookup")
       \/ Goto(r, "done", "lookup")
    /\ \E at \in Stamps : work' = [work EXCEPT ![r] = [NoWork EXCEPT !.at = at]]
    /\ resp' = [resp EXCEPT ![r] = NoAnswer]
    /\ UNCHANGED <<tables, policyFile, signer, minted>>

(* The lookup finds no row, because there is none or because the read      *)
(* failed.                                                                 *)
LookupNone(r) ==
    /\ idem[KeyOf[r]].status = "absent" \/ ReadFaults
    /\ Goto(r, "lookup", "evaluate")
    /\ UNCHANGED <<tables, policyFile, signer, minted, work, resp>>

LookupExisting(r) ==
    LET row == idem[KeyOf[r]] IN
    /\ row.status \in {"allowed", "denied", "pending_approval"}
    /\ Respond(r, "lookup", HandleExisting(row))
    /\ UNCHANGED <<tables, policyFile, signer, minted>>

(* What a later attempt reads back before it may issue: the receipt it     *)
(* continues from, the policy that receipt was made under, and a role.     *)
Resumable(id) == id \in Stored(receipts) /\ id.policy \in policyVersions
RoleFor(k, p) == HasRole[p][k]

(* issueApprovedReady up to its transaction.                               *)
LookupReady(r) ==
    LET k == KeyOf[r]
        row == idem[k]
    IN /\ row.status = "approved_ready"
       /\ IF ~Resumable(row.latest)
          THEN Respond(r, "lookup", Error("dangling"))
          ELSE IF VerdictOf[row.latest.policy][k] = "deny" \/ ~RoleFor(k, row.latest.policy)
          THEN Respond(r, "lookup", Error("policy"))
          ELSE /\ Goto(r, "lookup", "ready")
               /\ work' = [work EXCEPT ![r].receipt = row.latest]
               /\ UNCHANGED resp
       /\ UNCHANGED <<tables, policyFile, signer, minted>>

(* retryIssuing: it goes straight to the broker, with the receipt another  *)
(* call left, whether that call died or is still running.                  *)
LookupIssuing(r) ==
    LET k == KeyOf[r]
        row == idem[k]
    IN /\ row.status = "issuing"
       /\ IF ~Resumable(row.latest)
          THEN Respond(r, "lookup", Error("dangling"))
          ELSE IF ~RoleFor(k, row.latest.policy)
          THEN Respond(r, "lookup", Error("policy"))
          ELSE /\ Goto(r, "lookup", "mint")
               /\ work' = [work EXCEPT ![r].receipt = row.latest]
               /\ UNCHANGED resp
       /\ UNCHANGED <<tables, policyFile, signer, minted>>

(* policy.LoadPolicy and policy.Evaluate on the file as it is now.         *)
Evaluate(r) ==
    /\ Goto(r, "evaluate", "first")
    /\ work' = [work EXCEPT ![r].policy = policyFile]
    /\ UNCHANGED <<tables, policyFile, signer, minted, resp>>

(* The file is missing or not YAML: the call fails before any write.       *)
EvaluateFail(r) ==
    /\ Respond(r, "evaluate", Error("policy"))
    /\ UNCHANGED <<tables, policyFile, signer, minted>>

(* The transaction that opens the history of a key.  It upserts the        *)
(* idempotency row without looking at what is there: only a verdict that   *)
(* needs an approval row can conflict with an earlier call.                *)
\* Seeded fault: require_approval is taken for allow.
InitialIssuing(verdict) == IF verdict = "deny" THEN "denied" ELSE "issuing"
\* Seeded fault: a verdict that asks for approval has no status of its own.
InitialErrored(verdict) ==
    CASE verdict = "deny" -> "denied"
      [] verdict = "allow" -> "issuing"
      [] OTHER -> "errored"
InitialStatus(verdict) ==
    CASE verdict = "deny" -> "denied"
      [] verdict = "require_approval" -> "pending_approval"
      [] verdict = "allow" -> "issuing"

FirstRow(base, verdict, a) ==
    [status |-> InitialStatus(verdict), approval |-> a, latest |-> base,
     final |-> IF verdict = "deny" THEN base ELSE Null]

DrawsApproval(a, k, verdict) ==
    IF verdict = "require_approval"
    THEN a # Null /\ approvals[a] = NoApproval /\ MayInsertApproval(approvals, k)
    ELSE a = Null

\* Seeded fault: no outbox row.
EnqueueNothing(rows, a) == rows
Enqueue(rows, a) == IF SlackConfigured THEN [rows EXCEPT ![a] = QueuedRow] ELSE rows

FirstCommit(r) ==
    LET k == KeyOf[r]
        p == work[r].policy
        verdict == VerdictOf[p][k]
    IN /\ pc[r] = "first"
       /\ \E a \in ApprovalIds \cup {Null} :
        LET base == BaseReceipt(k, work[r].at, p, a)
            context == BuildContext(k, work[r].at)
        IN
        /\ DrawsApproval(a, k, verdict)
        /\ PutSigningKey
        /\ policyVersions' = PutPolicyVersion(policyVersions, p)
        /\ contexts' = PutContext(contexts, context)
        /\ decisions' = PutDecision(decisions, BuildDecision(context, p))
        /\ receipts' = PutReceipt(receipts, Row(base, Null))
        /\ idem' = [idem EXCEPT ![k] = FirstRow(base, verdict, a)]
        /\ IF a = Null
           THEN UNCHANGED <<approvals, outbox>>
           ELSE /\ approvals' = [approvals EXCEPT ![a] =
                                   [key |-> k, status |-> "pending", posted |-> FALSE]]
                /\ outbox' = Enqueue(outbox, a)
        /\ IF verdict = "allow" \/ (a # Null /\ SlackConfigured)
           THEN /\ Goto(r, "first", IF verdict = "allow" THEN "mint" ELSE "posting")
                /\ work' = [work EXCEPT ![r].receipt = base]
                /\ UNCHANGED resp
           ELSE Respond(r, "first", Answer(verdict, base, a))
        /\ UNCHANGED <<policyFile, signer, minted>>

(* The transaction fails, on the UNIQUE constraint or in the storage.      *)
FirstFail(r) ==
    /\ Goto(r, "first", "reread")
    /\ UNCHANGED <<tables, policyFile, signer, minted, work, resp>>

(* "If another request won the race, return its view."                     *)
Reread(r) ==
    LET row == idem[KeyOf[r]] IN
    /\ Respond(r, "reread",
               IF row.status = "absent" THEN Error("storage") ELSE HandleExisting(row))
    /\ UNCHANGED <<tables, policyFile, signer, minted>>

(* The inline slack.ProcessOutboxDue of a call that asked for approval;    *)
(* what it does to the outbox is in SlackOutbox, and Gateway joins them.   *)
StartInline(r) ==
    /\ Goto(r, "posting", "inline")
    /\ UNCHANGED <<tables, policyFile, signer, minted, work, resp>>

FinishInline(r) ==
    /\ Respond(r, "inline",
               Answer("require_approval", work[r].receipt, work[r].receipt.approval))
    /\ UNCHANGED <<tables, policyFile, signer, minted>>

(* The transaction of issueApprovedReady, which compares the status it     *)
(* finds before it moves it on.                                            *)
\* Seeded fault: the status is not compared.
NotChecked(row) == TRUE
\* Seeded fault: ... or compared with the wrong one.
ComparedWithIssuing(row) == row.status = "issuing"
StillReady(row) == row.status = "approved_ready"

(* Its writes, over the row it has read.                                   *)
IssuingRow(row, id) == [row EXCEPT !.status = "issuing", !.latest = id]

WriteIssuing(r, row) ==
    LET issuing == NextReceipt(work[r].receipt, work[r].at, "issuing_credentials", Null)
    IN /\ PutSigningKey
       /\ receipts' = PutReceipt(receipts, Row(issuing, work[r].receipt))
       /\ idem' = [idem EXCEPT ![KeyOf[r]] = IssuingRow(row, issuing)]
       /\ Goto(r, "ready", "mint")
       /\ work' = [work EXCEPT ![r].receipt = issuing]
       /\ UNCHANGED <<policyFile, records, approvals, outbox, signer, minted, resp>>

ReadyCommit(r) ==
    /\ pc[r] = "ready"
    /\ StillReady(idem[KeyOf[r]])
    /\ WriteIssuing(r, idem[KeyOf[r]])

ReadyLost(r) ==
    /\ ~StillReady(idem[KeyOf[r]])
    /\ Respond(r, "ready", Error("state"))
    /\ UNCHANGED <<tables, policyFile, signer, minted>>

(* finalizeIssuance: the broker (external) hands out credentials or fails. *)
\* Seeded fault: the answer goes out before the transaction.
AnswerBeforeRecord(r) ==
    /\ Respond(r, "mint", [Answer("allow", work[r].receipt, Null) EXCEPT !.credentials = TRUE])
    /\ minted' = minted \cup {work[r].receipt}
    /\ UNCHANGED <<tables, policyFile, signer>>
Mint(r) ==
    /\ Goto(r, "mint", "final")
    /\ minted' = minted \cup {work[r].receipt}
    /\ UNCHANGED <<tables, policyFile, signer, work, resp>>

MintFail(r) ==
    /\ Respond(r, "mint", Error("broker"))
    /\ UNCHANGED <<tables, policyFile, signer, minted>>

(* ... and the transaction that records it, whatever the row says by now.  *)
\* Seeded fault: final_receipt_id is not set.
AllowedNotFinal(row, id) == [row EXCEPT !.status = "allowed", !.latest = id]
AllowedRow(row, id) == [row EXCEPT !.status = "allowed", !.latest = id, !.final = id]

WriteIssued(r, row) ==
    LET issued == NextReceipt(work[r].receipt, work[r].at, "issued_credentials", Null)
    IN /\ PutSigningKey
       /\ receipts' = PutReceipt(receipts, Row(issued, work[r].receipt))
       /\ idem' = [idem EXCEPT ![KeyOf[r]] = AllowedRow(row, issued)]
       /\ Respond(r, "final", [Answer("allow", issued, Null) EXCEPT !.credentials = TRUE])
       /\ UNCHANGED <<policyFile, records, approvals, outbox, signer, minted>>

FinalCommit(r) ==
    /\ pc[r] = "final"
    /\ idem[KeyOf[r]].status # "absent"
    /\ WriteIssued(r, idem[KeyOf[r]])

(* A read reported as an error, or a transaction that failed: no row       *)
(* changed, the call answers with an error.                                *)
StorageFault(r) ==
    /\ \/ ReadFaults /\ idem[KeyOf[r]].status # "absent" /\ Respond(r, "lookup", Error("storage"))
       \/ \E from \in {"reread", "ready", "final"} : Respond(r, from, Error("storage"))
    /\ UNCHANGED <<tables, policyFile, signer, minted>>

-----------------------------------------------------------------------------
(* AuthorizeService.Approve, called with the decision of a Slack click.  A *)
(* click on a decided approval changes nothing.                            *)
\* Seeded fault: a decided approval is decided again.
Decidable(row) == row.status # "absent"
Undecided(row) == row.status = "pending"

\* Seeded fault: a denial is taken for an approval.
ReadyWhateverDecided(row, id, decision) ==
    [row EXCEPT !.status = "approved_ready", !.latest = id, !.final = Null]
\* Seeded fault: final_receipt_id survives an approval.
FinalNotCleared(row, id, decision) ==
    IF decision = "approved"
    THEN [row EXCEPT !.status = "approved_ready", !.latest = id]
    ELSE [row EXCEPT !.status = "denied", !.latest = id, !.final = id]
\* Seeded fault: an approval leaves the status as it is.
StatusKept(row, id, decision) ==
    IF decision = "approved"
    THEN [row EXCEPT !.latest = id, !.final = Null]
    ELSE [row EXCEPT !.status = "denied", !.latest = id, !.final = id]
DecidedRow(row, id, decision) ==
    IF decision = "approved"
    THEN [row EXCEPT !.status = "approved_ready", !.latest = id, !.final = Null]
    ELSE [row EXCEPT !.status = "denied", !.latest = id, !.final = id]

(* Its writes, over the approval and the row it has read.                  *)
WriteDecision(a, approval, row, decision, at) ==
    LET id == NextReceipt(row.latest, at,
                IF decision = "approved" THEN "approval_approved" ELSE "approval_denied", a)
    IN /\ row.latest \in Stored(receipts)
       /\ PutSigningKey
       /\ receipts' = PutReceipt(receipts, Row(id, row.latest))
       /\ approvals' = [approvals EXCEPT ![a] =
                           PutApproval(@, [approval EXCEPT !.status = decision])]
       /\ idem' = [idem EXCEPT ![approval.key] = DecidedRow(row, id, decision)]
       /\ UNCHANGED <<policyFile, records, outbox, signer, minted, pc, work, resp>>

Approve(a, decision, at) ==
    /\ Undecided(approvals[a])
    /\ WriteDecision(a, approvals[a], idem[approvals[a].key], decision, at)

-----------------------------------------------------------------------------
(* The operator edits the policy file.                                     *)
EditPolicy(p) ==
    /\ policyFile' = p
    /\ UNCHANGED <<tables, signer, minted, pc, work, resp>>

(* The gateway dies and starts again: calls in flight are gone, the tables *)
(* stay.  Without a configured key the new process draws a key pair.       *)
Restart ==
    /\ \E key \in SignerKeys : signer' = key
    /\ pc' = [r \in Requests |-> IF pc[r] = "done" THEN "done" ELSE "idle"]
    /\ work' = [r \in Requests |-> NoWork]
    /\ UNCHANGED <<tables, policyFile, minted, resp>>

-----------------------------------------------------------------------------
Call(r) ==
    \/ Start(r)
    \/ LookupNone(r) \/ LookupExisting(r) \/ LookupReady(r) \/ LookupIssuing(r)
    \/ Evaluate(r) \/ EvaluateFail(r)
    \/ FirstCommit(r) \/ FirstFail(r) \/ Reread(r)
    \/ StartInline(r) \/ FinishInline(r)
    \/ ReadyCommit(r) \/ ReadyLost(r)
    \/ Mint(r) \/ MintFail(r) \/ FinalCommit(r)
    \/ StorageFault(r)

Click == \E a \in ApprovalIds, d \in Decisions, at \in Stamps : Approve(a, d, at)

Next ==
    \/ \E r \in Requests : Call(r)
    \/ Click
    \/ \E p \in Policies : EditPolicy(p)
    \/ Restart

Spec == Init /\ [][Next]_vars

-----------------------------------------------------------------------------
(* Properties.                                                             *)

TypeOK ==
    /\ policyFile \in Policies
    /\ policyVersions \subseteq Policies
    /\ contexts \subseteq ContextId
    /\ decisions \subseteq DecisionId
    /\ idem \in [Keys -> IdemRow \cup {NoIdem}]
    /\ approvals \in [ApprovalIds -> ApprovalRow \cup {NoApproval}]
    /\ outbox \in [ApprovalIds -> OutboxRow \cup {NoOutbox}]
    /\ receipts \subseteq ReceiptRow
    /\ keyRow \in SignerKeys \cup {Null}
    /\ signer \in SignerKeys
    /\ minted \subseteq ReceiptId
    /\ pc \in [Requests -> Steps]
    /\ work \in [Requests -> Work]
    /\ resp \in [Requests -> Answers]

(* The outcomes of the latest receipt a status stands for.                 *)
OutcomesOf(status) ==
    CASE status = "pending_approval" -> {"approval_pending"}
      [] status = "approved_ready" -> {"approval_approved"}
      [] status = "issuing" -> {"issuing_credentials"}
      [] status = "allowed" -> {"issued_credentials"}
      [] status = "denied" -> {"denied", "approval_denied"}

(* The idempotency row and the receipts agree: the latest receipt of a key *)
(* is stored, is about that key and says what the status says, and there   *)
(* is a final receipt exactly when the status is terminal.  Five           *)
(* transactions write the row, each from a snapshot of its own.            *)
StatusMatchesReceipt ==
    \A k \in Keys :
        LET row == idem[k] IN
        row.status # "absent" =>
            /\ row.latest \in Stored(receipts)
            /\ row.latest.key = k
            /\ row.latest.outcome \in OutcomesOf(row.status)
            /\ row.final = IF row.status \in {"allowed", "denied"} THEN row.latest ELSE Null

(* Whatever a row refers to is stored: no statement can fail on a foreign  *)
(* key (internal/ledger/migrations), and the pack of a receipt, which      *)
(* looks all of it up by identifier, can be made at any time.  Receipts    *)
(* are made from what a request read or built several steps earlier.       *)
ReferencesResolve ==
    /\ \A row \in receipts :
        /\ ContextOf(row.id) \in contexts
        /\ DecisionOf(row.id) \in decisions
        /\ row.id.policy \in policyVersions
        /\ row.supersedes \in Stored(receipts) \cup {Null}
        /\ keyRow # Null
        /\ idem[row.id.key].status # "absent"
        /\ row.id.approval # Null => approvals[row.id.approval].key = row.id.key
    /\ \A k \in Keys :
        /\ {idem[k].latest, idem[k].final} \subseteq Stored(receipts) \cup {Null}
        /\ idem[k].approval # Null => approvals[idem[k].approval].key = k
    /\ \A a \in ApprovalIds :
        /\ approvals[a].status # "absent" => idem[approvals[a].key].status # "absent"
        /\ outbox[a].status # "absent" => approvals[a].status # "absent"

(* The history of a receipt can be followed to its end: the receipts that  *)
(* supersede one another never go round, although identifiers repeat when  *)
(* two receipts of one kind are made in one second.                        *)
ChainsEnd ==
    \A rows \in (SUBSET receipts) \ {{}} :
        \E row \in rows : row.supersedes \notin Stored(rows)

(* A receipt that opens an issuance is either allowed by its own policy or *)
(* follows the stored approval of a human for the same key and policy.     *)
AuthorizedIssuance(row) ==
    CASE VerdictOf[row.id.policy][row.id.key] = "allow" -> TRUE
      [] VerdictOf[row.id.policy][row.id.key] = "deny" -> FALSE
      [] OTHER -> /\ row.supersedes \in Stored(receipts)
                  /\ row.supersedes.outcome = "approval_approved"
                  /\ row.supersedes.key = row.id.key
                  /\ row.supersedes.policy = row.id.policy

(* No credentials without authority: whatever the broker handed out was    *)
(* preceded by a durable issuing receipt, its policy, and, where that      *)
(* policy asks for it, the approval; across races, retries, policy edits   *)
(* and restarts.                                                           *)
MintsAreAuthorized ==
    \A id \in minted :
        /\ id.policy \in policyVersions
        /\ \E row \in receipts : /\ row.id = id
                                 /\ id.outcome = "issuing_credentials"
                                 /\ AuthorizedIssuance(row)

(* Keys every version of the policy wants a human for.                     *)
GatedKeys == {k \in Keys : \A p \in Policies : VerdictOf[p][k] = "require_approval"}

Made(k, outcomes) == {id \in Stored(receipts) : id.key = k /\ id.outcome \in outcomes}

(* One approval opens one issuance: duplicate calls on an approved key,    *)
(* repeated clicks and calls that missed the row leave at most one         *)
(* decision receipt and at most one issuing receipt.                       *)
SingleIssuance ==
    \A k \in GatedKeys :
        /\ Cardinality(Made(k, {"approval_pending"})) <= 1
        /\ Cardinality(Made(k, {"approval_approved", "approval_denied"})) <= 1
        /\ Cardinality(Made(k, {"issuing_credentials"})) <= 1

(* What the approval row says and what the key's row says agree: the API   *)
(* a client polls and the API that issues never contradict each other.     *)
Expected(status) ==
    CASE status = "pending" -> {"pending_approval"}
      [] status = "approved" -> {"approved_ready", "issuing", "allowed"}
      [] status = "denied" -> {"denied"}

ApprovalMatchesStatus ==
    \A a \in ApprovalIds :
        (approvals[a].status # "absent" /\ approvals[a].key \in GatedKeys) =>
            idem[approvals[a].key].status \in Expected(approvals[a].status)

(* Credentials leave the gateway only after the receipt that accounts for  *)
(* them is durable, and that receipt follows one the broker was called on. *)
CredentialsAreRecorded ==
    \A r \in Requests : resp[r].credentials =>
        \E row \in receipts : /\ row.id = resp[r].receipt
                             /\ row.id.outcome = "issued_credentials"
                             /\ row.id.key = KeyOf[r]
                             /\ row.supersedes \in minted

(* An answer can be followed up: the receipt it names can be verified, and *)
(* the approval it names can be polled and is for the caller's key.        *)
AnswersResolve ==
    \A r \in Requests :
        /\ resp[r].error # "dangling"
        /\ resp[r].receipt # Null => resp[r].receipt \in Stored(receipts)
        /\ resp[r].verdict = "require_approval" =>
               \E a \in ApprovalIds : a = resp[r].approval /\ approvals[a].key = KeyOf[r]

(* An approved action is issued in the end, though the call that issues it *)
(* dies, loses its transaction or is refused by the broker any number of   *)
(* times, as long as clients keep calling.                                 *)
ApprovedIsIssued ==
    \A k \in GatedKeys : idem[k].status \in {"approved_ready", "issuing"} ~> idem[k].status = "allowed"

=============================================================================
